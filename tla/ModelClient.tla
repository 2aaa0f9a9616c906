---------------------------- MODULE ModelClient ----------------------------
(***************************************************************************)
(* The model clients of a session: SLMClient.call with its retries         *)
(* (slm/client.py), the usage it is billed to (slm/usage.py), the profile  *)
(* and provider of a role (slm/registry.py, slm/config.py), the probe and  *)
(* the part of run_turn and run_full_session (orchestration/session.py)    *)
(* that opens the clients, runs an engine and closes them.                 *)
(*                                                                         *)
(* One thread runs all of it; what is nondeterministic is the provider,    *)
(* and when the engine, which SessionGraph, SessionLoop and                *)
(* InteractiveTurn model, calls it.  Texts and times are left out.         *)
(***************************************************************************)
EXTENDS Naturals

CONSTANTS
  Providers,     \* the providers of models.yaml
  Required,      \* those with api_key_required
  Unresolved,    \* a name, of a profile or provider, that models.yaml does not have
  MaxRetries,    \* _MAX_RETRIES
  MaxAttempts,   \* max_attempts of validate_slm_api_key
  MaxCalls       \* bound on the calls the graph and the loop make

ASSUME RequiredAreProviders == Required \subseteq Providers
ASSUME UnresolvedIsNoProvider == Unresolved \notin Providers
ASSUME AtLeastOnePost == MaxRetries \in Nat \ {0}
ASSUME AtLeastOneAttempt == MaxAttempts \in Nat \ {0}
ASSUME MaxCallsIsNat == MaxCalls \in Nat

Roles == {"planner", "executor"}
Engines == {"graph", "loop", "interactive"}
Keys == {"absent", "placeholder", "real"}

VARIABLES
  setting,    \* arguments, models.yaml and environment, see Settings
  pc,         \* "start", "probe", "ping", "pong", "open", "engine", "call",
              \* "answer", "report", "returned", "refused" or "raised"
  driver,     \* the engine that runs, a promoted turn's being the graph
  open,       \* the HTTP clients that are open
  begun,      \* what the stores know of the session: "nothing", "root" or "start"
  caller,     \* the client of the current call
  posts,      \* requests of the current call that were posted
  answer,     \* what the last of them came to
  error,      \* error of the last SLMResponse, "none" if it has none
  attempts,   \* attempts of the probe
  calls,      \* calls the engine has made, counted up to MaxCalls
  llm_calls   \* llm_calls of the SLMUsageAccumulator, as far as that

vars == <<setting, pc, driver, open, begun, caller, posts, answer, error, attempts, calls, llm_calls>>
request == <<caller, posts, answer, error>>
counters == <<attempts, calls, llm_calls>>

Settings ==
  [engine : Engines, probe : BOOLEAN, workspace : BOOLEAN,
   active : Providers \union {Unresolved},             \* active_provider_name
   provider : [Roles -> Providers \union {Unresolved}], \* provider_for_profile
   timed : [Roles -> BOOLEAN],                         \* timeout_by_role has the role
   key : [Required -> Keys]]                           \* resolve_api_key

Init ==
  /\ setting \in Settings
  /\ pc = "start"
  /\ driver = setting.engine
  /\ open = {}
  /\ begun = "nothing"
  /\ caller = "planner" /\ posts = 0 /\ answer = "none" /\ error = "none"
  /\ attempts = 0 /\ calls = 0 /\ llm_calls = 0

Role(client) == IF client = "probe" THEN "planner" ELSE client
ProviderOf(client) == setting.provider[Role(client)]
Resolved(role) == setting.provider[role] \in Providers
KeyMissing(client) ==
  ProviderOf(client) \in Required /\ setting.key[ProviderOf(client)] = "absent"

-----------------------------------------------------------------------------
(* SLMClient.call.  A request comes to a completion, to a status, which is   *)
(* named here as the error it is reported as, or to one of these with a body *)
(* that is no JSON object; or it times out, its connection fails, or         *)
(* something else goes wrong.                                                *)
Unreadable == {"bad_body", "bad_rate_limited", "bad_http_503"}
Reported == {"rate_limited", "http_4xx", "http_500", "http_503", "timeout"}
Answers == {"ok", "http_3xx", "connection", "transport"} \union Reported \union Unreadable
Retryable == {"rate_limited", "http_503", "connection"}

ErrorOf(a) == IF a = "ok" THEN "none" ELSE IF a \in Reported THEN a ELSE "http_error"

\* The call of a client begins: it may return before anything is posted.
BeginCall(client, calling, answered) ==
  /\ caller' = client
  /\ posts' = 0
  /\ answer' = "none"
  /\ IF KeyMissing(client) THEN error' = "missing_api_key" /\ pc' = answered
     ELSE IF ~setting.timed[Role(client)] THEN error' = "unknown_role" /\ pc' = answered
     ELSE error' = "none" /\ pc' = calling

\* Mutated: a request that is to be made again is not counted.
CountedFinal(a) == IF a \in Retryable THEN posts ELSE posts + 1

Counted(a) == posts + 1

\* A request is posted, and the call goes on, returns or raises.
Post(answered, raised) ==
  \E a \in Answers :
    /\ posts' = Counted(a)
    /\ answer' = a
    /\ IF a \in Unreadable THEN pc' = raised /\ error' = error
       ELSE IF a \in Retryable /\ Counted(a) < MaxRetries THEN pc' = pc /\ error' = error
       ELSE pc' = answered /\ error' = ErrorOf(a)
    /\ caller' = caller

-----------------------------------------------------------------------------
(* validate_slm_api_key: the key of the active provider, then a ping with   *)
(* the planner's profile.                                                   *)
KeyLooksReal ==
  /\ setting.active \in Providers
  /\ setting.active \in Required => setting.key[setting.active] = "real"

\* The errors of a call that _is_transient_probe_error knows.
Transient == {"timeout", "http_error", "http_500", "http_503"}

\* Mutated: an error that is not worth a retry is taken for an answer.
PassedUnlessTransient == error \notin Transient

ProbePassed == error = "none"

Start ==
  /\ pc = "start"
  /\ pc' = IF ~setting.probe THEN IF setting.workspace THEN "open" ELSE "refused"
           ELSE IF KeyLooksReal THEN "probe" ELSE "refused"
  /\ UNCHANGED <<setting, driver, open, begun, request, counters>>

\* One attempt: probe_client may find no profile, which nothing handles.
ProbeAttempt ==
  /\ pc = "probe"
  /\ IF Resolved("planner")
     THEN /\ open' = open \union {"probe"}
          /\ attempts' = attempts + 1
          /\ BeginCall("probe", "ping", "pong")
     ELSE /\ pc' = "refused"
          /\ UNCHANGED <<open, attempts, request>>
  /\ UNCHANGED <<setting, driver, begun, calls, llm_calls>>

Ping ==
  /\ pc = "ping"
  /\ Post("pong", "refused")
  /\ open' = IF pc' = "refused" THEN open \ {"probe"} ELSE open
  /\ UNCHANGED <<setting, driver, begun, counters>>

\* The client is closed and the result looked at.
Judge ==
  /\ pc = "pong"
  /\ open' = open \ {"probe"}
  /\ pc' = IF ProbePassed THEN IF setting.workspace THEN "open" ELSE "refused"
           ELSE IF error \in Transient /\ attempts < MaxAttempts THEN "probe"
           ELSE "refused"
  /\ UNCHANGED <<setting, driver, begun, request, counters>>

-----------------------------------------------------------------------------
(* run_turn and run_full_session.                                           *)
\* The root subtask is registered, _build_agents opens two clients, and the first
\* snapshot is written.  Each may raise, and nothing handles it: the stores may fail,
\* and the executor's profile may be unknown when the planner's client is open.
OpenClients ==
  /\ pc = "open"
  /\ \/ /\ \A role \in Roles : Resolved(role)
        /\ open' = Roles /\ begun' = "start" /\ pc' = "engine"
     \/ /\ open' = IF \A role \in Roles : Resolved(role) THEN Roles
                   ELSE IF Resolved("planner") THEN {"planner"} ELSE {}
        /\ begun' = "root" /\ pc' = "raised"
     \/ pc' = "raised" /\ UNCHANGED <<open, begun>>
  /\ UNCHANGED <<setting, driver, request, counters>>

UpToMaxCalls(n) == IF n < MaxCalls THEN n + 1 ELSE n

\* Until a turn is promoted only the executor is called.  The budgets of the graph
\* and the loop bound their calls; handoffs may keep a turn calling.
EngineCalls(role) ==
  /\ pc = "engine"
  /\ IF driver = "interactive" THEN role = "executor" ELSE calls < MaxCalls
  /\ calls' = UpToMaxCalls(calls)
  /\ BeginCall(role, "call", "answer")
  /\ UNCHANGED <<setting, driver, open, begun, attempts, llm_calls>>

\* The graph and the loop catch what a call raises, and end with an outcome; the
\* executor's turn does not.
EnginePosts ==
  /\ pc = "call"
  /\ Post("answer", IF driver = "interactive" THEN "raised" ELSE "report")
  /\ UNCHANGED <<setting, driver, open, begun, counters>>

\* TrackingSLMClient bills a call that returned, whatever it returned.
Record ==
  /\ pc = "answer"
  /\ llm_calls' = UpToMaxCalls(llm_calls)
  /\ pc' = "engine"
  /\ UNCHANGED <<setting, driver, open, begun, request, attempts, calls>>

\* The turn hands its goal over to the graph.
Promote ==
  /\ pc = "engine"
  /\ driver = "interactive"
  /\ driver' = "graph"
  /\ UNCHANGED <<setting, pc, open, begun, request, counters>>

\* The engine is done, or has caught an exception.
EngineEnds ==
  /\ pc = "engine"
  /\ pc' = "report"
  /\ UNCHANGED <<setting, driver, open, begun, request, counters>>

\* Outside the try of the graph and the loop nothing handles an exception, nor closes
\* the clients: in a turn and its promotion, as when its working memory does not fit,
\* and where any session counts its records, saves its checkpoint (other errors than
\* an OSError) and reads its message.
SessionRaises ==
  /\ pc = "report" \/ (pc = "engine" /\ driver = "interactive")
  /\ pc' = "raised"
  /\ UNCHANGED <<setting, driver, open, begun, request, counters>>

\* Mutated: the engine's clients are left to the garbage collector.
OpenAfterwards == open

OpenAfterReturn == {}

Finish ==
  /\ pc = "report"
  /\ pc' = "returned"
  /\ open' = OpenAfterReturn
  /\ UNCHANGED <<setting, driver, begun, request, counters>>

Next ==
  \/ Start \/ ProbeAttempt \/ Ping \/ Judge
  \/ OpenClients \/ (\E role \in Roles : EngineCalls(role))
  \/ EnginePosts \/ Record \/ Promote \/ EngineEnds \/ SessionRaises \/ Finish

Spec == Init /\ [][Next]_vars

\* One thread that goes on: requests time out, and pauses between attempts end.
FairSpec == Spec /\ WF_vars(Next)

-----------------------------------------------------------------------------
(* Properties.                                                              *)
Errors == Reported \union {"none", "http_error", "missing_api_key", "unknown_role"}

(* Types.                                                                   *)
TypeOK ==
  /\ setting \in Settings
  /\ pc \in {"start", "probe", "ping", "pong", "open", "engine", "call", "answer",
              "report", "returned", "refused", "raised"}
  /\ driver \in Engines
  /\ open \subseteq Roles \union {"probe"}
  /\ begun \in {"nothing", "root", "start"}
  /\ caller \in Roles \union {"probe"}
  /\ posts \in 0..MaxRetries
  /\ answer \in Answers \union {"none"}
  /\ error \in Errors
  /\ attempts \in 0..MaxAttempts
  /\ calls \in 0..MaxCalls
  /\ llm_calls \in 0..calls

\* However it ends, a probe leaves no client open, and a session it refused no trace
\* in the stores; a session that returns has closed both of its clients.  One that
\* raises once its agents are built leaves both open.
CleanEnds ==
  /\ pc \in {"refused", "returned"} => open = {}
  /\ pc = "refused" => begun = "nothing"
  /\ pc = "raised" => "probe" \notin open

\* In a session that was probed every call of the planner reaches its provider.  The
\* probe pings with the planner's profile only: the executor's calls can all fail
\* before a request is posted, but not for the lack of the key the planner uses.
ProbeVouches ==
  setting.probe /\ pc = "answer" /\ posts = 0 =>
    /\ caller = "executor"
    /\ error = "missing_api_key" => setting.provider["executor"] /= setting.provider["planner"]

\* Retries within attempts within a probe, and the calls of an engine: whatever the
\* provider answers, a session ends, except for a turn that calls the model again and
\* again (OnlyHandoffsAreEndless of InteractiveTurn says which do).
SessionEnds ==
  \/ <>(pc \in {"returned", "refused", "raised"})
  \/ []<>(pc = "engine" /\ driver = "interactive")
=============================================================================
