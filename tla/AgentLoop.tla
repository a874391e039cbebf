----------------------------- MODULE AgentLoop -----------------------------
(***************************************************************************)
(* One run of the AI agent: the reasoning loop of                          *)
(* src/modules/ai/agent.orchestrator.ts with the policy of                 *)
(* guardrails/agent-security.policy.ts and the registry of                 *)
(* tools/tool-registry.ts.                                                 *)
(*                                                                         *)
(* The language model is the environment: each generate() answers, asks    *)
(* for any sequence of tool calls, or throws.  A call is its signature,    *)
(* the tool's name with the JSON text of the arguments.  Every await (a    *)
(* generate, a tool) is one step.                                          *)
(*                                                                         *)
(* Definitions named Bug... are plausible mistakes in the definition that  *)
(* follows them; nothing uses them.                                        *)
(***************************************************************************)
EXTENDS Naturals, Sequences, FiniteSets

CONSTANTS
    Calls,         \* signatures the model may ask for
    Mutations,     \* calls of tools that write or act outside the system
    Refused,       \* unregistered tool, role not allowed, or needs confirmation
    MaxSteps,      \* request.maxSteps or AI_MAX_STEPS
    MaxToolCalls,  \* request.maxToolCalls or AI_MAX_TOOL_CALLS
    MaxMutations,  \* DEFAULT_MAX_MUTATIONS
    MaxBatch       \* bound: calls in one response of the model

ASSUME CallsAssumption ==
    IsFiniteSet(Calls) /\ Mutations \subseteq Calls /\ Refused \subseteq Calls
ASSUME LimitsAssumption ==
    /\ MaxSteps \in Nat \ {0} /\ MaxToolCalls \in Nat \ {0}
    /\ MaxMutations \in Nat /\ MaxBatch \in Nat

VARIABLES
    pc,             \* where run() is
    step,           \* iterations of the loop begun
    totalToolCalls, \* calls handled, whatever became of them
    mutationCalls,  \* calls of mutating tools executed
    signatures,     \* keys of callSignatures
    queue,          \* calls of the current response still to be handled
    generated,      \* history: calls made to the model
    ran             \* history: how often each call was executed

vars == <<pc, step, totalToolCalls, mutationCalls, signatures, queue, generated, ran>>

Init ==
    /\ pc = "loop"
    /\ step = 0
    /\ totalToolCalls = 0
    /\ mutationCalls = 0
    /\ signatures = {}
    /\ queue = <<>>
    /\ generated = 0
    /\ ran = [c \in Calls |-> 0]

-----------------------------------------------------------------------------
counters == <<totalToolCalls, mutationCalls, signatures, ran>>

(* One iteration up to the model's response.                               *)
Generate ==
    /\ pc = "loop"
    /\ step < MaxSteps
    /\ step' = step + 1
    /\ generated' = generated + 1

(* No tool calls in the response: it is the answer.                        *)
Answer ==
    /\ Generate
    /\ pc' = "answered"
    /\ UNCHANGED <<counters, queue>>

BugDispatch ==
    /\ Generate
    /\ totalToolCalls <= MaxToolCalls
    /\ \E n \in 1..MaxBatch : \E calls \in [1..n -> Calls] : queue' = calls
    /\ pc' = "tools"
    /\ UNCHANGED counters

(* The calls fit into the limit: handle them one by one.                   *)
Dispatch ==
    /\ Generate
    /\ \E n \in 1..MaxBatch : \E calls \in [1..n -> Calls] :
           /\ totalToolCalls + n <= MaxToolCalls
           /\ queue' = calls
    /\ pc' = "tools"
    /\ UNCHANGED counters

(* They do not fit: none is executed, the model is asked for its answer.   *)
ExceedLimit ==
    /\ Generate
    /\ \E n \in 1..MaxBatch : totalToolCalls + n > MaxToolCalls
    /\ pc' = "final"
    /\ UNCHANGED <<counters, queue>>

(* The loop ends by its condition.                                         *)
ExhaustSteps ==
    /\ pc = "loop"
    /\ step = MaxSteps
    /\ pc' = "final"
    /\ UNCHANGED <<counters, step, queue, generated>>

(* The last generate has no tools; whatever it returns is the answer.      *)
FinalAnswer ==
    /\ pc = "final"
    /\ generated' = generated + 1
    /\ pc' = "answered"
    /\ UNCHANGED <<counters, step, queue>>

(* generate() throws: the run fails, what the tools did stays done.        *)
Fail ==
    /\ \/ pc = "loop" /\ step < MaxSteps /\ step' = step + 1
       \/ pc = "final" /\ step' = step
    /\ generated' = generated + 1
    /\ pc' = "failed"
    /\ UNCHANGED <<counters, queue>>

-----------------------------------------------------------------------------
BugAllowed(c) ==
    /\ c \notin Refused
    /\ c \in Mutations => mutationCalls <= MaxMutations

(* evaluateToolExecution.                                                  *)
Allowed(c) ==
    /\ c \notin Refused
    /\ c \in Mutations => mutationCalls < MaxMutations

(* End of the loop body over response.toolCalls.                           *)
NextCall ==
    /\ totalToolCalls' = totalToolCalls + 1
    /\ queue' = Tail(queue)
    /\ pc' = IF Len(queue) = 1 THEN "loop" ELSE "tools"
    /\ UNCHANGED <<step, generated>>

(* Rejected by the policy.                                                 *)
RejectCall ==
    /\ pc = "tools"
    /\ ~Allowed(Head(queue))
    /\ NextCall
    /\ UNCHANGED <<mutationCalls, signatures, ran>>

BugSuppressCall ==
    /\ pc = "tools"
    /\ Allowed(Head(queue))
    /\ Head(queue) \in signatures
    /\ UNCHANGED vars

(* Seen before: answered with an error instead of being executed.          *)
SuppressCall ==
    /\ pc = "tools"
    /\ Allowed(Head(queue))
    /\ Head(queue) \in signatures
    /\ NextCall
    /\ UNCHANGED <<mutationCalls, signatures, ran>>

BugExecuteCall ==
    LET c == Head(queue)
    IN  /\ pc = "tools"
        /\ Allowed(c)
        /\ c \notin signatures
        /\ \E success \in BOOLEAN :
               signatures' = IF success THEN signatures \cup {c} ELSE signatures
        /\ ran' = [ran EXCEPT ![c] = @ + 1]
        /\ mutationCalls' = IF c \in Mutations THEN mutationCalls + 1 ELSE mutationCalls
        /\ NextCall

(* Executed; a tool that fails counts like one that succeeds.              *)
ExecuteCall ==
    LET c == Head(queue)
    IN  /\ pc = "tools"
        /\ Allowed(c)
        /\ c \notin signatures
        /\ signatures' = signatures \cup {c}
        /\ ran' = [ran EXCEPT ![c] = @ + 1]
        /\ mutationCalls' = IF c \in Mutations THEN mutationCalls + 1 ELSE mutationCalls
        /\ NextCall

Returned == pc \in {"answered", "failed"} /\ UNCHANGED vars

Next ==
    \/ Answer \/ Dispatch \/ ExceedLimit \/ ExhaustSteps \/ FinalAnswer \/ Fail
    \/ RejectCall \/ SuppressCall \/ ExecuteCall
    \/ Returned

(* generate() is called with a timeout, and a tool ends in a result or an  *)
(* exception that executeTool turns into one: every step is taken.         *)
Spec == Init /\ [][Next]_vars /\ WF_vars(Next)

-----------------------------------------------------------------------------
(* Properties.                                                             *)

(* The run's locals keep their types and step stays within its limit.      *)
TypeOK ==
    /\ pc \in {"loop", "tools", "final", "answered", "failed"}
    /\ step \in 0..MaxSteps
    /\ totalToolCalls \in Nat
    /\ mutationCalls \in Nat
    /\ signatures \subseteq Calls
    /\ queue \in Seq(Calls)
    /\ generated \in Nat
    /\ ran \in [Calls -> Nat]

(* A run costs at most maxSteps + 1 calls to the model, and no more than   *)
(* maxToolCalls tool calls are handled or waiting, whichever way the loop  *)
(* ends and however the model batches its calls.                           *)
BoundedWork ==
    /\ generated <= MaxSteps + 1
    /\ totalToolCalls + Len(queue) <= MaxToolCalls

(* Within a run no call is executed twice: a model that repeats itself, in *)
(* one response or in a later one, or after the tool failed, repeats no    *)
(* effect.                                                                 *)
AtMostOnce == \A c \in Calls : ran[c] <= 1

(* At most DEFAULT_MAX_MUTATIONS writes or outside effects happen in a     *)
(* run, although rejected, repeated and failed calls share its counters.   *)
MutationBudget == Cardinality({c \in Mutations : ran[c] > 0}) <= MaxMutations

(* Every run returns or throws, whatever the model does.                   *)
Terminates == <>(pc \in {"answered", "failed"})
=============================================================================
