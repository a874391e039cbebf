-------------------------- MODULE AgentLoopProofs --------------------------
(***************************************************************************)
(* Proofs about AgentLoop, for every set of calls and every limits.        *)
(*                                                                         *)
(* The properties speak of what happened (generated, ran) and the code     *)
(* only keeps its counters, so the inductive invariant relates the two:    *)
(* generated follows step, a call ran exactly if its signature is known,   *)
(* and mutationCalls is the number of known signatures of mutating tools.  *)
(***************************************************************************)
EXTENDS AgentLoop, FiniteSetTheorems, TLAPS

(* While the run goes on, the model was called once per iteration; the     *)
(* call that ends the run may come on top.                                 *)
GeneratedOK ==
    /\ generated <= step + 1
    /\ pc \in {"loop", "tools", "final"} => generated = step

(* Calls wait exactly while the loop over them runs, within the limit.     *)
QueueOK ==
    /\ pc = "tools" <=> Len(queue) > 0
    /\ totalToolCalls + Len(queue) <= MaxToolCalls

(* The counters record what ran.                                           *)
SignaturesOK == \A c \in Calls : ran[c] = IF c \in signatures THEN 1 ELSE 0

MutationsOK ==
    /\ mutationCalls = Cardinality(Mutations \cap signatures)
    /\ mutationCalls <= MaxMutations

Inv == TypeOK /\ GeneratedOK /\ QueueOK /\ SignaturesOK /\ MutationsOK

(* A new signature changes the number of known mutations by at most one.   *)
LEMMA KnownMutations ==
    ASSUME NEW S \in SUBSET Calls, NEW c \in Calls, c \notin S
    PROVE  Cardinality(Mutations \cap (S \cup {c})) =
               Cardinality(Mutations \cap S) + (IF c \in Mutations THEN 1 ELSE 0)
<1>1. IsFiniteSet(Mutations \cap S)
  <2>1. Mutations \cap S \subseteq Calls
    BY CallsAssumption
  <2> QED BY <2>1, FS_Subset, CallsAssumption
<1>2. Cardinality(Mutations \cap S) \in Nat
  BY <1>1, FS_CardinalityType
<1>3. CASE c \in Mutations
  <2>1. Mutations \cap (S \cup {c}) = (Mutations \cap S) \cup {c}
    BY <1>3
  <2> QED BY <1>1, <1>3, <2>1, FS_AddElement
<1>4. CASE c \notin Mutations
  <2>1. Mutations \cap (S \cup {c}) = Mutations \cap S
    BY <1>4
  <2> QED BY <1>2, <1>4, <2>1
<1> QED BY <1>3, <1>4

LEMMA InitInv == Init => Inv
<1> SUFFICES ASSUME Init PROVE Inv
  OBVIOUS
<1>1. TypeOK
  BY LimitsAssumption DEF Init, TypeOK
<1>2. GeneratedOK /\ QueueOK /\ SignaturesOK
  BY LimitsAssumption DEF Init, GeneratedOK, QueueOK, SignaturesOK
<1>3. MutationsOK
  <2>1. Mutations \cap signatures = {}
    BY DEF Init
  <2> QED BY <2>1, FS_EmptySet, LimitsAssumption DEF Init, MutationsOK
<1> QED BY <1>1, <1>2, <1>3 DEF Inv

(* What handling the head of the queue does, whatever becomes of the call. *)
LEMMA NextCallStep ==
    ASSUME Inv, pc = "tools", NextCall
    PROVE  /\ Head(queue) \in Calls
           /\ pc' \in {"loop", "tools"}
           /\ queue' \in Seq(Calls)
           /\ totalToolCalls' \in Nat
           /\ QueueOK'
           /\ GeneratedOK'
<1>1. queue \in Seq(Calls) /\ Len(queue) > 0 /\ queue # <<>>
  <2>1. queue \in Seq(Calls) /\ Len(queue) > 0
    BY DEF Inv, TypeOK, QueueOK
  <2> QED BY <2>1
<1>2. Head(queue) \in Calls /\ Tail(queue) \in Seq(Calls) /\ Len(Tail(queue)) = Len(queue) - 1
  BY <1>1
<1>3. Len(queue) \in Nat \ {0}
  BY <1>1
<1>4. pc' = "tools" <=> Len(queue') > 0
  BY <1>2, <1>3 DEF NextCall
<1>5. QueueOK'
  BY <1>2, <1>3, <1>4, LimitsAssumption DEF NextCall, QueueOK, Inv, TypeOK
<1>6. GeneratedOK'
  BY DEF NextCall, GeneratedOK, Inv, TypeOK
<1> QED BY <1>2, <1>5, <1>6 DEF NextCall, Inv, TypeOK

(* One step per action.                                                    *)
LEMMA StepInv == Inv /\ [Next]_vars => Inv'
<1> SUFFICES ASSUME Inv, [Next]_vars PROVE Inv'
  OBVIOUS
<1> USE LimitsAssumption
<1>1. CASE Answer
  <2>1. TypeOK' /\ GeneratedOK' /\ QueueOK'
    BY <1>1 DEF Inv, Answer, Generate, counters, TypeOK, GeneratedOK, QueueOK
  <2>2. SignaturesOK' /\ MutationsOK'
    BY <1>1 DEF Inv, Answer, counters, SignaturesOK, MutationsOK
  <2> QED BY <2>1, <2>2 DEF Inv
<1>2. CASE Dispatch
  <2>1. PICK n \in 1..MaxBatch : \E calls \in [1..n -> Calls] :
            totalToolCalls + n <= MaxToolCalls /\ queue' = calls
    BY <1>2 DEF Dispatch
  <2>2. PICK calls \in [1..n -> Calls] : totalToolCalls + n <= MaxToolCalls /\ queue' = calls
    BY <2>1
  <2>3. n \in Nat \ {0}
    OBVIOUS
  <2>4. calls \in Seq(Calls) /\ Len(calls) = n
    BY <2>3
  <2>6. TypeOK'
    BY <1>2, <2>2, <2>4 DEF Inv, Dispatch, Generate, counters, TypeOK
  <2>7. GeneratedOK' /\ QueueOK'
    BY <1>2, <2>2, <2>3, <2>4 DEF Inv, Dispatch, Generate, counters, TypeOK, GeneratedOK, QueueOK
  <2>8. SignaturesOK' /\ MutationsOK'
    BY <1>2 DEF Inv, Dispatch, counters, SignaturesOK, MutationsOK
  <2> QED BY <2>6, <2>7, <2>8 DEF Inv
<1>3. CASE ExceedLimit
  <2>1. TypeOK' /\ GeneratedOK' /\ QueueOK'
    BY <1>3 DEF Inv, ExceedLimit, Generate, counters, TypeOK, GeneratedOK, QueueOK
  <2>2. SignaturesOK' /\ MutationsOK'
    BY <1>3 DEF Inv, ExceedLimit, counters, SignaturesOK, MutationsOK
  <2> QED BY <2>1, <2>2 DEF Inv
<1>4. CASE ExhaustSteps
  <2>1. TypeOK' /\ GeneratedOK' /\ QueueOK'
    BY <1>4 DEF Inv, ExhaustSteps, counters, TypeOK, GeneratedOK, QueueOK
  <2>2. SignaturesOK' /\ MutationsOK'
    BY <1>4 DEF Inv, ExhaustSteps, counters, SignaturesOK, MutationsOK
  <2> QED BY <2>1, <2>2 DEF Inv
<1>5. CASE FinalAnswer
  <2>1. TypeOK' /\ GeneratedOK' /\ QueueOK'
    BY <1>5 DEF Inv, FinalAnswer, counters, TypeOK, GeneratedOK, QueueOK
  <2>2. SignaturesOK' /\ MutationsOK'
    BY <1>5 DEF Inv, FinalAnswer, counters, SignaturesOK, MutationsOK
  <2> QED BY <2>1, <2>2 DEF Inv
<1>6. CASE Fail
  <2>1. TypeOK' /\ GeneratedOK' /\ QueueOK'
    BY <1>6 DEF Inv, Fail, counters, TypeOK, GeneratedOK, QueueOK
  <2>2. SignaturesOK' /\ MutationsOK'
    BY <1>6 DEF Inv, Fail, counters, SignaturesOK, MutationsOK
  <2> QED BY <2>1, <2>2 DEF Inv
<1>7. CASE RejectCall \/ SuppressCall
  <2>1. pc = "tools" /\ NextCall /\ UNCHANGED <<mutationCalls, signatures, ran>>
    BY <1>7 DEF RejectCall, SuppressCall
  <2>2. TypeOK'
    BY <2>1, NextCallStep DEF Inv, TypeOK, NextCall
  <2>3. SignaturesOK' /\ MutationsOK'
    BY <2>1 DEF Inv, SignaturesOK, MutationsOK
  <2> QED BY <2>1, <2>2, <2>3, NextCallStep DEF Inv
<1>8. CASE ExecuteCall
  <2> DEFINE h == Head(queue)
  <2>1. PICK c : c = h
    OBVIOUS
  <2>2. /\ pc = "tools" /\ NextCall /\ Allowed(c) /\ c \notin signatures
        /\ signatures' = signatures \cup {c}
        /\ ran' = [ran EXCEPT ![c] = @ + 1]
        /\ mutationCalls' = IF c \in Mutations THEN mutationCalls + 1 ELSE mutationCalls
    BY <1>8, <2>1 DEF ExecuteCall
  <2>3. c \in Calls
    BY <2>1, <2>2, NextCallStep
  <2>4. TypeOK'
    BY <2>2, <2>3, NextCallStep DEF Inv, TypeOK, NextCall
  <2>5. SignaturesOK'
    BY <2>2, <2>3 DEF Inv, TypeOK, SignaturesOK
  <2>6. Cardinality(Mutations \cap signatures') =
            Cardinality(Mutations \cap signatures) + (IF c \in Mutations THEN 1 ELSE 0)
    BY <2>2, <2>3, KnownMutations DEF Inv, TypeOK
  <2>7. MutationsOK'
    BY <2>2, <2>6 DEF Inv, TypeOK, MutationsOK, Allowed
  <2> QED BY <2>2, <2>4, <2>5, <2>7, NextCallStep DEF Inv
<1>9. CASE Returned \/ UNCHANGED vars
  BY <1>9 DEF Returned, vars, Inv, TypeOK, GeneratedOK, QueueOK, SignaturesOK, MutationsOK
<1> QED BY <1>1, <1>2, <1>3, <1>4, <1>5, <1>6, <1>7, <1>8, <1>9 DEF Next

(* The strengthened invariant holds throughout every run.                  *)
THEOREM Invariance == Spec => []Inv
BY InitInv, StepInv, PTL DEF Spec

(* The locals of run() keep their types.                                   *)
THEOREM TypeCorrect == Spec => []TypeOK
<1>1. Inv => TypeOK
  BY DEF Inv
<1> QED BY <1>1, Invariance, PTL

(* However the model behaves, a run makes at most maxSteps + 1 calls to it *)
(* and never handles more than maxToolCalls tool calls.                    *)
THEOREM WorkIsBounded == Spec => []BoundedWork
<1>1. Inv => BoundedWork
  BY LimitsAssumption DEF Inv, TypeOK, GeneratedOK, QueueOK, BoundedWork
<1> QED BY <1>1, Invariance, PTL

(* No tool call is executed twice in a run.                                *)
THEOREM NoCallRepeats == Spec => []AtMostOnce
<1>1. Inv => AtMostOnce
  BY DEF Inv, SignaturesOK, AtMostOnce
<1> QED BY <1>1, Invariance, PTL

(* At most DEFAULT_MAX_MUTATIONS mutating calls are executed in a run.     *)
THEOREM MutationsAreBounded == Spec => []MutationBudget
<1>1. ASSUME Inv PROVE MutationBudget
  <2>1. {c \in Mutations : ran[c] > 0} = Mutations \cap signatures
    BY <1>1, CallsAssumption DEF Inv, SignaturesOK
  <2> QED BY <1>1, <2>1 DEF Inv, MutationsOK, MutationBudget
<1> QED BY <1>1, Invariance, PTL
=============================================================================
