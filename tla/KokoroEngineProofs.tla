------------------------- MODULE KokoroEngineProofs -------------------------
(***************************************************************************)
(* Theorems about KokoroEngine for any set of calls, hung or not, with or  *)
(* without a time limit.                                                   *)
(***************************************************************************)
EXTENDS KokoroEngine, SequenceTheorems, TLAPS

USE CallsAssumption

(* A future is pending only while its call waits for it, none is on a      *)
(* closed engine, and it is running while the thread is in it.             *)
FutureInv ==
  \A c \in Calls : /\ fut[c] = "pending" => pc[c] = "infer" /\ ~closed
                   /\ pc[c] \in {"idle", "lock"} => fut[c] = "none"
                   /\ c \in running => fut[c] = "running"

(* The queue of the lock holds calls that wait for it, each once.          *)
WaitInv ==
  \A i \in 1..Len(waiters) : /\ pc[waiters[i]] = "lock"
                             /\ \A j \in 1..Len(waiters) : waiters[i] = waiters[j] => i = j

Inv == TypeOK /\ LockFollowsCall /\ OneInference /\ FutureInv /\ WaitInv

(* The invariant holds in a new engine.                                    *)
LEMMA InvInit == Init => Inv
<1> SUFFICES ASSUME Init PROVE Inv
  OBVIOUS
<1>1. TypeOK
  BY EmptySeq DEF Init, TypeOK, Ended
<1>2. LockFollowsCall /\ OneInference /\ FutureInv /\ WaitInv
  BY DEF Init, WaitInv, LockFollowsCall, OneInference, FutureInv
<1>3. QED
  BY <1>1, <1>2 DEF Inv

(* What a call does when it gets the lock.                                 *)
LEMMA SubmitInv ==
  ASSUME Inv, NEW c \in Calls, holder = None, Submit(c), pc[c] \in {"idle", "lock"},
         waiters' \in Seq(Calls), WaitInv', UNCHANGED <<running, closed>>
  PROVE  Inv'
<1>0. TypeOK /\ LockFollowsCall /\ OneInference /\ FutureInv
  BY DEF Inv
<1>1. pc' = [pc EXCEPT ![c] = "infer"] /\ holder' = c
  BY DEF Submit, Goto
<1>2. \/ closed /\ fut' = [fut EXCEPT ![c] = "failed"] /\ works' = works
      \/ ~closed /\ fut' = [fut EXCEPT ![c] = "pending"] /\ works' = Append(works, c)
  BY DEF Submit
<1>3. c \notin running
  BY <1>0 DEF FutureInv
<1>4. TypeOK'
  <2>1. works' \in Seq(Calls)
    BY <1>0, <1>2, AppendProperties DEF TypeOK
  <2>2. fut' \in [Calls -> {"none", "pending", "running", "finished", "failed", "cancelled"}]
    BY <1>0, <1>2 DEF TypeOK
  <2>3. QED
    BY <1>0, <1>1, <2>1, <2>2 DEF TypeOK, Ended
<1>5. LockFollowsCall'
  BY <1>0, <1>1 DEF TypeOK, LockFollowsCall
<1>6. OneInference' /\ FutureInv'
  BY <1>0, <1>1, <1>2, <1>3 DEF TypeOK, OneInference, FutureInv
<1>7. QED
  BY <1>4, <1>5, <1>6 DEF Inv

(* What the end of a wait for the inference, or of the audio, may do.      *)
Leave(c) ==
  /\ pc[c] \in {"infer", "yield"}
  /\ \E to \in {"yield", "done", "failed", "cancelled"} : pc' = [pc EXCEPT ![c] = to]
  /\ holder' = IF pc[c] = "infer" THEN None ELSE holder
  /\ Abandon(c) \/ (UNCHANGED fut /\ (fut[c] # "pending" \/ pc[c] = "yield"))
  /\ UNCHANGED <<waiters, works, running, closed>>

(* A call that leaves its wait or its audio keeps the invariant.           *)
LEMMA LeaveInv ==
  ASSUME Inv, NEW c \in Calls, Leave(c)
  PROVE  Inv'
<1>0. TypeOK /\ LockFollowsCall /\ OneInference /\ FutureInv /\ WaitInv
  BY DEF Inv
<1>1. PICK to \in {"yield", "done", "failed", "cancelled"} : pc' = [pc EXCEPT ![c] = to]
  BY DEF Leave
<1>2. /\ fut' \in [Calls -> {"none", "pending", "running", "finished", "failed", "cancelled"}]
      /\ fut'[c] # "pending" /\ (fut'[c] = "running" <=> fut[c] = "running")
      /\ \A d \in Calls \ {c} : fut'[d] = fut[d]
  BY <1>0 DEF Leave, Abandon, TypeOK, FutureInv
<1>3. TypeOK'
  BY <1>0, <1>1, <1>2 DEF Leave, TypeOK, Ended
<1>4. LockFollowsCall' /\ OneInference'
  BY <1>0, <1>1 DEF Leave, TypeOK, LockFollowsCall, OneInference
<1>5. FutureInv'
  BY <1>0, <1>1, <1>2 DEF Leave, TypeOK, FutureInv
<1>6. WaitInv'
  BY <1>0, <1>1 DEF Leave, TypeOK, WaitInv
<1>7. QED
  BY <1>3, <1>4, <1>5, <1>6 DEF Inv

(* So does every step, case by case.                                       *)
LEMMA InvStep == Inv /\ [Next]_vars => Inv'
<1> SUFFICES ASSUME Inv, [Next]_vars PROVE Inv'
  OBVIOUS
<1>0. TypeOK /\ LockFollowsCall /\ OneInference /\ FutureInv /\ WaitInv
  BY DEF Inv
<1>1. ASSUME NEW c \in Calls, Synthesize(c) PROVE Inv'
  <2>1. CASE holder = None /\ waiters = <<>> /\ Submit(c) /\ UNCHANGED waiters
    BY <1>0, <1>1, <2>1, SubmitInv DEF Synthesize, TypeOK, WaitInv
  <2>2. CASE /\ waiters' = Append(waiters, c) /\ Goto(c, "lock")
             /\ UNCHANGED <<holder, works, fut>>
    <3>1. pc[c] = "idle" /\ pc' = [pc EXCEPT ![c] = "lock"] /\ UNCHANGED <<running, closed>>
      BY <1>1, <2>2 DEF Synthesize, Goto
    <3>2. TypeOK'
      BY <1>0, <2>2, <3>1 DEF TypeOK, Ended
    <3>3. (LockFollowsCall /\ OneInference /\ FutureInv)'
      BY <1>0, <2>2, <3>1 DEF TypeOK, LockFollowsCall, OneInference, FutureInv
    <3>4. WaitInv'
      BY <1>0, <2>2, <3>1 DEF TypeOK, WaitInv
    <3>5. QED
      BY <3>2, <3>3, <3>4 DEF Inv
  <2>3. QED
    BY <1>1, <2>1, <2>2 DEF Synthesize
<1>2. CASE Acquire
  <2>1. Head(waiters) \in Calls /\ waiters' \in Seq(Calls)
    BY <1>0, <1>2 DEF Acquire, TypeOK
  <2>2. pc[Head(waiters)] = "lock"
    BY <1>0, <1>2 DEF Acquire, TypeOK, WaitInv
  <2>3. /\ Len(waiters') = Len(waiters) - 1
        /\ \A i \in 1..Len(waiters') : waiters'[i] = waiters[i + 1] /\ i + 1 \in 1..Len(waiters)
    BY <1>0, <1>2 DEF Acquire, TypeOK
  <2>4. \A i \in 1..Len(waiters') : waiters'[i] # Head(waiters)
    BY <1>0, <1>2, <2>3 DEF Acquire, TypeOK, WaitInv
  <2>5. WaitInv'
    BY <1>0, <1>2, <2>3, <2>4 DEF Acquire, Submit, Goto, TypeOK, WaitInv
  <2>6. QED
    BY <1>0, <1>2, <2>1, <2>2, <2>5, SubmitInv DEF Acquire
<1>3. ASSUME NEW c \in Calls, Resume(c) PROVE Inv'
  <2>1. Leave(c)
    BY <1>3 DEF Resume, Release, Goto, Leave, Abandon
  <2>2. QED
    BY <2>1, LeaveInv
<1>4. ASSUME NEW c \in Calls, Timeout(c) PROVE Inv'
  <2>1. Leave(c)
    BY <1>4 DEF Timeout, Release, Goto, Leave
  <2>2. QED
    BY <2>1, LeaveInv
<1>5. ASSUME NEW c \in Calls, Cancel(c) PROVE Inv'
  <2>1. CASE pc[c] = "lock"
    <3>1. PICK i \in 1..Len(waiters) :
            waiters[i] = c
            /\ waiters' = SubSeq(waiters, 1, i - 1) \o SubSeq(waiters, i + 1, Len(waiters))
      BY <1>5, <2>1 DEF Cancel, Withdraw
    <3>2. /\ waiters' \in Seq(Calls) /\ Len(waiters') = Len(waiters) - 1
          /\ \A j \in 1..Len(waiters') :
               waiters'[j] = IF j < i THEN waiters[j] ELSE waiters[j + 1]
      <4>1. waiters \in Seq(Calls) /\ Len(waiters) \in Nat
        BY <1>0 DEF TypeOK
      <4> DEFINE l == SubSeq(waiters, 1, i - 1)
                 r == SubSeq(waiters, i + 1, Len(waiters))
      <4>2. /\ l \in Seq(Calls) /\ Len(l) = i - 1
            /\ \A j \in 1..(i - 1) : l[j] = waiters[j]
        BY <4>1, SubSeqProperties
      <4>3. /\ r \in Seq(Calls) /\ Len(r) = Len(waiters) - i
            /\ \A j \in 1..(Len(waiters) - i) : r[j] = waiters[i + j]
        BY <4>1, SubSeqProperties
      <4> HIDE DEF l, r
      <4>4. waiters' = l \o r
        BY <3>1 DEF l, r
      <4>5. /\ waiters' \in Seq(Calls) /\ Len(waiters') = Len(l) + Len(r)
            /\ \A j \in 1..(Len(l) + Len(r)) :
                 waiters'[j] = IF j <= Len(l) THEN l[j] ELSE r[j - Len(l)]
        <5>1. l \in Seq(Calls) /\ r \in Seq(Calls)
          BY <4>2, <4>3
        <5>2. QED
          BY <4>4, <5>1, ConcatProperties
      <4>6. Len(waiters') = Len(waiters) - 1
        <5>1. Len(l) = i - 1 /\ Len(r) = Len(waiters) - i
          BY <4>2, <4>3
        <5>2. (i - 1) + (Len(waiters) - i) = Len(waiters) - 1
          BY <4>1
        <5>3. QED
          BY <4>5, <5>1, <5>2
      <4>7. ASSUME NEW j \in 1..Len(waiters'), j < i PROVE waiters'[j] = waiters[j]
        BY <4>1, <4>2, <4>5, <4>6, <4>7
      <4>8. ASSUME NEW j \in 1..Len(waiters'), ~(j < i) PROVE waiters'[j] = waiters[j + 1]
        <5>1. j - (i - 1) \in 1..(Len(waiters) - i)
          BY <4>1, <4>6, <4>8
        <5>2. waiters'[j] = r[j - (i - 1)]
          BY <4>1, <4>2, <4>3, <4>5, <4>6, <4>8
        <5>3. QED
          BY <5>1, <5>2, <4>1, <4>3
      <4>9. QED
        BY <4>5, <4>6, <4>7, <4>8
    <3>3. /\ pc' = [pc EXCEPT ![c] = "cancelled"]
          /\ UNCHANGED <<holder, works, running, fut, closed>>
      BY <1>5, <2>1 DEF Cancel, Goto
    <3>4. TypeOK'
      BY <1>0, <3>2, <3>3 DEF TypeOK, Ended
    <3>5. (LockFollowsCall /\ OneInference /\ FutureInv)'
      BY <1>0, <2>1, <3>3 DEF TypeOK, LockFollowsCall, OneInference, FutureInv
    <3>6. \A j \in 1..Len(waiters') : waiters'[j] # c
      <4>1. Len(waiters) \in Nat
        BY <1>0 DEF TypeOK
      <4>2. \A k \in 1..Len(waiters) : waiters[k] = c => k = i
        BY <1>0, <3>1 DEF WaitInv
      <4>3. ASSUME NEW j \in 1..Len(waiters') PROVE waiters'[j] # c
        <5>1. CASE j < i
          BY <3>2, <4>1, <4>2, <5>1
        <5>2. CASE ~(j < i)
          <6>1. j + 1 \in 1..Len(waiters) /\ j + 1 # i
            BY <3>2, <4>1, <5>2
          <6>2. QED
            BY <3>2, <4>2, <5>2, <6>1
        <5>3. QED
          BY <5>1, <5>2
      <4>4. QED
        BY <4>3
    <3>7. WaitInv'
      BY <1>0, <3>2, <3>3, <3>6 DEF TypeOK, WaitInv
    <3>8. QED
      BY <3>4, <3>5, <3>7 DEF Inv
  <2>2. CASE pc[c] # "lock"
    <3>1. Leave(c)
      BY <1>5, <2>2 DEF Cancel, Release, Goto, Leave
    <3>2. QED
      BY <3>1, LeaveInv
  <2>3. QED
    BY <2>1, <2>2
<1>6. ASSUME NEW c \in Calls, Finish(c) PROVE Inv'
  <2>1. Leave(c)
    BY <1>6 DEF Finish, Goto, Leave
  <2>2. QED
    BY <2>1, LeaveInv
<1>7. CASE AClose
  <2>1. TypeOK'
    BY <1>0, <1>7 DEF AClose, TypeOK
  <2>2. (LockFollowsCall /\ OneInference /\ FutureInv /\ WaitInv)'
    BY <1>0, <1>7 DEF AClose, TypeOK, LockFollowsCall, OneInference, FutureInv, WaitInv
  <2>3. QED
    BY <2>1, <2>2 DEF Inv
<1>8. CASE Begin
  <2>1. Head(works) \in Calls /\ works' \in Seq(Calls)
    BY <1>0, <1>8 DEF Begin, TypeOK
  <2>2. TypeOK'
    BY <1>0, <1>8, <2>1 DEF Begin, TypeOK
  <2>3. (LockFollowsCall /\ OneInference /\ FutureInv /\ WaitInv)'
    BY <1>0, <1>8, <2>1 DEF Begin, TypeOK, LockFollowsCall, OneInference, FutureInv, WaitInv
  <2>4. QED
    BY <2>2, <2>3 DEF Inv
<1>9. ASSUME NEW c \in Calls, Infer(c) PROVE Inv'
  <2>1. TypeOK'
    BY <1>0, <1>9 DEF Infer, TypeOK
  <2>2. (LockFollowsCall /\ OneInference /\ FutureInv /\ WaitInv)'
    BY <1>0, <1>9 DEF Infer, TypeOK, LockFollowsCall, OneInference, FutureInv, WaitInv
  <2>3. QED
    BY <2>1, <2>2 DEF Inv
<1>10. CASE UNCHANGED vars
  BY <1>0, <1>10 DEF vars, Inv, TypeOK, LockFollowsCall, OneInference, FutureInv, WaitInv
<1>11. QED
  BY <1>1, <1>2, <1>3, <1>4, <1>5, <1>6, <1>7, <1>8, <1>9, <1>10
     DEF Next, Call, Terminated

(* Hence it holds in every reachable state of the engine.                  *)
LEMMA EngineInvariant == Spec => []Inv
<1>1. QED
  BY InvInit, InvStep, PTL DEF Spec

(* Every variable has its type (class KokoroEngine).                       *)
THEOREM TypeCorrect == Spec => []TypeOK
<1>1. Inv => TypeOK
  BY DEF Inv
<1>2. QED
  BY <1>1, EngineInvariant, PTL

(* The inference lock belongs to the call that awaits its inference        *)
(* (engine.py, synthesize).                                                *)
THEOREM LockCorrect == Spec => []LockFollowsCall
<1>1. Inv => LockFollowsCall
  BY DEF Inv
<1>2. QED
  BY <1>1, EngineInvariant, PTL

(* Two inferences never overlap (engine.py, the executor's one thread).    *)
THEOREM InferenceExclusive == Spec => []OneInference
<1>1. Inv => OneInference
  BY DEF Inv
<1>2. QED
  BY <1>1, EngineInvariant, PTL

(* An inference begins for a call that waits for it, on an open engine.    *)
LEMMA InferenceBegins ==
  ASSUME Inv, [Next]_vars, NEW c \in running' \ running
  PROVE  c \in Calls /\ pc[c] = "infer" /\ ~closed
<1>1. Begin
  BY DEF Next, Call, Synthesize, Resume, Timeout, Cancel, Finish, Infer, Acquire, AClose,
         Terminated, vars
<1>2. c = Head(works) /\ fut[c] = "pending" /\ c \in Calls
  BY <1>1 DEF Begin, Inv, TypeOK
<1>3. QED
  BY <1>2 DEF Inv, FutureInv

(* No inference begins for a call that gave up (engine.py, wait_for).      *)
THEOREM NoLateInferenceCorrect == Spec => NoLateInference
<1>1. Inv /\ [Next]_vars => [\A c \in running' \ running : pc[c] = "infer"]_vars
  BY InferenceBegins
<1>2. QED
  BY <1>1, EngineInvariant, PTL DEF Spec, NoLateInference

(* No inference begins on a closed engine (engine.py, aclose).             *)
THEOREM ClosedIsQuietCorrect == Spec => ClosedIsQuiet
<1>1. Inv /\ [Next]_vars => [closed => running' \subseteq running]_vars
  BY InferenceBegins
<1>2. QED
  BY <1>1, EngineInvariant, PTL DEF Spec, ClosedIsQuiet
=============================================================================
