---------------------------- MODULE KokoroEngine ----------------------------
(***************************************************************************)
(* The engine that all sessions and requests share (class KokoroEngine).   *)
(* A call of synthesize() takes the inference lock, hands its text to an   *)
(* executor with one thread and waits for the audio, at most for the       *)
(* timeout; then it releases the lock and yields the audio.  Its caller    *)
(* may cancel it at any suspension, and the engine may be closed under it. *)
(*                                                                         *)
(* The future of the executor and the asyncio future that wraps it are one *)
(* here; cancelling it fails once the thread has begun.                    *)
(***************************************************************************)
EXTENDS Integers, Sequences

CONSTANTS
  Calls,     (* calls of synthesize()                                      *)
  Hung,      (* those whose inference never returns                        *)
  TimeLimit, (* BOOLEAN: synthesize_timeout is set                         *)
  None       (* no call                                                    *)

ASSUME CallsAssumption == None \notin Calls /\ Hung \subseteq Calls /\ TimeLimit \in BOOLEAN

VARIABLES
  pc,        \* where each call stands
  waiters,   \* _inference_lock: the calls that wait for it, in order
  holder,    \* and the call that has it, or None
  works,     \* _executor: the work items that wait for the thread
  running,   \* the calls whose inference a thread is in
  fut,       \* the future of each call's inference
  closed     \* aclose() was called: no _executor, no _kokoro

vars == <<pc, waiters, holder, works, running, fut, closed>>

Init ==
  /\ pc = [c \in Calls |-> "idle"]
  /\ waiters = <<>> /\ holder = None
  /\ works = <<>> /\ running = {}
  /\ fut = [c \in Calls |-> "none"]
  /\ closed = FALSE

-----------------------------------------------------------------------------
(* The event loop *)

Goto(c, to) == pc' = [pc EXCEPT ![c] = to]

(* With the lock, the inference is submitted without suspension.  After    *)
(* aclose() it goes to the loop's default executor and fails there, since  *)
(* there is no model any more.                                             *)
Submit(c) ==
  /\ holder' = c /\ Goto(c, "infer")
  /\ IF closed THEN /\ fut' = [fut EXCEPT ![c] = "failed"]
                    /\ UNCHANGED works
               ELSE /\ fut' = [fut EXCEPT ![c] = "pending"]
                    /\ works' = Append(works, c)

Synthesize(c) ==
  /\ pc[c] = "idle"
  /\ \/ holder = None /\ waiters = <<>> /\ Submit(c) /\ UNCHANGED waiters
     \/ /\ holder # None \/ waiters # <<>>
        /\ waiters' = Append(waiters, c) /\ Goto(c, "lock")
        /\ UNCHANGED <<holder, works, fut>>
  /\ UNCHANGED <<running, closed>>

Acquire ==
  /\ waiters # <<>> /\ holder = None
  /\ Submit(Head(waiters)) /\ waiters' = Tail(waiters)
  /\ UNCHANGED <<running, closed>>

Release == holder' = None

(* The future is done: the call yields its audio, or raises; a future that *)
(* aclose() cancelled raises CancelledError.                               *)
Resume(c) ==
  /\ pc[c] = "infer" /\ Release
  /\ \/ fut[c] = "finished"  /\ Goto(c, "yield")
     \/ fut[c] = "failed"    /\ Goto(c, "failed")
     \/ fut[c] = "cancelled" /\ Goto(c, "cancelled")
  /\ UNCHANGED <<waiters, works, running, fut, closed>>

(* Mutation: the work item survives the call that gave it up.              *)
Abandon_Queued(c) == fut[c] \in STRING /\ UNCHANGED fut

(* A work item that the thread has not taken yet is cancelled.             *)
Abandon(c) == fut' = IF fut[c] = "pending" THEN [fut EXCEPT ![c] = "cancelled"] ELSE fut

(* Mutation: the lock is not released when the call times out.             *)
Timeout_Locked(c) ==
  /\ TimeLimit
  /\ pc[c] = "infer" /\ Goto(c, "failed") /\ Abandon(c)
  /\ UNCHANGED <<holder, waiters, works, running, closed>>

(* wait_for(..., synthesize_timeout) expires.                              *)
Timeout(c) ==
  /\ TimeLimit
  /\ pc[c] = "infer" /\ Goto(c, "failed") /\ Abandon(c) /\ Release
  /\ UNCHANGED <<waiters, works, running, closed>>

(* The waiter leaves the queue of the lock.                                *)
Withdraw(c) ==
  \E i \in 1..Len(waiters) :
     /\ waiters[i] = c
     /\ waiters' = SubSeq(waiters, 1, i - 1) \o SubSeq(waiters, i + 1, Len(waiters))

(* The caller is cancelled, a barge-in for instance.                       *)
Cancel(c) ==
  /\ Goto(c, "cancelled")
  /\ \/ /\ pc[c] = "lock" /\ Withdraw(c)
        /\ UNCHANGED <<holder, fut>>
     \/ pc[c] = "infer" /\ Abandon(c) /\ Release /\ UNCHANGED waiters
     \/ pc[c] = "yield" /\ UNCHANGED <<waiters, holder, fut>>
  /\ UNCHANGED <<works, running, closed>>

Finish(c) ==
  /\ pc[c] = "yield" /\ Goto(c, "done")
  /\ UNCHANGED <<waiters, holder, works, running, fut, closed>>

(* Mutation: queued inferences are left to the executor.                   *)
AClose_Queued ==
  /\ ~closed /\ closed' = TRUE
  /\ UNCHANGED <<pc, waiters, holder, works, running, fut>>

(* Mutation: the queue goes with the executor, futures and all.            *)
AClose_Dropped ==
  /\ ~closed /\ closed' = TRUE
  /\ works' = None
  /\ UNCHANGED <<pc, waiters, holder, running, fut>>

(* aclose(): shutdown(wait=False, cancel_futures=True).                    *)
AClose ==
  /\ ~closed /\ closed' = TRUE
  /\ fut' = [c \in Calls |-> IF fut[c] = "pending" THEN "cancelled" ELSE fut[c]]
  /\ works' = <<>>
  /\ UNCHANGED <<pc, waiters, holder, running>>

-----------------------------------------------------------------------------
(* The thread *)

(* Mutation: the executor has as many threads as it likes.                 *)
Begin_Parallel ==
  /\ works # <<>> /\ works' = Tail(works)
  /\ LET c == Head(works)
     IN  IF fut[c] = "pending" THEN /\ running' = running \cup {c}
                                    /\ fut' = [fut EXCEPT ![c] = "running"]
                               ELSE UNCHANGED <<running, fut>>
  /\ UNCHANGED <<pc, waiters, holder, closed>>

(* max_workers=1: the only thread takes the next item, and skips it if it  *)
(* was cancelled meanwhile.                                                *)
Begin ==
  /\ running = {}
  /\ works # <<>> /\ works' = Tail(works)
  /\ LET c == Head(works)
     IN  IF fut[c] = "pending" THEN /\ running' = running \cup {c}
                                    /\ fut' = [fut EXCEPT ![c] = "running"]
                               ELSE UNCHANGED <<running, fut>>
  /\ UNCHANGED <<pc, waiters, holder, closed>>

(* create() returns or raises, also because the engine was closed before   *)
(* the thread looked at the model.  The result of a call that gave up is   *)
(* dropped.                                                                *)
Infer(c) ==
  /\ c \in running \ Hung /\ running' = running \ {c}
  /\ \E result \in {"finished", "failed"} : fut' = [fut EXCEPT ![c] = result]
  /\ UNCHANGED <<pc, waiters, holder, works, closed>>

-----------------------------------------------------------------------------
Ended == {"done", "failed", "cancelled"}

Terminated == (\A c \in Calls : pc[c] \in Ended) /\ running \subseteq Hung /\ UNCHANGED vars

Call(c) == Synthesize(c) \/ Resume(c) \/ Timeout(c) \/ Cancel(c) \/ Finish(c)

Next == \/ \E c \in Calls : Call(c) \/ Infer(c)
        \/ Acquire \/ Begin \/ AClose \/ Terminated

Spec == Init /\ [][Next]_vars

(* The loop resumes what is ready and fires expired timers, the thread     *)
(* takes items and returns from an inference that does not hang, a caller  *)
(* consumes the audio.                                                     *)
Fairness == /\ WF_vars(Acquire) /\ WF_vars(Begin)
            /\ \A c \in Calls : /\ WF_vars(Resume(c)) /\ WF_vars(Timeout(c))
                                /\ WF_vars(Finish(c)) /\ WF_vars(Infer(c))

FairSpec == Spec /\ Fairness

-----------------------------------------------------------------------------
(* Every variable has its type.                                            *)
TypeOK ==
  /\ pc \in [Calls -> {"idle", "lock", "infer", "yield"} \cup Ended]
  /\ waiters \in Seq(Calls) /\ holder \in Calls \cup {None}
  /\ works \in Seq(Calls) /\ running \subseteq Calls
  /\ fut \in [Calls -> {"none", "pending", "running", "finished", "failed", "cancelled"}]
  /\ closed \in BOOLEAN

(* The lock is held by the call that awaits its inference and by nobody    *)
(* else: whatever ends the wait releases it.                               *)
LockFollowsCall == \A c \in Calls : holder = c <=> pc[c] = "infer"

(* Kokoro.create() is not thread-safe: two inferences never overlap, not   *)
(* even when the first outlives its call and the lock.                     *)
OneInference == \A c, d \in running : c = d

(* No inference begins for a call that gave up waiting.                    *)
NoLateInference == [][\A c \in running' \ running : pc[c] = "infer"]_vars

(* No inference begins on an engine that was closed.                       *)
ClosedIsQuiet == [][closed => running' \subseteq running]_vars

(* With a time limit every call ends, though another's inference hangs and *)
(* the engine is closed at any time.                                       *)
CallEnds == \A c \in Calls : pc[c] \in {"lock", "infer"} ~> pc[c] \in Ended
=============================================================================
