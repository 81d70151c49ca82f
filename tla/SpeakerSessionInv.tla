-------------------------- MODULE SpeakerSessionInv --------------------------
(***************************************************************************)
(* The inductive invariant of SpeakerSession: what holds where the two     *)
(* coroutines stand, in the parts the proofs are made of.                  *)
(***************************************************************************)
EXTENDS SpeakerSession

Before   == {"auth", "reject", "authOk"}
Speaking == {"start", "synth", "end", "endSent"}
ChunkIds == 0..(chunkCounter - 1)

(* The main task is between the new worker and the confirmation.           *)
Confirming == {"intAborted", "abortSent", "intDone"}
(* The session has timed out or is over: nothing is put any more.          *)
Leaving    == {"timeoutErr", "timeoutSent", "join", "ended"}

(* Which values the locals of the two coroutines have where they stand.    *)
LocalInv ==
  /\ mpc \in Before => cur = 0
  /\ mpc \notin Before \cup {"ended"} => cur \in Tasks
  /\ mpc = "intJoin" => cur < MaxTasks
  /\ current # None => current \in ChunkIds
  /\ mpc = "intJoin" /\ aborted # None => aborted \in ChunkIds
  /\ mpc \in {"intAborted", "abortSent"} => aborted \in ChunkIds
  /\ \A t \in Tasks : wpc[t] \in Speaking => job[t].chunk \in ChunkIds
                                          /\ job[t].seg \in Nat

TypeInv == TypeOK /\ LocalInv

(* Only the task in _tts_task is alive, only a live task has a cancel      *)
(* pending, and the tasks that exist are those up to it.                   *)
TaskInv ==
  \A t \in Tasks : /\ Live(t) => t = cur
                   /\ wcancel[t] => Live(t)
                   /\ wpc[t] = "none" <=> t > cur

(* While a barge-in is being confirmed there is nothing to speak.          *)
QuietInv ==
  mpc \in Confirming => /\ queue = <<>> /\ buf = None
                        /\ wpc[cur] \in {"new", "get"} /\ ~wcancel[cur]

(* Every text that is left is of this epoch.                               *)
EpochInv ==
  /\ buf \in {None, epoch}
  /\ \A i \in 1..Len(queue) : queue[i] \in {epoch, Sentinel}
  /\ \A t \in Tasks : wpc[t] \in Speaking => job[t].seg = epoch

(* _current_chunk_id is the chunk the worker speaks, the latest one.  So   *)
(* is the one a barge-in remembers, and the worker it awaits speaks no     *)
(* further.                                                                *)
CurrentInv ==
  /\ \A t \in Tasks : wpc[t] \in Speaking =>
       /\ current = job[t].chunk
       /\ current = chunkCounter - 1
       /\ mpc = "intJoin" => aborted = current
  /\ current # None => \E t \in Tasks : wpc[t] \in Speaking
  /\ mpc \in {"intJoin", "intAborted", "abortSent"} /\ aborted # None =>
       aborted = chunkCounter - 1
  /\ mpc = "intJoin" => wcancel[cur] \/ wpc[cur] \in {"done", "dead"}

(* While the socket is open the client's view follows the worker.          *)
ViewInv ==
  ws = "open" =>
    /\ heard <= chunkCounter
    /\ mpc \in Before => open = None
    /\ open # None => heard = open + 1
    /\ open # None =>
         \/ wpc[cur] \in {"synth", "end"} /\ open = job[cur].chunk
         \/ wpc[cur] \in {"err", "done", "dead"}
         \/ /\ wpc[cur] \in {"new", "get"} /\ queue = <<>>
            /\ mpc \in {"intAborted", "intDone"} \cup Leaving
    /\ \A t \in Tasks : /\ wpc[t] = "start" => heard < chunkCounter
                        /\ wpc[t] \in {"synth", "end"} => open = job[t].chunk
    /\ mpc \in {"intJoin", "intAborted"} /\ aborted # None => open \in {None, aborted}
    /\ mpc \in {"abortSent", "intDone"} /\ aborted # None =>
         out.type = "chunk_aborted" /\ out.id = aborted
    /\ out.type = "chunk_aborted" =>
         \/ mpc \in Leaving
         \/ mpc \in {"abortSent", "intDone"} /\ aborted # None

(* Where the two coroutines stand tells what has gone wrong; without it    *)
(* only a barge-in cancels a worker.                                       *)
FaultInv ==
  /\ \A t \in Tasks : wpc[t] \in {"err", "errSent"} => "synthesis_error" \in errors
  /\ mpc \in {"full", "fullSent", "fullJoin"} => "queue_full" \in errors
  /\ mpc \in {"timeoutErr", "timeoutSent"} => "session_timeout" \in errors
  /\ \A t \in Tasks : wcancel[t] =>
       mpc = "intJoin" \/ "queue_full" \in errors \/ "session_timeout" \in errors

(* The sentinel closes the queue; the texts before it are still to be      *)
(* spoken, and one more while a worker speaks.                             *)
Closed == queue # <<>> /\ queue[Len(queue)] = Sentinel
Texts  == IF Closed THEN Len(queue) - 1 ELSE Len(queue)
InHand == IF \E t \in Tasks : wpc[t] \in Speaking THEN 1 ELSE 0

(* If nothing went wrong, owed is what lies in the queue or in hand, and   *)
(* no worker but one that a barge-in cancelled ends before the sentinel.   *)
OwedInv ==
  NoFault =>
    /\ mpc # "intJoin" => owed = Texts + InHand
    /\ \A i \in 1..(Len(queue) - 1) : queue[i] # Sentinel
    /\ Closed => mpc = "join"
    /\ cur \in Tasks =>
         /\ wpc[cur] \in {"done", "dead"} =>
              mpc = "intJoin" \/ (mpc \in {"join", "ended"} /\ queue = <<>>)
         /\ mpc = "join" => wpc[cur] \in {"done", "dead"} \/ Closed
         /\ mpc = "ended" => wpc[cur] = "dead"
         /\ mpc \in {"join", "ended"} /\ wpc[cur] = "dead" => out = Notice("done")
         /\ open # None =>
              \/ wpc[cur] \in {"synth", "end"}
              \/ mpc \in {"intJoin", "intAborted"} /\ aborted # None

SessionInv == /\ TypeInv /\ TaskInv /\ QuietInv /\ EpochInv /\ CurrentInv
              /\ ViewInv /\ FaultInv /\ OwedInv /\ ChunkCountedOnce
=============================================================================
