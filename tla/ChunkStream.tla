----------------------------- MODULE ChunkStream -----------------------------
(***************************************************************************)
(* What a session promises the client about its audio: the messages on the *)
(* wire, whatever the server does to produce them.  A client may play the  *)
(* stream with one variable, the chunk that is open.                       *)
(***************************************************************************)
EXTENDS Naturals

CONSTANT None

VARIABLES last,   \* the last message: its type and chunk id
          open,   \* the chunk being played, or None
          heard   \* every chunk id named so far is below this

vars == <<last, open, heard>>

Init == last = <<"none", None>> /\ open = None /\ heard = 0

(* A chunk starts when no other is open, under an id never used before.    *)
Start == /\ open = None
         /\ open' \in Nat /\ open' >= heard
         /\ last' = <<"audio_start", open'>>
         /\ heard' = open' + 1

(* Audio belongs to the open chunk.                                        *)
Frame == /\ open # None
         /\ last' = <<"frame", open>>
         /\ UNCHANGED <<open, heard>>

End == /\ open # None
       /\ last' = <<"audio_end", open>>
       /\ open' = None
       /\ UNCHANGED heard

(* A barge-in cuts the open chunk, a chunk whose start was never written,  *)
(* or one that had just ended.                                             *)
Abort == /\ \/ last' = <<"chunk_aborted", open>> /\ open # None /\ UNCHANGED heard
            \/ /\ open = None
               /\ heard' \in Nat \ {0} /\ heard' >= heard
               /\ last' = <<"chunk_aborted", heard' - 1>>
         /\ open' = None

(* Its confirmation directly follows and repeats the id of that chunk, or  *)
(* stands alone with id 0; nothing is open after it.                       *)
Interrupted == /\ \/ last[1] = "chunk_aborted" /\ last' = <<"interrupted", last[2]>>
                  \/ last[1] # "chunk_aborted" /\ last' = <<"interrupted", 0>>
               /\ open' = None
               /\ UNCHANGED heard

(* A failed synthesis closes its chunk with the error.                     *)
Failed == /\ last' = <<"error", None>>
          /\ open' \in {open, None}
          /\ UNCHANGED heard

Notice == /\ last' \in {"auth_ok", "auth_error", "done"} \X {None}
          /\ UNCHANGED <<open, heard>>

Next == Start \/ Frame \/ End \/ Abort \/ Interrupted \/ Failed \/ Notice

Spec == Init /\ [][Next]_vars
=============================================================================
