------------------------------ MODULE FrameQueue ------------------------------
(***************************************************************************)
(* What one direction of a port promises its user: a queue of whole frames. *)
(* Frames are numbered in the order in which they enter.  A frame that has  *)
(* entered leaves exactly once, whole, after every frame before it, unless  *)
(* a purge discards everything that is queued.                              *)
(*                                                                          *)
(* For transmit, a frame enters when write() stores it in the descriptors   *)
(* and leaves when its last byte is on the line; for receive, it enters     *)
(* when its last byte arrives and leaves when read() returns it.            *)
(***************************************************************************)
EXTENDS Naturals, Sequences

VARIABLES accepted,   \* the number of frames that have entered
          queued,     \* the frames that have entered and not left
          delivered   \* the frames that have left, in the order they left

vars == <<accepted, queued, delivered>>

Init ==
  /\ accepted = 0
  /\ queued = {}
  /\ delivered = <<>>

Accept ==
  /\ accepted' = accepted + 1
  /\ queued' = queued \cup {accepted'}
  /\ UNCHANGED delivered

Oldest(f) == f \in queued /\ \A g \in queued : f <= g

Deliver ==
  \E f \in queued :
    /\ Oldest(f)
    /\ delivered' = Append(delivered, f)
    /\ queued' = queued \ {f}
    /\ UNCHANGED accepted

Purge ==
  /\ queued' = {}
  /\ UNCHANGED <<accepted, delivered>>

Next == Accept \/ Deliver \/ Purge

Spec == Init /\ [][Next]_vars

(* A queued frame does not stay for ever. *)
Live == WF_vars(Deliver)

===============================================================================
