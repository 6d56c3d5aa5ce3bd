------------------------- MODULE TinyfileRefinement -------------------------
(***************************************************************************)
(* Tinyfile implements TinyfileService.  The phase of a request is read    *)
(* off its entry in the shared memory, so a step of the server's memcpy,   *)
(* of a resize or of another thread that disturbed the entry would show as *)
(* a step the service never takes.                                         *)
(***************************************************************************)
EXTENDS Tinyfile

AbsPhase ==
  [r \in Requests |->
     CASE result[r] # None -> "delivered"
       [] InFlight(r) /\ shm[slot[r]].done -> "served"
       [] InFlight(r) /\ ~shm[slot[r]].done -> "submitted"
       [] slot[r] = None /\ r \in Issued -> "rejected"
       [] OTHER -> "new"]

AbsReply(r) == Compressed([src |-> r, dst |-> None])

Service ==
  INSTANCE TinyfileService
    WITH Accepted <- {r \in Requests : PriorityOK(r)},
         Entries <- Slots,
         Reply <- AbsReply,
         phase <- AbsPhase,
         entry <- slot,
         reply <- result

(* Every behaviour of the client and the server is one the service         *)
(* promises: accepted requests hold entries of their own, are served once  *)
(* and are delivered their own result.                                     *)
ImplementsService == Service!SSpec

(* The same, and every accepted request is served and delivered in the end. *)
ImplementsFairService == Service!SFairSpec
=============================================================================
