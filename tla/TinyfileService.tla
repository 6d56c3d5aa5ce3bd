--------------------------- MODULE TinyfileService ---------------------------
(***************************************************************************)
(* What the TinyFile service promises to the threads of one client: a      *)
(* request that is accepted holds one of finitely many entries, alone,     *)
(* until its result is delivered; it is served once; and what is delivered *)
(* is the reply to this request.                                           *)
(***************************************************************************)
CONSTANTS
  Requests,
  Accepted,   \* the requests with a valid priority
  Entries,    \* the entries the shared memory can grow to
  Reply(_),   \* Reply(r): what compress_service makes of r's argument
  None

VARIABLES
  phase,      \* phase[r]
  entry,      \* entry[r]: the entry r was given
  reply       \* reply[r]: what the caller was given

svars == <<phase, entry, reply>>

SInit ==
  /\ phase = [r \in Requests |-> "new"]
  /\ entry = [r \in Requests |-> None]
  /\ reply = [r \in Requests |-> None]

Outstanding == {r \in Requests : phase[r] \in {"submitted", "served"}}
Held == {entry[r] : r \in Outstanding}

Submit(r) ==
  /\ phase[r] = "new"
  /\ r \in Accepted
  /\ phase' = [phase EXCEPT ![r] = "submitted"]
  /\ \E e \in Entries \ Held : entry' = [entry EXCEPT ![r] = e]
  /\ UNCHANGED reply

Reject(r) ==
  /\ phase[r] = "new"
  /\ r \notin Accepted
  /\ phase' = [phase EXCEPT ![r] = "rejected"]
  /\ UNCHANGED <<entry, reply>>

Serve(r) ==
  /\ phase[r] = "submitted"
  /\ phase' = [phase EXCEPT ![r] = "served"]
  /\ UNCHANGED <<entry, reply>>

Deliver(r) ==
  /\ phase[r] = "served"
  /\ phase' = [phase EXCEPT ![r] = "delivered"]
  /\ reply' = [reply EXCEPT ![r] = Reply(r)]
  /\ UNCHANGED entry

SNext == \E r \in Requests : Submit(r) \/ Reject(r) \/ Serve(r) \/ Deliver(r)

SSpec == SInit /\ [][SNext]_svars

SFairSpec ==
  SSpec /\ \A r \in Requests : WF_svars(Serve(r)) /\ WF_svars(Deliver(r))
=============================================================================
