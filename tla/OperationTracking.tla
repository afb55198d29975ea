---------------------------- MODULE OperationTracking ----------------------------
(***************************************************************************)
(* The location tracking of one operation, from tracking_services.py, with *)
(* the services of OperationExecution running beside it.  Server workers   *)
(* serve tracking requests.  Except for the creation of a session, nothing *)
(* here is locked: a worker reads a row in one step and acts on what it    *)
(* read in a later one (READ COMMITTED), and may die in between.           *)
(***************************************************************************)
EXTENDS OperationExecution, FiniteSetsExt

CONSTANTS
  Workers,
  Sequences,    \* the sequence numbers a client gives its points
  MaxBatch,     \* the most points in one batch (100 in the code)
  NoSession

ASSUME TrackingAssumption ==
  /\ NoSession \notin SessionIds
  /\ Sequences \subseteq Nat
  /\ MaxBatch \in Nat \ {0}

VARIABLES
  points,   \* the sequences of the LocationPoints of each session
  req       \* the request each worker serves

trackingVars == <<points, req>>
compositeVars == <<vars, trackingVars>>

Idle == [pc |-> "idle", session |-> NoSession, todo |-> {}, taken |-> {}]

TrackingInit ==
  /\ Init
  /\ points = [t \in SessionIds |-> {}]
  /\ req = [w \in Workers |-> Idle]

Goto(w, pc)  == req' = [req EXCEPT ![w].pc = pc]
Respond(w)   == req' = [req EXCEPT ![w] = Idle]
Known(t)     == sessions[t].status # "NONE"
ActiveSessions == {t \in SessionIds : sessions[t].status = "ACTIVE"}
coreButSessions == <<status, stopStatus, stopPod, opPod, timeline>>
--------------------------------------------------------------------------------
\* start_tracking_session: the operation's status is read without its lock.
StartRequest(w) ==
  /\ req[w].pc = "idle"
  /\ status \notin TerminalStatuses
  /\ Goto(w, "opening")
  /\ UNCHANGED <<vars, points>>

\* Variants with a bug: the active session was looked up before the lock; a
\* session that ended is taken up again.
OpenOrReturn_NoLookup(w) ==
  /\ req[w].pc = "opening"
  /\ \E t \in SessionIds :
       /\ ~Known(t)
       /\ sessions' = [sessions EXCEPT ![t] = [status |-> "ACTIVE", closure |-> ""]]
  /\ Respond(w)
  /\ UNCHANGED <<coreButSessions, points>>

OpenOrReturn_Resume(w) ==
  /\ req[w].pc = "opening"
  /\ ActiveSessions = {}
  /\ \E t \in SessionIds :
       sessions' = [sessions EXCEPT ![t] = [status |-> "ACTIVE", closure |-> ""]]
  /\ Respond(w)
  /\ UNCHANGED <<coreButSessions, points>>

\* Under the lock an active session is returned, or else one is created; the
\* status is not read again.
OpenOrReturn(w) ==
  /\ req[w].pc = "opening"
  /\ \/ ActiveSessions # {} /\ UNCHANGED sessions
     \/ /\ ActiveSessions = {}
        /\ \E t \in SessionIds :
             /\ ~Known(t)
             /\ sessions' = [sessions EXCEPT ![t] =
                              [status |-> "ACTIVE", closure |-> ""]]
  /\ Respond(w)
  /\ UNCHANGED <<coreButSessions, points>>
--------------------------------------------------------------------------------
\* record_location_batch_view; a single point is a batch of one.
BatchRequest(w, t, batch) ==
  /\ req[w].pc = "idle"
  /\ Known(t)
  /\ req' = [req EXCEPT ![w] = [pc |-> "readSession", session |-> t,
                                todo |-> batch, taken |-> {}]]
  /\ UNCHANGED <<vars, points>>

\* record_location_point, for each point: read the session, then the
\* operation; a refused point rolls the whole batch back.
ReadSession(w) ==
  /\ req[w].pc = "readSession"
  /\ IF sessions[req[w].session].status = "ACTIVE"
     THEN Goto(w, "readOperation") ELSE Respond(w)
  /\ UNCHANGED <<vars, points>>

\* Variant with a bug: the operation's status is not looked at.
ReadOperation_AnyStatus(w) ==
  /\ req[w].pc = "readOperation"
  /\ LET n == Min(req[w].todo) IN
       req' = [req EXCEPT
         ![w].todo = @ \ {n}, ![w].taken = @ \cup {n},
         ![w].pc = IF req[w].todo = {n} THEN "commit" ELSE "readSession"]
  /\ UNCHANGED <<vars, points>>

\* A sequence the session already has returns the point it has.
ReadOperation(w) ==
  /\ req[w].pc = "readOperation"
  /\ IF status \in TerminalStatuses
     THEN Respond(w)
     ELSE LET n == Min(req[w].todo) IN
          req' = [req EXCEPT
            ![w].todo  = @ \ {n},
            ![w].taken = @ \cup {n},
            ![w].pc    = IF req[w].todo = {n} THEN "commit" ELSE "readSession"]
  /\ UNCHANGED <<vars, points>>

\* The points become visible together.
CommitBatch(w) ==
  /\ req[w].pc = "commit"
  /\ points' = [points EXCEPT ![req[w].session] = @ \cup req[w].taken]
  /\ Respond(w)
  /\ UNCHANGED vars
--------------------------------------------------------------------------------
\* end_tracking_session: the row read as ACTIVE is saved later, whole.
EndRequest(w, t) ==
  /\ req[w].pc = "idle"
  /\ sessions[t].status = "ACTIVE"
  /\ req' = [req EXCEPT ![w].pc = "ending", ![w].session = t]
  /\ UNCHANGED <<vars, points>>

\* Variant with a bug: the request writes a closure reason of its own.
SaveEnded_WithReason(w) ==
  /\ req[w].pc = "ending"
  /\ sessions' = [sessions EXCEPT ![req[w].session] =
                   [status |-> "ENDED", closure |-> "operation_cancelled"]]
  /\ Respond(w)
  /\ UNCHANGED <<coreButSessions, points>>

SaveEnded(w) ==
  /\ req[w].pc = "ending"
  /\ sessions' = [sessions EXCEPT ![req[w].session] =
                   [status |-> "ENDED", closure |-> ""]]
  /\ Respond(w)
  /\ UNCHANGED <<coreButSessions, points>>

\* A worker dies before its commit: its transaction leaves nothing.
WorkerDies(w) ==
  /\ req[w].pc # "idle"
  /\ Respond(w)
  /\ UNCHANGED <<vars, points>>

Batches == {b \in SUBSET Sequences : b # {} /\ Cardinality(b) <= MaxBatch}

TrackingStep(w) ==
  \/ StartRequest(w) \/ OpenOrReturn(w)
  \/ \E t \in SessionIds, b \in Batches : BatchRequest(w, t, b)
  \/ ReadSession(w) \/ ReadOperation(w) \/ CommitBatch(w)
  \/ \E t \in SessionIds : EndRequest(w, t)
  \/ SaveEnded(w)
  \/ WorkerDies(w)

TrackingNext ==
  \/ OperationStep /\ UNCHANGED trackingVars
  \/ \E w \in Workers : TrackingStep(w)

TrackingSpec == TrackingInit /\ [][TrackingNext]_compositeVars
--------------------------------------------------------------------------------
(* The variables of tracking keep their types. *)
TrackingTypeOK ==
  /\ points \in [SessionIds -> SUBSET Sequences]
  /\ req \in [Workers ->
       [pc : {"idle", "opening", "readSession", "readOperation", "commit", "ending"},
        session : SessionIds \cup {NoSession},
        todo : SUBSET Sequences, taken : SUBSET Sequences]]

(* README.md:322, "single active session protection per operation": start   *)
(* requests race with each other, with end requests and with closures, and  *)
(* no database constraint stops a second active session.                    *)
AtMostOneActiveSession == Cardinality(ActiveSessions) <= 1

(* A session that ended stays ended: neither a late start, nor the stale    *)
(* row an end request saves, brings it back.                                *)
SessionsNeverReopen ==
  [][\A t \in SessionIds :
       sessions[t].status = "ENDED" => sessions'[t].status = "ENDED"]_compositeVars

(* A start request that checked the status before the operation closed can  *)
(* open a session after it; such a session never gets a point, because      *)
(* record_location_point reads the operation after the session.             *)
StraySessionStaysEmpty ==
  status \in TerminalStatuses => \A t \in ActiveSessions : points[t] = {}

(* To the operation, tracking does what TrackingCommit says and no more.    *)
OperationKept == Spec
================================================================================
