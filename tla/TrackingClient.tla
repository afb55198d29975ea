---------------------------- MODULE TrackingClient ---------------------------
(***************************************************************************)
(* Tracking on the driver's phone: tracking_provider.dart captures a point *)
(* on every tick of a timer, sends it, and queues it on the device when    *)
(* that fails; tracking_service.dart sends the queue again in batches.     *)
(* Everything between two awaits is one step, so the callbacks of the two  *)
(* timers, the driver's taps and the answers interleave.  The server is    *)
(* what a session's endpoints do, each request in one step (their own      *)
(* interleaving is OperationTracking).  A captured point is its number.    *)
(* The queue is kept in the storage of the tokens, which the app empties   *)
(* when a call is answered 401 (api_client.dart).                          *)
(***************************************************************************)
EXTENDS Naturals, FiniteSets

CONSTANTS
  MaxPoints,    \* bound on captured points
  MaxSessions,  \* bound on the operation's tracking sessions
  Syncs,        \* concurrent calls of syncOfflinePoints
  Stops,        \* concurrent calls of stopTracking
  MaxStarts,    \* bound on concurrent calls of startTracking
  Chunk,        \* points in a batch (50)
  MaxFailures,  \* bound on calls the network fails
  MaxRestarts,  \* bound on restarts of the app
  MaxLogouts    \* bound on calls, of any screen, that are answered 401

Points == 1..MaxPoints
Sessions == 1..MaxSessions
Null == 0

ASSUME ClientAssumption ==
  /\ {MaxPoints, MaxSessions, MaxStarts, MaxFailures, MaxRestarts, MaxLogouts} \subseteq Nat
  /\ Chunk \in Nat \ {0}

VARIABLES
  status,    \* TrackingSession.status at the server, "NONE" before it exists
  rows,      \* how many LocationPoints a session has of a captured point
  phone,     \* the provider's fields
  starting,  \* calls of startTracking waiting for their answer
  stopping,  \* per call of stopTracking, the session it asks to end
  capture,   \* per point, where its timer callback is
  queue,     \* the stored queue: (point, session) pairs
  sync,      \* per call of syncOfflinePoints, where it is
  failures, restarts, logouts

server == <<status, rows>>
bounds == <<failures, restarts, logouts>>
vars == <<server, phone, starting, stopping, capture, queue, sync, bounds>>

Off == [tracking |-> FALSE, session |-> Null, sequence |-> 1, timers |-> FALSE]
NoSync == [pc |-> "idle", snapshot |-> {}, todo |-> {}, group |-> Null,
           allSynced |-> TRUE, kept |-> {}]
NoPoint == [pc |-> "none", session |-> Null, sequence |-> 0, valid |-> TRUE, read |-> {}]
SessionsOf(pairs) == {p[2] : p \in pairs}

Init ==
  /\ status = [s \in Sessions |-> "NONE"]
  /\ rows = [s \in Sessions |-> [c \in Points |-> 0]]
  /\ phone = Off
  /\ starting = 0
  /\ stopping = [t \in Stops |-> Null]
  /\ capture = [c \in Points |-> NoPoint]
  /\ queue = {}
  /\ sync = [y \in Syncs |-> NoSync]
  /\ failures = 0 /\ restarts = 0 /\ logouts = 0
------------------------------------------------------------------------------
(* The server.  A session takes points while it is ACTIVE, and a batch only *)
(* when every point of it is valid; a point whose sequence the session     *)
(* already has is acknowledged and not inserted.                           *)

SlotTaken(c, s) ==
  \E d \in Points : rows[s][d] > 0 /\ capture[d].sequence = capture[c].sequence

Inserts_NoSequence(batch, s, new) == new = batch
Inserts(batch, s, new) ==
  /\ new \subseteq {c \in batch : ~SlotTaken(c, s)}
  /\ \A c \in batch : ~SlotTaken(c, s) =>
       Cardinality({d \in new : capture[d].sequence = capture[c].sequence}) = 1

Accepts(batch, s) == status[s] = "ACTIVE" /\ \A c \in batch : capture[c].valid

RecordBatch(batch, s) ==
  /\ Accepts(batch, s)
  /\ \E new \in SUBSET batch :
       /\ Inserts(batch, s, new)
       /\ rows' = [rows EXCEPT ![s] = [c \in Points |-> IF c \in new THEN @[c] + 1 ELSE @[c]]]

CallFails == failures < MaxFailures /\ failures' = failures + 1

(* The office, or the operation's closure, ends a session. *)
OfficeEnds(s) ==
  /\ status[s] = "ACTIVE"
  /\ status' = [status EXCEPT ![s] = "ENDED"]
  /\ UNCHANGED <<rows, phone, starting, stopping, capture, queue, sync, bounds>>
------------------------------------------------------------------------------
(* The driver's button: it reads isTracking when tapped. *)

TapStart ==
  /\ ~phone.tracking
  /\ starting < MaxStarts
  /\ starting' = starting + 1
  /\ UNCHANGED <<server, phone, stopping, capture, queue, sync, bounds>>

(* The server returns the session that is ACTIVE or opens one, and the     *)
(* phone counts from 1.                                                    *)
StartAnswered ==
  /\ starting > 0
  /\ starting' = starting - 1
  /\ \E s \in Sessions :
       /\ IF \E a \in Sessions : status[a] = "ACTIVE"
          THEN status[s] = "ACTIVE"
          ELSE status[s] = "NONE" /\ \A e \in 1..(s - 1) : status[e] # "NONE"
       /\ status' = [status EXCEPT ![s] = "ACTIVE"]
       /\ \/ /\ phone' = [tracking |-> TRUE, session |-> s, sequence |-> 1, timers |-> TRUE]
             /\ UNCHANGED failures
          \/ CallFails /\ UNCHANGED phone
  /\ UNCHANGED <<rows, stopping, capture, queue, sync, restarts, logouts>>

StartFails ==
  /\ starting > 0
  /\ CallFails
  /\ starting' = starting - 1
  /\ UNCHANGED <<server, phone, stopping, capture, queue, sync, restarts, logouts>>

TapStop(t) ==
  /\ phone.tracking /\ phone.session # Null
  /\ stopping[t] = Null
  /\ stopping' = [stopping EXCEPT ![t] = phone.session]
  /\ phone' = [phone EXCEPT !.timers = FALSE]
  /\ UNCHANGED <<server, starting, capture, queue, sync, bounds>>

(* Whether the call ended the session or failed, the phone stops tracking  *)
(* and the final sync reads the queue.                                     *)
StopAnswered(t, y) ==
  /\ stopping[t] # Null
  /\ sync[y].pc = "idle"
  /\ \/ /\ status' = [status EXCEPT ![stopping[t]] = "ENDED"]
        /\ UNCHANGED failures
     \/ CallFails /\ UNCHANGED status
  /\ stopping' = [stopping EXCEPT ![t] = Null]
  /\ phone' = [phone EXCEPT !.tracking = FALSE, !.session = Null]
  /\ sync' = [sync EXCEPT ![y] = [NoSync EXCEPT !.pc = "read"]]
  /\ UNCHANGED <<rows, starting, capture, queue, restarts, logouts>>
------------------------------------------------------------------------------
(* The callback of the location timer. *)

CaptureStarts(c) ==
  /\ phone.timers /\ phone.tracking /\ phone.session # Null
  /\ capture[c].pc = "none"
  /\ \A d \in 1..(c - 1) : capture[d].pc # "none"
  /\ capture' = [capture EXCEPT ![c].pc = "locating"]
  /\ UNCHANGED <<server, phone, starting, stopping, queue, sync, bounds>>

(* The position arrives and takes the next sequence; a speed or a heading  *)
(* that the device does not know is negative and the server refuses it.    *)
(* Without a session the send throws, its handler throws again, and the    *)
(* point is dropped.                                                       *)
CaptureLocated(c) ==
  /\ capture[c].pc = "locating"
  /\ \E valid \in BOOLEAN :
       capture' = [capture EXCEPT ![c] =
         [@ EXCEPT !.pc = IF phone.session = Null THEN "dropped" ELSE "sending",
                   !.session = phone.session, !.sequence = phone.sequence, !.valid = valid]]
  /\ phone' = [phone EXCEPT !.sequence = @ + 1]
  /\ UNCHANGED <<server, starting, stopping, queue, sync, bounds>>

NoFix(c) ==
  /\ capture[c].pc = "locating"
  /\ capture' = [capture EXCEPT ![c].pc = "dropped"]
  /\ UNCHANGED <<server, phone, starting, stopping, queue, sync, bounds>>

CaptureRecorded(c) ==
  /\ capture[c].pc = "sending"
  /\ RecordBatch({c}, capture[c].session)
  /\ capture' = [capture EXCEPT ![c].pc = "recorded"]
  /\ UNCHANGED <<status, phone, starting, stopping, queue, sync, bounds>>

CaptureAcknowledged(c) ==
  /\ capture[c].pc = "recorded"
  /\ capture' = [capture EXCEPT ![c].pc = "sent"]
  /\ UNCHANGED <<server, phone, starting, stopping, queue, sync, bounds>>

(* A refusal, or a failed call: the handler queues the point for the       *)
(* session the provider has by now, if any; the queue is read, then        *)
(* written.                                                                *)
Requeued(point) ==
  IF phone.session = Null THEN [point EXCEPT !.pc = "dropped"]
  ELSE [point EXCEPT !.pc = "saving", !.session = phone.session]

CaptureFails(c) ==
  /\ \/ /\ capture[c].pc = "sending"
        /\ ~Accepts({c}, capture[c].session)
        /\ UNCHANGED failures
     \/ capture[c].pc \in {"sending", "recorded"} /\ CallFails
  /\ capture' = [capture EXCEPT ![c] = Requeued(@)]
  /\ UNCHANGED <<server, phone, starting, stopping, queue, sync, restarts, logouts>>

QueueRead(c) ==
  /\ capture[c].pc = "saving"
  /\ capture' = [capture EXCEPT ![c].pc = "writing", ![c].read = queue]
  /\ UNCHANGED <<server, phone, starting, stopping, queue, sync, bounds>>

QueueWritten(c) ==
  /\ capture[c].pc = "writing"
  /\ queue' = capture[c].read \cup {<<c, capture[c].session>>}
  /\ capture' = [capture EXCEPT ![c].pc = "queued", ![c].read = {}]
  /\ UNCHANGED <<server, phone, starting, stopping, sync, bounds>>
------------------------------------------------------------------------------
(* syncOfflinePoints. *)

AfterFailure_Stops(todo, group) == {}

(* A failed batch skips the rest of its session and no other. *)
AfterFailure(todo, group) == todo \ group

SyncTick(y) ==
  /\ phone.timers
  /\ sync[y].pc = "idle"
  /\ sync' = [sync EXCEPT ![y] = [NoSync EXCEPT !.pc = "read"]]
  /\ UNCHANGED <<server, phone, starting, stopping, capture, queue, bounds>>

SyncReads(y) ==
  /\ sync[y].pc = "read"
  /\ sync' = [sync EXCEPT ![y] =
       IF queue = {} THEN NoSync
       ELSE [NoSync EXCEPT !.pc = "send", !.snapshot = queue, !.todo = queue]]
  /\ UNCHANGED <<server, phone, starting, stopping, capture, queue, bounds>>

(* One batch of the session being sent, or of the next one.  The call is   *)
(* answered 201, or 409 when the session has ended or a point is invalid,  *)
(* or not at all with the batch recorded or not; a failure skips the rest  *)
(* of the session.  The stored list's order is left open.                  *)
Chunks(group) ==
  {chunk \in SUBSET group :
     Cardinality(chunk) = IF Cardinality(group) < Chunk THEN Cardinality(group) ELSE Chunk}

SyncSends(y) ==
  /\ sync[y].pc = "send"
  /\ \E s \in SessionsOf(sync[y].todo) :
       LET group == {p \in sync[y].todo : p[2] = s}
       IN /\ sync[y].group \in {Null, s}
          /\ \/ \E chunk \in Chunks(group) :
                  /\ RecordBatch({p[1] : p \in chunk}, s)
                  /\ sync' = [sync EXCEPT ![y].todo = @ \ chunk,
                                         ![y].group = IF chunk = group THEN Null ELSE s]
                  /\ UNCHANGED failures
             \/ /\ \/ \E chunk \in Chunks(group) :
                         RecordBatch({p[1] : p \in chunk}, s) /\ CallFails
                   \/ /\ \E chunk \in Chunks(group) : ~Accepts({p[1] : p \in chunk}, s)
                      /\ UNCHANGED <<rows, failures>>
                   \/ CallFails /\ UNCHANGED rows
                /\ sync' = [sync EXCEPT ![y].todo = AfterFailure(@, group), ![y].group = Null,
                                       ![y].allSynced = FALSE]
  /\ UNCHANGED <<status, phone, starting, stopping, capture, queue, restarts, logouts>>

SyncClears_Anyway(y) ==
  /\ sync[y].pc = "send" /\ sync[y].todo = {}
  /\ queue' = {}
  /\ sync' = [sync EXCEPT ![y] = NoSync]
  /\ UNCHANGED <<server, phone, starting, stopping, capture, bounds>>

(* All was sent: the queue is deleted. *)
SyncClears(y) ==
  /\ sync[y].pc = "send" /\ sync[y].todo = {} /\ sync[y].allSynced
  /\ queue' = {}
  /\ sync' = [sync EXCEPT ![y] = NoSync]
  /\ UNCHANGED <<server, phone, starting, stopping, capture, bounds>>
(* Something failed: the queue is read again and what it holds of the      *)
(* sessions just tried is written back.                                    *)
SyncRereads(y) ==
  /\ sync[y].pc = "send" /\ sync[y].todo = {} /\ ~sync[y].allSynced
  /\ sync' = [sync EXCEPT ![y].pc = "write",
       ![y].kept = {p \in queue : p[2] \in SessionsOf(sync[y].snapshot)}]
  /\ UNCHANGED <<server, phone, starting, stopping, capture, queue, bounds>>

SyncRewrites(y) ==
  /\ sync[y].pc = "write"
  /\ queue' = sync[y].kept
  /\ sync' = [sync EXCEPT ![y] = NoSync]
  /\ UNCHANGED <<server, phone, starting, stopping, capture, bounds>>
------------------------------------------------------------------------------
(* The app is killed and opened again: only the queue is stored. *)
Restart ==
  /\ restarts < MaxRestarts
  /\ restarts' = restarts + 1
  /\ phone' = Off
  /\ starting' = 0
  /\ stopping' = [t \in Stops |-> Null]
  /\ capture' = [c \in Points |->
       IF capture[c].pc \in {"none", "sent", "queued"} THEN capture[c]
       ELSE [capture[c] EXCEPT !.pc = "dropped", !.read = {}]]
  /\ sync' = [y \in Syncs |-> NoSync]
  /\ UNCHANGED <<server, queue, failures, logouts>>

(* A call of any screen is answered 401: the handler logs out and deletes  *)
(* all that is stored, and the timers go on.  That call and those before   *)
(* the next login fail as others do (CallFails).                           *)
Logout ==
  /\ logouts < MaxLogouts
  /\ logouts' = logouts + 1
  /\ queue' = {}
  /\ UNCHANGED <<server, phone, starting, stopping, capture, sync, failures, restarts>>

CaptureStep(c) ==
  \/ CaptureLocated(c) \/ NoFix(c) \/ CaptureRecorded(c) \/ CaptureAcknowledged(c)
  \/ CaptureFails(c) \/ QueueRead(c) \/ QueueWritten(c)

SyncStep(y) ==
  \/ SyncTick(y) \/ SyncReads(y) \/ SyncSends(y)
  \/ SyncClears(y) \/ SyncRereads(y) \/ SyncRewrites(y)

Next ==
  \/ TapStart \/ StartAnswered \/ StartFails \/ Restart \/ Logout
  \/ \E t \in Stops : TapStop(t) \/ \E y \in Syncs : StopAnswered(t, y)
  \/ \E c \in Points : CaptureStarts(c) \/ CaptureStep(c)
  \/ \E y \in Syncs : SyncStep(y)
  \/ \E s \in Sessions : OfficeEnds(s)

Spec == Init /\ [][Next]_vars

(* Callbacks that wait are resumed and the sync timer keeps ticking while  *)
(* it is on.  Nothing is assumed of the driver or the office; the network  *)
(* fails MaxFailures times at most.                                        *)
FairSpec ==
  /\ Spec
  /\ \A c \in Points : WF_vars(CaptureStep(c))
  /\ \A y \in Syncs : WF_vars(SyncStep(y))
  /\ WF_vars(StartAnswered)
  /\ WF_vars(\E t \in Stops, y \in Syncs : StopAnswered(t, y))
------------------------------------------------------------------------------
Pairs == Points \X Sessions
MaybeSession == Sessions \cup {Null}
CaptureStates ==
  [pc : {"none", "locating", "sending", "recorded", "sent", "saving", "writing",
         "queued", "dropped"},
   session : MaybeSession, sequence : Nat, valid : BOOLEAN, read : SUBSET Pairs]
SyncStates ==
  [pc : {"idle", "read", "send", "write"}, snapshot : SUBSET Pairs, todo : SUBSET Pairs,
   group : MaybeSession, allSynced : BOOLEAN, kept : SUBSET Pairs]

(* Every variable keeps its type, and what is sent or queued has a session. *)
ClientTypeOK ==
  /\ status \in [Sessions -> {"NONE", "ACTIVE", "ENDED"}]
  /\ rows \in [Sessions -> [Points -> Nat]]
  /\ phone \in [tracking : BOOLEAN, session : MaybeSession, sequence : Nat, timers : BOOLEAN]
  /\ starting \in 0..MaxStarts
  /\ stopping \in [Stops -> MaybeSession]
  /\ capture \in [Points -> CaptureStates]
  /\ \A c \in Points : capture[c].pc \in {"sending", "recorded", "saving", "writing"} =>
       capture[c].session # Null
  /\ queue \in SUBSET Pairs
  /\ sync \in [Syncs -> SyncStates]
  /\ failures \in 0..MaxFailures
  /\ restarts \in 0..MaxRestarts
  /\ logouts \in 0..MaxLogouts

(* Retries never duplicate a point: however often a point is sent, queued  *)
(* and sent again, by calls whose answer was lost and by overlapping       *)
(* syncs, a session has it once (docs/api/v1.md:216).                      *)
StoredOnce == \A s \in Sessions, c \in Points : rows[s][c] <= 1

(* A sync forgets what it read only when it was sent: when it deletes the  *)
(* queue, the server has the sequence of every point in its snapshot.      *)
SyncForgetsOnlySent ==
  [][\A y \in Syncs :
       sync[y].pc = "send" /\ sync'[y].pc = "idle" /\ restarts' = restarts =>
         \A p \in sync[y].snapshot \cap queue :
           p \in queue' \/ SlotTaken(p[1], p[2])']_vars

(* A write in hand that was computed before the point was queued will      *)
(* erase it: an overlapping save, or a sync that clears or rewrites the    *)
(* queue.                                                                  *)
BeingErased(p) ==
  \/ \E c \in Points : capture[c].pc = "writing" /\ p \notin capture[c].read
  \/ \E y \in Syncs : \/ sync[y].pc = "send" /\ p \notin sync[y].snapshot
                      \/ sync[y].pc = "write" /\ p \notin sync[y].kept

\* An invalid point that waits with it, which its session refuses for ever.
Poisoned(p) == \E q \in queue : q[2] = p[2] /\ ~capture[q[1]].valid

(* Once the storage is no longer cleared, a queued point of an active      *)
(* session does not wait for ever while the app keeps tracking: the server *)
(* gets its sequence, whatever other sessions refuse, unless an invalid    *)
(* point of its own session waits with it or an overlapping write of the   *)
(* queue erases it.                                                        *)
ActivePointsAreDelivered ==
  \A p \in Pairs :
    p \in queue /\ logouts = MaxLogouts ~>
      \/ SlotTaken(p[1], p[2]) \/ Poisoned(p) \/ BeingErased(p)
      \/ status[p[2]] # "ACTIVE" \/ ~phone.timers
==============================================================================
