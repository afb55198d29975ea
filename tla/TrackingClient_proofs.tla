-------------------------- MODULE TrackingClient_proofs --------------------------
(***************************************************************************)
(* Proofs about TrackingClient, for any number of points, sessions, syncs, *)
(* failed calls, restarts and logouts, and any size of a batch.            *)
(***************************************************************************)
EXTENDS TrackingClient, FiniteSetTheorems, TLAPS

(* A point has its sequence once its position arrived: it is stored, queued *)
(* or in a sync's hands only after that, so nobody sees its sequence change. *)
Placed(c) == capture[c].pc \notin {"none", "locating"}

InHand(y) == sync[y].snapshot \cup sync[y].todo \cup sync[y].kept

PointsArePlaced ==
  /\ \A s \in Sessions, c \in Points : rows[s][c] > 0 => Placed(c)
  /\ \A p \in queue : Placed(p[1])
  /\ \A c \in Points : \A p \in capture[c].read : Placed(p[1])
  /\ \A y \in Syncs : \A p \in InHand(y) : Placed(p[1])

(* While nothing failed, what a sync has read and does not hold for sending *)
(* any more is stored.                                                      *)
SentIsStored ==
  \A y \in Syncs :
    sync[y].pc = "send" /\ sync[y].allSynced =>
      \A p \in sync[y].snapshot \ sync[y].todo : SlotTaken(p[1], p[2])

ClientInv ==
  /\ ClientTypeOK
  /\ StoredOnce
  /\ PointsArePlaced
  /\ SentIsStored
------------------------------------------------------------------------------
(* Types.                                                                  *)

(* The constants of records that the actions write. *)
LEMMA StatesTyped ==
  /\ NoSync \in SyncStates
  /\ NoPoint \in CaptureStates
  /\ Off \in [tracking : BOOLEAN, session : MaybeSession, sequence : Nat, timers : BOOLEAN]
  /\ \A s \in Sessions :
       [tracking |-> TRUE, session |-> s, sequence |-> 1, timers |-> TRUE]
         \in [tracking : BOOLEAN, session : MaybeSession, sequence : Nat, timers : BOOLEAN]
  BY DEF NoSync, NoPoint, Off, SyncStates, CaptureStates, MaybeSession, Null

(* Recording a batch keeps the counts of points natural numbers. *)
LEMMA RowsTyped ==
  ASSUME rows \in [Sessions -> [Points -> Nat]], NEW batch, NEW s \in Sessions,
         RecordBatch(batch, s)
  PROVE  rows' \in [Sessions -> [Points -> Nat]]
  <1>1. PICK new \in SUBSET batch :
          rows' = [rows EXCEPT ![s] =
                     [c \in Points |-> IF c \in new THEN rows[s][c] + 1 ELSE rows[s][c]]]
    BY DEF RecordBatch
  <1>2. \A c \in Points : rows[s][c] \in Nat
    OBVIOUS
  <1>3. [c \in Points |-> IF c \in new THEN rows[s][c] + 1 ELSE rows[s][c]] \in [Points -> Nat]
    BY <1>2
  <1> QED
    BY <1>1, <1>3

(* A step that only changes where one point's callback is keeps the types. *)
LEMMA CaptureTyped ==
  ASSUME ClientTypeOK, NEW c \in Points, NEW r \in CaptureStates,
         r.pc \in {"sending", "recorded", "saving", "writing"} => r.session # Null,
         capture' = [capture EXCEPT ![c] = r]
  PROVE  /\ capture' \in [Points -> CaptureStates]
         /\ \A d \in Points : capture'[d].pc \in {"sending", "recorded", "saving", "writing"} =>
              capture'[d].session # Null
  BY DEF ClientTypeOK

(* The first state is well typed. *)
LEMMA TypeInit == Init => ClientTypeOK
  <1> SUFFICES ASSUME Init PROVE ClientTypeOK
    OBVIOUS
  <1> QED
    BY StatesTyped, ClientAssumption
    DEF Init, ClientTypeOK, NoPoint, Null, MaybeSession, Pairs

(* The driver's taps and their answers keep the types. *)
LEMMA TypeTaps ==
  ASSUME ClientTypeOK,
         \/ TapStart \/ StartAnswered \/ StartFails \/ Restart \/ Logout
         \/ \E s \in Sessions : OfficeEnds(s)
         \/ \E t \in Stops : TapStop(t) \/ \E y \in Syncs : StopAnswered(t, y)
  PROVE  ClientTypeOK'
  <1> USE StatesTyped, ClientAssumption DEF ClientTypeOK, CallFails, server, bounds
  <1>1. CASE TapStart
    BY <1>1 DEF TapStart
  <1>2. CASE StartAnswered
    <2>1. /\ status' \in [Sessions -> {"NONE", "ACTIVE", "ENDED"}]
          /\ starting' \in 0..MaxStarts
      BY <1>2 DEF StartAnswered
    <2>2. phone' \in [tracking : BOOLEAN, session : MaybeSession, sequence : Nat, timers : BOOLEAN]
      <3>1. PICK s \in Sessions :
              \/ phone' = [tracking |-> TRUE, session |-> s, sequence |-> 1, timers |-> TRUE]
              \/ UNCHANGED phone
        BY <1>2 DEF StartAnswered
      <3> QED
        BY <3>1
    <2>3. failures' \in 0..MaxFailures
      BY <1>2 DEF StartAnswered
    <2>4. UNCHANGED <<rows, stopping, capture, queue, sync, restarts, logouts>>
      BY <1>2 DEF StartAnswered
    <2> QED
      BY <2>1, <2>2, <2>3, <2>4
  <1>3. CASE StartFails
    BY <1>3 DEF StartFails
  <1>4. CASE Restart
    <2>1. \A c \in Points : [capture[c] EXCEPT !.pc = "dropped", !.read = {}] \in CaptureStates
      BY DEF CaptureStates
    <2>2. capture' \in [Points -> CaptureStates]
      BY <1>4, <2>1 DEF Restart
    <2>3. \A c \in Points : capture'[c].pc \notin {"sending", "recorded", "saving", "writing"}
      BY <1>4 DEF Restart, CaptureStates
    <2>4. UNCHANGED <<status, rows, queue, failures, logouts>> /\ phone' = Off
      BY <1>4 DEF Restart
    <2>6. starting' \in 0..MaxStarts /\ restarts' \in 0..MaxRestarts
      <3>1. starting' = 0 /\ restarts' = restarts + 1 /\ restarts < MaxRestarts
        BY <1>4 DEF Restart
      <3>2. 0 \in 0..MaxStarts /\ restarts \in 0..MaxRestarts /\ MaxRestarts \in Nat
        OBVIOUS
      <3> QED
        BY <3>1, <3>2
    <2>5. /\ stopping' \in [Stops -> MaybeSession]
          /\ sync' \in [Syncs -> SyncStates]
      BY <1>4 DEF Restart, MaybeSession
    <2> QED
      BY <2>2, <2>3, <2>4, <2>5, <2>6
  <1>5. ASSUME NEW s \in Sessions, OfficeEnds(s)
        PROVE  ClientTypeOK'
    BY <1>5 DEF OfficeEnds
  <1>6. ASSUME NEW t \in Stops, TapStop(t)
        PROVE  ClientTypeOK'
    BY <1>6 DEF TapStop
  <1>7. ASSUME NEW t \in Stops, NEW y \in Syncs, StopAnswered(t, y)
        PROVE  ClientTypeOK'
    <2>1. /\ status' \in [Sessions -> {"NONE", "ACTIVE", "ENDED"}]
          /\ failures' \in 0..MaxFailures
          /\ stopping' \in [Stops -> MaybeSession]
      BY <1>7 DEF StopAnswered, MaybeSession
    <2>2. phone' \in [tracking : BOOLEAN, session : MaybeSession, sequence : Nat, timers : BOOLEAN]
      BY <1>7 DEF StopAnswered, MaybeSession
    <2>3. [NoSync EXCEPT !.pc = "read"] \in SyncStates
      BY DEF SyncStates
    <2>4. sync' \in [Syncs -> SyncStates]
      BY <1>7, <2>3 DEF StopAnswered
    <2>5. UNCHANGED <<rows, starting, capture, queue, restarts, logouts>>
      BY <1>7 DEF StopAnswered
    <2> QED
      BY <2>1, <2>2, <2>4, <2>5
  <1>8. CASE Logout
    <2>1. queue' = {} /\ logouts' = logouts + 1 /\ logouts < MaxLogouts
      BY <1>8 DEF Logout
    <2>2. logouts' \in 0..MaxLogouts /\ queue' \in SUBSET Pairs
      BY <2>1
    <2> QED
      BY <1>8, <2>2 DEF Logout
  <1> QED
    BY <1>1, <1>2, <1>3, <1>4, <1>5, <1>6, <1>7, <1>8

(* So do the steps of a capture. *)
LEMMA TypeCapture ==
  ASSUME ClientTypeOK, NEW c \in Points, CaptureStarts(c) \/ CaptureStep(c)
  PROVE  ClientTypeOK'
  <1>c. capture[c] \in CaptureStates /\ phone.session \in MaybeSession /\ phone.sequence \in Nat
    BY DEF ClientTypeOK
  <1>1. CASE CaptureStarts(c)
    <2> DEFINE r == [capture[c] EXCEPT !.pc = "locating"]
    <2>1. r \in CaptureStates /\ r.pc = "locating"
      BY <1>c DEF CaptureStates
    <2>2. capture' = [capture EXCEPT ![c] = r]
      BY <1>1 DEF CaptureStarts
    <2> HIDE DEF r
    <2> QED
      BY <1>1, <2>1, <2>2, CaptureTyped DEF CaptureStarts, ClientTypeOK, server, bounds
  <1>2. CASE CaptureLocated(c)
    <2>0. PICK valid \in BOOLEAN :
            capture' = [capture EXCEPT ![c] =
              [@ EXCEPT !.pc = IF phone.session = Null THEN "dropped" ELSE "sending",
                        !.session = phone.session, !.sequence = phone.sequence, !.valid = valid]]
      BY <1>2 DEF CaptureLocated
    <2> DEFINE r == [capture[c] EXCEPT
                       !.pc = IF phone.session = Null THEN "dropped" ELSE "sending",
                       !.session = phone.session, !.sequence = phone.sequence, !.valid = valid]
    <2>1. r \in CaptureStates /\ (r.pc # "dropped" => r.session # Null)
      BY <1>c DEF CaptureStates
    <2>2. capture' = [capture EXCEPT ![c] = r]
      BY <2>0
    <2>3. phone' \in [tracking : BOOLEAN, session : MaybeSession, sequence : Nat, timers : BOOLEAN]
      BY <1>2 DEF CaptureLocated, ClientTypeOK
    <2> HIDE DEF r
    <2> QED
      BY <1>2, <2>1, <2>2, <2>3, CaptureTyped DEF CaptureLocated, ClientTypeOK, server, bounds
  <1>3. CASE NoFix(c)
    <2> DEFINE r == [capture[c] EXCEPT !.pc = "dropped"]
    <2>1. r \in CaptureStates /\ r.pc = "dropped"
      BY <1>c DEF CaptureStates
    <2>2. capture' = [capture EXCEPT ![c] = r]
      BY <1>3 DEF NoFix
    <2> HIDE DEF r
    <2> QED
      BY <1>3, <2>1, <2>2, CaptureTyped DEF NoFix, ClientTypeOK, server, bounds
  <1>4. CASE CaptureRecorded(c)
    <2> DEFINE r == [capture[c] EXCEPT !.pc = "recorded"]
    <2>1. capture[c].session \in Sessions
      BY <1>c, <1>4 DEF CaptureRecorded, ClientTypeOK, CaptureStates, MaybeSession
    <2>2. r \in CaptureStates /\ r.session # Null
      BY <1>c, <1>4 DEF CaptureRecorded, ClientTypeOK, CaptureStates
    <2>3. capture' = [capture EXCEPT ![c] = r]
      BY <1>4 DEF CaptureRecorded
    <2>4. rows' \in [Sessions -> [Points -> Nat]]
      BY <1>4, <2>1, RowsTyped DEF CaptureRecorded, ClientTypeOK
    <2> HIDE DEF r
    <2> QED
      BY <1>4, <2>2, <2>3, <2>4, CaptureTyped DEF CaptureRecorded, ClientTypeOK, bounds
  <1>5. CASE CaptureAcknowledged(c)
    <2> DEFINE r == [capture[c] EXCEPT !.pc = "sent"]
    <2>1. r \in CaptureStates /\ r.pc = "sent"
      BY <1>c DEF CaptureStates
    <2>2. capture' = [capture EXCEPT ![c] = r]
      BY <1>5 DEF CaptureAcknowledged
    <2> HIDE DEF r
    <2> QED
      BY <1>5, <2>1, <2>2, CaptureTyped DEF CaptureAcknowledged, ClientTypeOK, server, bounds
  <1>6. CASE CaptureFails(c)
    <2> DEFINE r == Requeued(capture[c])
    <2>1. r \in CaptureStates /\ (r.pc # "dropped" => r.session # Null)
      BY <1>c DEF CaptureStates, Requeued
    <2>2. capture' = [capture EXCEPT ![c] = r]
      BY <1>6 DEF CaptureFails
    <2>3. failures' \in 0..MaxFailures
      BY <1>6, ClientAssumption DEF CaptureFails, CallFails, ClientTypeOK
    <2> HIDE DEF r
    <2> QED
      BY <1>6, <2>1, <2>2, <2>3, CaptureTyped DEF CaptureFails, ClientTypeOK, server, bounds
  <1>7. CASE QueueRead(c)
    <2> DEFINE r == [capture[c] EXCEPT !.pc = "writing", !.read = queue]
    <2>1. r \in CaptureStates /\ r.session # Null
      BY <1>c, <1>7 DEF QueueRead, ClientTypeOK, CaptureStates
    <2>2. capture' = [capture EXCEPT ![c] = r]
      BY <1>7 DEF QueueRead
    <2> HIDE DEF r
    <2> QED
      BY <1>7, <2>1, <2>2, CaptureTyped DEF QueueRead, ClientTypeOK, server, bounds
  <1>8. CASE QueueWritten(c)
    <2> DEFINE r == [capture[c] EXCEPT !.pc = "queued", !.read = {}]
    <2>1. capture[c].session \in Sessions
      BY <1>c, <1>8 DEF QueueWritten, ClientTypeOK, CaptureStates, MaybeSession
    <2>2. queue' \in SUBSET Pairs
      BY <1>c, <1>8, <2>1 DEF QueueWritten, CaptureStates, Pairs
    <2>3. r \in CaptureStates /\ r.pc = "queued"
      BY <1>c DEF CaptureStates
    <2>4. capture' = [capture EXCEPT ![c] = r]
      BY <1>8 DEF QueueWritten
    <2> HIDE DEF r
    <2> QED
      BY <1>8, <2>2, <2>3, <2>4, CaptureTyped DEF QueueWritten, ClientTypeOK, server, bounds
  <1> QED
    BY <1>1, <1>2, <1>3, <1>4, <1>5, <1>6, <1>7, <1>8 DEF CaptureStep

(* A call of SyncSends records a batch of one session's points, which the  *)
(* sync has sent, or fails and gives up what the sync held of the session. *)
SendRecords(y, s, chunk) ==
  /\ chunk \subseteq {p \in sync[y].todo : p[2] = s}
  /\ RecordBatch({p[1] : p \in chunk}, s)
  /\ \E g \in MaybeSession :
       sync' = [sync EXCEPT ![y] = [@ EXCEPT !.todo = sync[y].todo \ chunk, !.group = g]]
  /\ UNCHANGED failures

SendFails(y, s) ==
  /\ \/ UNCHANGED rows
     \/ \E batch \in SUBSET {p[1] : p \in sync[y].todo} : RecordBatch(batch, s)
  /\ UNCHANGED failures \/ CallFails
  /\ \E rest \in SUBSET sync[y].todo :
       sync' = [sync EXCEPT ![y] = [@ EXCEPT !.todo = rest, !.group = Null, !.allSynced = FALSE]]

LEMMA SendOutcomes ==
  ASSUME ClientTypeOK, NEW y \in Syncs, SyncSends(y)
  PROVE  \E s \in Sessions :
           (\E chunk \in SUBSET sync[y].todo : SendRecords(y, s, chunk)) \/ SendFails(y, s)
  <1>t. sync \in [Syncs -> SyncStates] /\ sync[y].todo \in SUBSET Pairs
    BY DEF ClientTypeOK, SyncStates
  <1>1. PICK s \in SessionsOf(sync[y].todo) :
          LET group == {p \in sync[y].todo : p[2] = s}
          IN  \/ \E chunk \in Chunks(group) :
                   /\ RecordBatch({p[1] : p \in chunk}, s)
                   /\ sync' = [sync EXCEPT ![y].todo = @ \ chunk,
                                          ![y].group = IF chunk = group THEN Null ELSE s]
                   /\ UNCHANGED failures
              \/ /\ \/ \E chunk \in Chunks(group) :
                          RecordBatch({p[1] : p \in chunk}, s) /\ CallFails
                    \/ /\ \E chunk \in Chunks(group) : ~Accepts({p[1] : p \in chunk}, s)
                       /\ UNCHANGED <<rows, failures>>
                    \/ CallFails /\ UNCHANGED rows
                 /\ sync' = [sync EXCEPT ![y].todo = AfterFailure(@, group), ![y].group = Null,
                                        ![y].allSynced = FALSE]
    BY DEF SyncSends
  <1> DEFINE group == {p \in sync[y].todo : p[2] = s}
  <1>2. s \in Sessions
    <2>1. PICK p \in sync[y].todo : s = p[2]
      BY <1>1 DEF SessionsOf
    <2> QED
      BY <1>t, <2>1 DEF Pairs
  <1>3. ASSUME NEW chunk \in Chunks(group),
               RecordBatch({p[1] : p \in chunk}, s),
               sync' = [sync EXCEPT ![y].todo = @ \ chunk,
                                   ![y].group = IF chunk = group THEN Null ELSE s],
               UNCHANGED failures
        PROVE  \E c \in SUBSET sync[y].todo : SendRecords(y, s, c)
    <2>1. chunk \subseteq group
      BY DEF Chunks
    <2>2. \E g \in MaybeSession :
            sync' = [sync EXCEPT ![y] = [@ EXCEPT !.todo = sync[y].todo \ chunk, !.group = g]]
      <3>1. CASE chunk = group
        BY <1>3, <3>1 DEF MaybeSession
      <3>2. CASE chunk # group
        BY <1>2, <1>3, <3>2 DEF MaybeSession
      <3> QED
        BY <3>1, <3>2
    <2> QED
      BY <1>3, <2>1, <2>2 DEF SendRecords
  <1>4. ASSUME NEW chunk \in Chunks(group)
        PROVE  {p[1] : p \in chunk} \in SUBSET {p[1] : p \in sync[y].todo}
    BY DEF Chunks
  <1>5. ASSUME \/ \E chunk \in Chunks(group) : RecordBatch({p[1] : p \in chunk}, s) /\ CallFails
               \/ /\ \E chunk \in Chunks(group) : ~Accepts({p[1] : p \in chunk}, s)
                  /\ UNCHANGED <<rows, failures>>
               \/ CallFails /\ UNCHANGED rows,
               sync' = [sync EXCEPT ![y].todo = AfterFailure(@, group), ![y].group = Null,
                                   ![y].allSynced = FALSE]
        PROVE  SendFails(y, s)
    <2>1. AfterFailure(sync[y].todo, group) \in SUBSET sync[y].todo
      BY DEF AfterFailure
    <2>2. \E rest \in SUBSET sync[y].todo :
            sync' = [sync EXCEPT ![y] = [@ EXCEPT !.todo = rest, !.group = Null, !.allSynced = FALSE]]
      BY <1>5, <2>1
    <2>3. /\ \/ UNCHANGED rows
             \/ \E batch \in SUBSET {p[1] : p \in sync[y].todo} : RecordBatch(batch, s)
          /\ UNCHANGED failures \/ CallFails
      BY <1>4, <1>5
    <2> QED
      BY <2>2, <2>3 DEF SendFails
  <1> QED
    BY <1>1, <1>2, <1>3, <1>5

(* And the steps of a sync. *)
LEMMA TypeSync ==
  ASSUME ClientTypeOK, NEW y \in Syncs, SyncStep(y)
  PROVE  ClientTypeOK'
  <1>t. /\ sync[y] \in SyncStates
        /\ queue \in SUBSET Pairs
        /\ {p \in queue : p[2] \in SessionsOf(sync[y].snapshot)} \in SUBSET Pairs
    BY DEF ClientTypeOK
  <1>1. CASE SyncTick(y)
    <2>1. [NoSync EXCEPT !.pc = "read"] \in SyncStates
      BY StatesTyped DEF SyncStates
    <2> QED
      BY <1>1, <2>1 DEF SyncTick, ClientTypeOK, server, bounds
  <1>2. CASE SyncReads(y)
    <2>1. (IF queue = {} THEN NoSync
           ELSE [NoSync EXCEPT !.pc = "send", !.snapshot = queue, !.todo = queue]) \in SyncStates
      BY <1>t, StatesTyped DEF SyncStates
    <2> QED
      BY <1>2, <2>1 DEF SyncReads, ClientTypeOK, server, bounds
  <1>3. CASE SyncSends(y)
    <2>1. PICK s \in Sessions :
            (\E chunk \in SUBSET sync[y].todo : SendRecords(y, s, chunk)) \/ SendFails(y, s)
      BY <1>3, SendOutcomes
    <2>2. ASSUME NEW chunk \in SUBSET sync[y].todo, SendRecords(y, s, chunk)
          PROVE  ClientTypeOK'
      <3>1. rows' \in [Sessions -> [Points -> Nat]]
        BY <2>2, RowsTyped DEF SendRecords, ClientTypeOK
      <3>2. \A g \in MaybeSession :
              [sync[y] EXCEPT !.todo = sync[y].todo \ chunk, !.group = g] \in SyncStates
        BY <1>t DEF SyncStates
      <3>3. sync' \in [Syncs -> SyncStates]
        <4>1. PICK g \in MaybeSession :
                sync' = [sync EXCEPT ![y] = [@ EXCEPT !.todo = sync[y].todo \ chunk, !.group = g]]
          BY <2>2 DEF SendRecords
        <4>2. sync' = [sync EXCEPT ![y] = [sync[y] EXCEPT !.todo = sync[y].todo \ chunk, !.group = g]]
          BY <4>1
        <4> QED
          BY <3>2, <4>2 DEF ClientTypeOK
      <3> QED
        BY <1>3, <2>2, <3>1, <3>3 DEF SyncSends, SendRecords, ClientTypeOK
    <2>3. ASSUME SendFails(y, s)
          PROVE  ClientTypeOK'
      <3>1. rows' \in [Sessions -> [Points -> Nat]]
        BY <2>3, RowsTyped DEF SendFails, ClientTypeOK
      <3>2. \A rest \in SUBSET sync[y].todo :
              [sync[y] EXCEPT !.todo = rest, !.group = Null, !.allSynced = FALSE] \in SyncStates
        BY <1>t DEF SyncStates, MaybeSession
      <3>3. sync' \in [Syncs -> SyncStates]
        <4>1. PICK rest \in SUBSET sync[y].todo :
                sync' = [sync EXCEPT ![y] =
                           [@ EXCEPT !.todo = rest, !.group = Null, !.allSynced = FALSE]]
          BY <2>3 DEF SendFails
        <4>2. sync' = [sync EXCEPT ![y] = [sync[y] EXCEPT !.todo = rest, !.group = Null,
                                                         !.allSynced = FALSE]]
          BY <4>1
        <4> QED
          BY <3>2, <4>2 DEF ClientTypeOK
      <3>4. failures' \in 0..MaxFailures
        BY <2>3, ClientAssumption DEF SendFails, CallFails, ClientTypeOK
      <3> QED
        BY <1>3, <3>1, <3>3, <3>4 DEF SyncSends, ClientTypeOK
    <2> QED
      BY <2>1, <2>2, <2>3
  <1>4. CASE SyncClears(y)
    BY <1>4, StatesTyped DEF SyncClears, ClientTypeOK, server, bounds
  <1>5. CASE SyncRereads(y)
    <2>1. [sync[y] EXCEPT !.pc = "write",
             !.kept = {p \in queue : p[2] \in SessionsOf(sync[y].snapshot)}] \in SyncStates
      BY <1>t DEF SyncStates
    <2> QED
      BY <1>5, <2>1 DEF SyncRereads, ClientTypeOK, server, bounds
  <1>6. CASE SyncRewrites(y)
    <2>1. sync[y].kept \in SUBSET Pairs
      BY <1>t DEF SyncStates
    <2> QED
      BY <1>6, <2>1, StatesTyped DEF SyncRewrites, ClientTypeOK, server, bounds
  <1> QED
    BY <1>1, <1>2, <1>3, <1>4, <1>5, <1>6 DEF SyncStep

LEMMA TypeStep ==
  ASSUME ClientTypeOK, [Next]_vars
  PROVE  ClientTypeOK'
  <1>1. CASE UNCHANGED vars
    BY <1>1 DEF vars, server, bounds, ClientTypeOK
  <1>2. CASE Next
    BY <1>2, TypeTaps, TypeCapture, TypeSync DEF Next
  <1> QED
    BY <1>1, <1>2

(* The queue, the fields of the phone and the counts keep their types,     *)
(* whatever calls fail and wherever the app is killed.                     *)
THEOREM TypeCorrect == Spec => []ClientTypeOK
  <1> QED
    BY TypeInit, TypeStep, PTL DEF Spec
------------------------------------------------------------------------------
(* Rows are added only for a sequence that the session does not have, and  *)
(* a batch that is recorded leaves the session every sequence it asked for. *)

(* What recording a batch does to the session's rows. *)
LEMMA RecordedRows ==
  ASSUME ClientTypeOK, NEW batch \in SUBSET Points, NEW s \in Sessions, RecordBatch(batch, s)
  PROVE  \E new \in SUBSET batch :
           /\ \A t \in Sessions, c \in Points :
                rows'[t][c] = IF t = s /\ c \in new THEN rows[t][c] + 1 ELSE rows[t][c]
           /\ \A c \in new : ~SlotTaken(c, s)
           /\ \A c \in batch : ~SlotTaken(c, s) =>
                \E d \in new : capture[d].sequence = capture[c].sequence
  <1>1. PICK new \in SUBSET batch :
          /\ Inserts(batch, s, new)
          /\ rows' = [rows EXCEPT ![s] =
                        [c \in Points |-> IF c \in new THEN rows[s][c] + 1 ELSE rows[s][c]]]
    BY DEF RecordBatch
  <1>2. \A t \in Sessions, c \in Points :
          rows'[t][c] = IF t = s /\ c \in new THEN rows[t][c] + 1 ELSE rows[t][c]
    BY <1>1 DEF ClientTypeOK
  <1>3. ASSUME NEW c \in batch, ~SlotTaken(c, s)
        PROVE  \E d \in new : capture[d].sequence = capture[c].sequence
    <2> DEFINE same == {d \in new : capture[d].sequence = capture[c].sequence}
    <2>1. Cardinality(same) = 1
      BY <1>1, <1>3 DEF Inserts
    <2>2. same # {}
      <3> HIDE DEF same
      <3> QED
        BY <2>1, FS_EmptySet
    <2> QED
      BY <2>2
  <1> QED
    BY <1>1, <1>2, <1>3 DEF Inserts

(* A point with a row has its own sequence at the session. *)
LEMMA RowTakesSlot ==
  ASSUME NEW s \in Sessions, NEW c \in Points, rows[s][c] > 0
  PROVE  SlotTaken(c, s)
  BY DEF SlotTaken

(* Recording keeps a session's rows apart: at most one of each point. *)
LEMMA StoredOnceRecord ==
  ASSUME ClientTypeOK, StoredOnce,
         NEW batch \in SUBSET Points, NEW s \in Sessions, RecordBatch(batch, s)
  PROVE  StoredOnce'
  <1>1. PICK new \in SUBSET batch :
          /\ \A t \in Sessions, c \in Points :
               rows'[t][c] = IF t = s /\ c \in new THEN rows[t][c] + 1 ELSE rows[t][c]
          /\ \A c \in new : ~SlotTaken(c, s)
    BY RecordedRows
  <1> SUFFICES ASSUME NEW t \in Sessions, NEW c \in Points
               PROVE  rows'[t][c] <= 1
    BY DEF StoredOnce
  <1>2. rows[t][c] \in Nat /\ rows[t][c] <= 1
    BY DEF ClientTypeOK, StoredOnce
  <1>3. CASE t = s /\ c \in new
    <2>1. ~(rows[s][c] > 0)
      BY <1>1, <1>3, RowTakesSlot
    <2> QED
      BY <1>1, <1>2, <1>3, <2>1
  <1>4. CASE ~(t = s /\ c \in new)
    BY <1>1, <1>2, <1>4
  <1> QED
    BY <1>3, <1>4
------------------------------------------------------------------------------
(* A point keeps its sequence from the moment it is placed, and every row, *)
(* queued pair and pair in a sync's hands is of a placed point.             *)

(* Placed points stay placed and keep their sequence. *)
LEMMA PlacedStays ==
  ASSUME ClientTypeOK, [Next]_vars
  PROVE  \A c \in Points :
           Placed(c) => Placed(c)' /\ capture'[c].sequence = capture[c].sequence
  <1> SUFFICES ASSUME NEW c \in Points, Placed(c)
               PROVE  Placed(c)' /\ capture'[c].sequence = capture[c].sequence
    OBVIOUS
  <1>t. capture \in [Points -> CaptureStates]
    BY DEF ClientTypeOK
  <1>1. CASE UNCHANGED capture
    BY <1>1 DEF Placed
  <1>2. CASE Restart
    <2>1. \/ capture'[c] = capture[c]
          \/ capture'[c] = [capture[c] EXCEPT !.pc = "dropped", !.read = {}]
      BY <1>2 DEF Restart
    <2> QED
      BY <1>t, <2>1 DEF Placed, CaptureStates
  <1>3. ASSUME NEW d \in Points, CaptureStarts(d)
        PROVE  Placed(c)' /\ capture'[c].sequence = capture[c].sequence
    <2>1. c # d
      BY <1>3 DEF CaptureStarts, Placed
    <2> QED
      BY <1>t, <1>3, <2>1 DEF CaptureStarts, Placed
  <1>4. ASSUME NEW d \in Points, CaptureStep(d)
        PROVE  Placed(c)' /\ capture'[c].sequence = capture[c].sequence
    <2>1. CASE c # d
      BY <1>t, <1>4, <2>1
      DEF CaptureStep, CaptureLocated, NoFix, CaptureRecorded, CaptureAcknowledged,
          CaptureFails, QueueRead, QueueWritten, Placed
    <2>2. CASE c = d
      <3>1. ~CaptureLocated(d) /\ ~NoFix(d)
        BY <2>2 DEF CaptureLocated, NoFix, Placed
      <3>2. capture[c] \in CaptureStates
        BY <1>t
      <3>3. CASE CaptureRecorded(d) \/ CaptureAcknowledged(d)
        BY <1>t, <2>2, <3>2, <3>3 DEF CaptureRecorded, CaptureAcknowledged, Placed, CaptureStates
      <3>4. CASE CaptureFails(d)
        <4>1. capture'[c] = Requeued(capture[c])
          BY <1>t, <2>2, <3>4 DEF CaptureFails
        <4> QED
          BY <3>2, <4>1 DEF Requeued, Placed, CaptureStates
      <3>5. CASE QueueRead(d)
        BY <1>t, <2>2, <3>2, <3>5 DEF QueueRead, Placed, CaptureStates
      <3>6. CASE QueueWritten(d)
        BY <1>t, <2>2, <3>2, <3>6 DEF QueueWritten, Placed, CaptureStates
      <3> QED
        BY <1>4, <3>1, <3>3, <3>4, <3>5, <3>6 DEF CaptureStep
    <2> QED
      BY <2>1, <2>2
  <1>5. Next =>
          \/ UNCHANGED capture
          \/ Restart
          \/ \E d \in Points : CaptureStarts(d) \/ CaptureStep(d)
    BY DEF Next, Logout, TapStart, StartAnswered, StartFails, TapStop, StopAnswered, SyncStep,
           SyncTick, SyncReads, SyncSends, SyncClears, SyncRereads, SyncRewrites, OfficeEnds
  <1> QED
    BY <1>1, <1>2, <1>3, <1>4, <1>5 DEF vars

(* Rows change only when a batch of placed points is recorded. *)
LEMMA RowsStep ==
  ASSUME ClientTypeOK, PointsArePlaced, [Next]_vars
  PROVE  \/ UNCHANGED rows
         \/ \E s \in Sessions, batch \in SUBSET Points :
              RecordBatch(batch, s) /\ \A c \in batch : Placed(c)
  <1>1. ASSUME NEW c \in Points, CaptureRecorded(c)
        PROVE  \E s \in Sessions, batch \in SUBSET Points :
                 RecordBatch(batch, s) /\ \A d \in batch : Placed(d)
    <2>1. capture[c].session \in Sessions /\ Placed(c)
      BY <1>1 DEF CaptureRecorded, ClientTypeOK, CaptureStates, MaybeSession, Placed
    <2>2. RecordBatch({c}, capture[c].session) /\ \A d \in {c} : Placed(d)
      BY <1>1, <2>1 DEF CaptureRecorded
    <2> QED
      BY <2>1, <2>2
  <1>2. ASSUME NEW y \in Syncs, SyncSends(y)
        PROVE  \/ UNCHANGED rows
               \/ \E s \in Sessions, batch \in SUBSET Points :
                    RecordBatch(batch, s) /\ \A d \in batch : Placed(d)
    <2>1. PICK s \in Sessions :
            (\E chunk \in SUBSET sync[y].todo : SendRecords(y, s, chunk)) \/ SendFails(y, s)
      BY <1>2, SendOutcomes
    <2>2. \A p \in sync[y].todo : p[1] \in Points /\ Placed(p[1])
      <3>1. sync[y].todo \in SUBSET Pairs /\ sync[y].todo \subseteq InHand(y)
        BY DEF ClientTypeOK, SyncStates, InHand
      <3> QED
        BY <3>1 DEF PointsArePlaced, Pairs
    <2>3. \A batch \in SUBSET {p[1] : p \in sync[y].todo} :
            batch \in SUBSET Points /\ \A d \in batch : Placed(d)
      BY <2>2
    <2>4. UNCHANGED rows \/ \E batch \in SUBSET {p[1] : p \in sync[y].todo} : RecordBatch(batch, s)
      BY <2>1 DEF SendRecords, SendFails
    <2> QED
      BY <2>3, <2>4
  <1>3. Next =>
          \/ UNCHANGED rows
          \/ \E c \in Points : CaptureRecorded(c)
          \/ \E y \in Syncs : SyncSends(y)
    BY DEF Next, Logout, TapStart, StartAnswered, StartFails, TapStop, StopAnswered, SyncStep,
           CaptureStarts, CaptureStep, CaptureLocated, NoFix, CaptureAcknowledged,
           CaptureFails, QueueRead, QueueWritten, Restart, server,
           SyncTick, SyncReads, SyncClears, SyncRereads, SyncRewrites, OfficeEnds
  <1> QED
    BY <1>1, <1>2, <1>3 DEF vars, server

(* Rows are never deleted, and a new one is of a placed point. *)
LEMMA RowsGrow ==
  ASSUME ClientTypeOK, PointsArePlaced, [Next]_vars
  PROVE  \A s \in Sessions, c \in Points :
           /\ rows[s][c] > 0 => rows'[s][c] > 0
           /\ rows'[s][c] > 0 => Placed(c)
  <1>1. CASE UNCHANGED rows
    BY <1>1 DEF PointsArePlaced
  <1>2. ASSUME NEW s \in Sessions, NEW batch \in SUBSET Points,
               RecordBatch(batch, s), \A c \in batch : Placed(c)
        PROVE  \A t \in Sessions, c \in Points :
                 /\ rows[t][c] > 0 => rows'[t][c] > 0
                 /\ rows'[t][c] > 0 => Placed(c)
    <2>1. PICK new \in SUBSET batch :
            /\ \A t \in Sessions, c \in Points :
                 rows'[t][c] = IF t = s /\ c \in new THEN rows[t][c] + 1 ELSE rows[t][c]
            /\ \A c \in new : ~SlotTaken(c, s)
            /\ \A c \in batch : ~SlotTaken(c, s) =>
                 \E d \in new : capture[d].sequence = capture[c].sequence
      BY <1>2, RecordedRows
    <2>2. \A t \in Sessions, c \in Points : rows[t][c] \in Nat
      BY DEF ClientTypeOK
    <2> QED
      BY <1>2, <2>1, <2>2 DEF PointsArePlaced
  <1> QED
    BY <1>1, <1>2, RowsStep

(* A sequence the session has, it keeps. *)
LEMMA SlotStaysTaken ==
  ASSUME ClientTypeOK, PointsArePlaced, [Next]_vars,
         NEW c \in Points, NEW s \in Sessions, Placed(c), SlotTaken(c, s)
  PROVE  SlotTaken(c, s)'
  <1>1. PICK d \in Points : rows[s][d] > 0 /\ capture[d].sequence = capture[c].sequence
    BY DEF SlotTaken
  <1>2. Placed(d)
    BY <1>1 DEF PointsArePlaced
  <1>3. capture'[d].sequence = capture[d].sequence /\ capture'[c].sequence = capture[c].sequence
    BY <1>2, PlacedStays
  <1>4. rows'[s][d] > 0
    BY <1>1, RowsGrow
  <1> QED
    BY <1>1, <1>3, <1>4 DEF SlotTaken
(* What a sending sync keeps, and that it lives on only by recording. *)
LEMMA SendKeeps ==
  ASSUME ClientTypeOK, NEW y \in Syncs, SyncSends(y)
  PROVE  /\ sync'[y].pc = "send"
         /\ sync'[y].snapshot = sync[y].snapshot
         /\ sync'[y].kept = sync[y].kept
         /\ sync'[y].todo \subseteq sync[y].todo
         /\ sync'[y].allSynced =>
              \E s \in Sessions, chunk \in SUBSET sync[y].todo : SendRecords(y, s, chunk)
         /\ \A z \in Syncs \ {y} : sync'[z] = sync[z]
  <1>t. sync \in [Syncs -> SyncStates] /\ sync[y].pc = "send"
    BY DEF ClientTypeOK, SyncSends
  <1>1. PICK s \in Sessions :
          (\E chunk \in SUBSET sync[y].todo : SendRecords(y, s, chunk)) \/ SendFails(y, s)
    BY SendOutcomes
  <1>2. ASSUME NEW chunk \in SUBSET sync[y].todo, SendRecords(y, s, chunk)
        PROVE  /\ sync'[y].pc = "send"
               /\ sync'[y].snapshot = sync[y].snapshot
               /\ sync'[y].kept = sync[y].kept
               /\ sync'[y].todo \subseteq sync[y].todo
               /\ \A z \in Syncs \ {y} : sync'[z] = sync[z]
    <2>1. PICK g \in MaybeSession :
            sync' = [sync EXCEPT ![y] = [@ EXCEPT !.todo = sync[y].todo \ chunk, !.group = g]]
      BY <1>2 DEF SendRecords
    <2>2. sync'[y] = [sync[y] EXCEPT !.todo = sync[y].todo \ chunk, !.group = g]
      BY <1>t, <2>1
    <2> QED
      BY <1>t, <2>1, <2>2 DEF SyncStates
  <1>3. ASSUME SendFails(y, s)
        PROVE  /\ sync'[y].pc = "send"
               /\ sync'[y].snapshot = sync[y].snapshot
               /\ sync'[y].kept = sync[y].kept
               /\ sync'[y].todo \subseteq sync[y].todo
               /\ ~sync'[y].allSynced
               /\ \A z \in Syncs \ {y} : sync'[z] = sync[z]
    <2>1. PICK rest \in SUBSET sync[y].todo :
            sync' = [sync EXCEPT ![y] =
                       [@ EXCEPT !.todo = rest, !.group = Null, !.allSynced = FALSE]]
      BY <1>3 DEF SendFails
    <2>2. sync'[y] = [sync[y] EXCEPT !.todo = rest, !.group = Null, !.allSynced = FALSE]
      BY <1>t, <2>1
    <2> QED
      BY <1>t, <2>1, <2>2 DEF SyncStates
  <1> QED
    BY <1>1, <1>2, <1>3

(* What a step may make of a sync. *)
LEMMA SyncOutcomes ==
  ASSUME ClientTypeOK, [Next]_vars, NEW y \in Syncs
  PROVE  \/ sync'[y] = sync[y]
         \/ sync'[y] = NoSync \/ sync'[y] = [NoSync EXCEPT !.pc = "read"]
         \/ sync'[y] = [NoSync EXCEPT !.pc = "send", !.snapshot = queue, !.todo = queue]
         \/ \E k \in SUBSET queue : sync'[y] = [sync[y] EXCEPT !.pc = "write", !.kept = k]
         \/ SyncSends(y)
  <1>t. sync \in [Syncs -> SyncStates]
    BY DEF ClientTypeOK
  <1>1. ASSUME NEW z \in Syncs, SyncStep(z), z # y
        PROVE  sync'[y] = sync[y]
    <2>1. CASE SyncSends(z)
      BY <1>1, <2>1, SendKeeps
    <2> QED
      BY <1>t, <1>1, <2>1
      DEF SyncStep, SyncTick, SyncReads, SyncClears, SyncRereads, SyncRewrites
  <1>2. CASE SyncTick(y) \/ SyncClears(y) \/ SyncRewrites(y)
    BY <1>t, <1>2 DEF SyncTick, SyncClears, SyncRewrites
  <1>3. CASE SyncReads(y)
    BY <1>t, <1>3 DEF SyncReads
  <1>4. CASE SyncRereads(y)
    <2> DEFINE k == {p \in queue : p[2] \in SessionsOf(sync[y].snapshot)}
    <2>1. sync'[y] = [sync[y] EXCEPT !.pc = "write", !.kept = k]
      BY <1>t, <1>4 DEF SyncRereads
    <2>2. k \in SUBSET queue
      OBVIOUS
    <2> HIDE DEF k
    <2> QED
      BY <2>1, <2>2
  <1>5. ASSUME NEW t \in Stops, NEW z \in Syncs, StopAnswered(t, z)
        PROVE  \/ sync'[y] = sync[y]
               \/ sync'[y] = [NoSync EXCEPT !.pc = "read"]
    BY <1>t, <1>5 DEF StopAnswered
  <1>6. CASE Restart
    BY <1>6 DEF Restart
  <1>7. \/ UNCHANGED sync
        \/ Restart
        \/ \E z \in Syncs : SyncStep(z) \/ \E t \in Stops : StopAnswered(t, z)
    BY DEF Next, Logout, TapStart, StartAnswered, StartFails, TapStop, CaptureStarts, CaptureStep,
           CaptureLocated, NoFix, CaptureRecorded, CaptureAcknowledged, CaptureFails,
           QueueRead, QueueWritten, OfficeEnds, vars
  <1> QED
    BY <1>1, <1>2, <1>3, <1>4, <1>5, <1>6, <1>7 DEF SyncStep

(* The pairs that an action moves are of placed points. *)
LEMMA PlacedStep ==
  ASSUME ClientTypeOK, PointsArePlaced, [Next]_vars
  PROVE  PointsArePlaced'
  <1>t. /\ capture \in [Points -> CaptureStates]
        /\ sync \in [Syncs -> SyncStates]
        /\ queue \in SUBSET Pairs
    BY DEF ClientTypeOK
  <1>1. \A p \in Pairs : Placed(p[1]) => Placed(p[1])'
    BY PlacedStays DEF Pairs
  <1>2. \A s \in Sessions, c \in Points : rows'[s][c] > 0 => Placed(c)'
    BY RowsGrow, PlacedStays
  <1>3. \A p \in queue' : p \in Pairs /\ Placed(p[1])
    <2>1. ASSUME NEW c \in Points, QueueWritten(c)
          PROVE  \A p \in queue' : p \in Pairs /\ Placed(p[1])
      <3>1. /\ capture[c].read \in SUBSET Pairs
            /\ capture[c].session \in Sessions
            /\ Placed(c)
        BY <2>1, <1>t DEF QueueWritten, ClientTypeOK, CaptureStates, MaybeSession, Placed
      <3>2. <<c, capture[c].session>> \in Pairs /\ <<c, capture[c].session>>[1] = c
        BY <3>1 DEF Pairs
      <3>3. queue' = capture[c].read \cup {<<c, capture[c].session>>}
        BY <2>1 DEF QueueWritten
      <3>4. \A p \in capture[c].read : Placed(p[1])
        BY DEF PointsArePlaced
      <3> QED
        BY <3>1, <3>2, <3>3, <3>4
    <2>2. ASSUME NEW y \in Syncs, SyncRewrites(y)
          PROVE  \A p \in queue' : p \in Pairs /\ Placed(p[1])
      <3>1. sync[y].kept \in SUBSET Pairs
        BY <1>t DEF SyncStates
      <3>2. queue' = sync[y].kept
        BY <2>2 DEF SyncRewrites
      <3> QED
        BY <3>1, <3>2 DEF PointsArePlaced, InHand
    <2>3. \/ UNCHANGED queue
          \/ queue' = {}
          \/ \E c \in Points : QueueWritten(c)
          \/ \E y \in Syncs : SyncRewrites(y)
      BY DEF Next, Logout, TapStart, StartAnswered, StartFails, TapStop, StopAnswered, SyncStep,
             CaptureStarts, CaptureStep, CaptureLocated, NoFix, CaptureRecorded,
             CaptureAcknowledged, CaptureFails, QueueRead, Restart, vars,
             SyncTick, SyncReads, SyncSends, SyncClears, SyncRereads, OfficeEnds
    <2> QED
      BY <1>t, <2>1, <2>2, <2>3 DEF PointsArePlaced
  <1>4. \A c \in Points : \A p \in capture'[c].read : p \in Pairs /\ Placed(p[1])
    <2> SUFFICES ASSUME NEW c \in Points
                 PROVE  capture'[c].read \in {{}, queue, capture[c].read}
      BY <1>t DEF PointsArePlaced, CaptureStates
    <2>1. CASE UNCHANGED capture
      BY <2>1
    <2>2. CASE Restart
      <3>1. \/ capture'[c] = capture[c]
            \/ capture'[c] = [capture[c] EXCEPT !.pc = "dropped", !.read = {}]
        BY <2>2 DEF Restart
      <3> QED
        BY <1>t, <3>1 DEF CaptureStates
    <2>3. ASSUME NEW d \in Points, CaptureStarts(d) \/ CaptureStep(d), c # d
          PROVE  capture'[c] = capture[c]
      BY <1>t, <2>3
      DEF CaptureStarts, CaptureStep, CaptureLocated, NoFix, CaptureRecorded,
          CaptureAcknowledged, CaptureFails, QueueRead, QueueWritten
    <2>4. CASE CaptureStarts(c) \/ NoFix(c) \/ CaptureRecorded(c) \/ CaptureAcknowledged(c)
      BY <1>t, <2>4
      DEF CaptureStarts, NoFix, CaptureRecorded, CaptureAcknowledged, CaptureStates
    <2>5. CASE CaptureLocated(c)
      BY <1>t, <2>5 DEF CaptureLocated, CaptureStates
    <2>6. CASE CaptureFails(c)
      BY <1>t, <2>6 DEF CaptureFails, Requeued, CaptureStates
    <2>7. CASE QueueRead(c)
      BY <1>t, <2>7 DEF QueueRead, CaptureStates
    <2>8. CASE QueueWritten(c)
      BY <1>t, <2>8 DEF QueueWritten, CaptureStates
    <2>9. \/ UNCHANGED capture
          \/ Restart
          \/ \E d \in Points : CaptureStarts(d) \/ CaptureStep(d)
      BY DEF Next, Logout, TapStart, StartAnswered, StartFails, TapStop, StopAnswered, SyncStep,
             vars,
             SyncTick, SyncReads, SyncSends, SyncClears, SyncRereads, SyncRewrites, OfficeEnds
    <2> QED
      BY <2>1, <2>2, <2>3, <2>4, <2>5, <2>6, <2>7, <2>8, <2>9 DEF CaptureStep
  <1>5. \A y \in Syncs : \A p \in InHand(y)' : p \in Pairs /\ Placed(p[1])
    <2> SUFFICES ASSUME NEW y \in Syncs
                 PROVE  InHand(y)' \subseteq queue \cup InHand(y)
      <3>1. \A z \in Syncs : InHand(z) \in SUBSET Pairs
        BY <1>t DEF InHand, SyncStates
      <3> QED
        BY <1>t, <3>1 DEF PointsArePlaced
    <2>1. CASE sync'[y] = sync[y]
      BY <2>1 DEF InHand
    <2>2. CASE sync'[y] = NoSync \/ sync'[y] = [NoSync EXCEPT !.pc = "read"]
      BY <2>2 DEF InHand, NoSync
    <2>3. CASE sync'[y] = [NoSync EXCEPT !.pc = "send", !.snapshot = queue, !.todo = queue]
      BY <2>3 DEF InHand, NoSync
    <2>4. CASE \E k \in SUBSET queue : sync'[y] = [sync[y] EXCEPT !.pc = "write", !.kept = k]
      BY <1>t, <2>4 DEF InHand, SyncStates
    <2>5. CASE SyncSends(y)
      BY <2>5, SendKeeps DEF InHand
    <2> QED
      BY <2>1, <2>2, <2>3, <2>4, <2>5, SyncOutcomes
  <1> QED
    BY <1>1, <1>2, <1>3, <1>4, <1>5 DEF PointsArePlaced

(* What a sync stops holding while nothing failed has been recorded. *)
LEMMA SentStep ==
  ASSUME ClientTypeOK, PointsArePlaced, SentIsStored, [Next]_vars
  PROVE  SentIsStored'
  <1> SUFFICES ASSUME NEW y \in Syncs, sync'[y].pc = "send", sync'[y].allSynced,
                      NEW p \in sync'[y].snapshot \ sync'[y].todo
               PROVE  SlotTaken(p[1], p[2])'
    BY DEF SentIsStored
  <1>t. sync \in [Syncs -> SyncStates]
    BY DEF ClientTypeOK
  <1>1. ASSUME p \in sync[y].snapshot, SlotTaken(p[1], p[2])
        PROVE  SlotTaken(p[1], p[2])'
    <2>1. p[1] \in Points /\ p[2] \in Sessions
      BY <1>t, <1>1 DEF SyncStates, Pairs
    <2>2. Placed(p[1])
      BY <1>1 DEF PointsArePlaced, InHand
    <2> QED
      BY <1>1, <2>1, <2>2, SlotStaysTaken
  <1>2. CASE sync'[y] = sync[y]
    BY <1>1, <1>2 DEF SentIsStored
  <1>3. CASE sync'[y] = NoSync \/ sync'[y] = [NoSync EXCEPT !.pc = "read"]
    BY <1>3 DEF NoSync
  <1>4. CASE sync'[y] = [NoSync EXCEPT !.pc = "send", !.snapshot = queue, !.todo = queue]
    BY <1>4 DEF NoSync
  <1>5. CASE \E k \in SUBSET queue : sync'[y] = [sync[y] EXCEPT !.pc = "write", !.kept = k]
    BY <1>t, <1>5 DEF SyncStates
  <1>6. CASE SyncSends(y)
    <2>1. p \in sync[y].snapshot /\ sync[y].pc = "send"
      BY <1>6, SendKeeps DEF SyncSends
    <2>2. PICK s \in Sessions, chunk \in SUBSET sync[y].todo : SendRecords(y, s, chunk)
      BY <1>6, SendKeeps
    <2>3. sync'[y].todo = sync[y].todo \ chunk /\ sync'[y].allSynced = sync[y].allSynced
      <3>1. PICK g \in MaybeSession :
              sync' = [sync EXCEPT ![y] = [@ EXCEPT !.todo = sync[y].todo \ chunk, !.group = g]]
        BY <2>2 DEF SendRecords
      <3>2. sync'[y] = [sync[y] EXCEPT !.todo = sync[y].todo \ chunk, !.group = g]
        BY <1>t, <3>1
      <3> QED
        BY <1>t, <3>2 DEF SyncStates
    <2>4. CASE p \notin sync[y].todo
      BY <1>1, <2>1, <2>3, <2>4 DEF SentIsStored
    <2>5. CASE p \in sync[y].todo
      <3>1. p \in chunk /\ p[2] = s
        BY <2>2, <2>3, <2>5 DEF SendRecords
      <3> DEFINE batch == {q[1] : q \in chunk}
      <3>2. chunk \subseteq Pairs
        BY <1>t DEF SyncStates
      <3>3. batch \in SUBSET Points /\ p[1] \in batch /\ p[1] \in Points
        BY <3>1, <3>2 DEF Pairs
      <3>4. RecordBatch(batch, s)
        BY <2>2 DEF SendRecords
      <3> HIDE DEF batch
      <3>5. PICK new \in SUBSET batch :
              /\ \A t \in Sessions, c \in Points :
                   rows'[t][c] = IF t = s /\ c \in new THEN rows[t][c] + 1 ELSE rows[t][c]
              /\ \A c \in new : ~SlotTaken(c, s)
              /\ \A c \in batch : ~SlotTaken(c, s) =>
                   \E d \in new : capture[d].sequence = capture[c].sequence
        BY <3>3, <3>4, RecordedRows
      <3>6. CASE SlotTaken(p[1], s)
        BY <1>1, <2>1, <3>1, <3>6
      <3>7. CASE ~SlotTaken(p[1], s)
        <4>1. PICK d \in new : capture[d].sequence = capture[p[1]].sequence
          BY <3>3, <3>5, <3>7
        <4>2. d \in Points /\ rows[s][d] \in Nat
          BY <3>3, <4>1 DEF ClientTypeOK
        <4>3. rows'[s][d] > 0
          BY <3>5, <4>1, <4>2
        <4>4. UNCHANGED capture
          BY <1>6 DEF SyncSends
        <4> QED
          BY <3>1, <4>1, <4>2, <4>3, <4>4 DEF SlotTaken
      <3> QED
        BY <3>6, <3>7
    <2> QED
      BY <2>4, <2>5
  <1> QED
    BY <1>2, <1>3, <1>4, <1>5, <1>6, SyncOutcomes

(* A step that records stores no point twice; the others leave the rows. *)
LEMMA StoredOnceStep ==
  ASSUME ClientTypeOK, PointsArePlaced, StoredOnce, [Next]_vars
  PROVE  StoredOnce'
  <1>1. CASE UNCHANGED rows
    BY <1>1 DEF StoredOnce
  <1> QED
    BY <1>1, RowsStep, StoredOnceRecord

LEMMA InitClientInv == Init => ClientInv
  <1> SUFFICES ASSUME Init PROVE ClientInv
    OBVIOUS
  <1>1. ClientTypeOK
    BY TypeInit
  <1>2. StoredOnce /\ SentIsStored
    BY DEF Init, StoredOnce, SentIsStored, NoSync
  <1>3. PointsArePlaced
    BY DEF Init, PointsArePlaced, InHand, NoSync, NoPoint
  <1> QED
    BY <1>1, <1>2, <1>3 DEF ClientInv

LEMMA StepClientInv == ClientInv /\ [Next]_vars => ClientInv'
  BY TypeStep, StoredOnceStep, PlacedStep, SentStep DEF ClientInv

THEOREM ClientInvariant == Spec => []ClientInv
  <1> QED
    BY InitClientInv, StepClientInv, PTL DEF Spec

(* Retries never duplicate a point: the point, sent by its capture and by  *)
(* every sync that read it from the queue, has one row of a session.       *)
THEOREM PointsStoredOnce == Spec => []StoredOnce
  <1>1. ClientInv => StoredOnce
    BY DEF ClientInv
  <1> QED
    BY <1>1, ClientInvariant, PTL

(* A sync that forgets did so with nothing left to send and nothing failed. *)
LEMMA ForgettingStep ==
  ASSUME ClientTypeOK, [Next]_vars, NEW y \in Syncs,
         sync[y].pc = "send", sync'[y].pc = "idle", restarts' = restarts
  PROVE  SyncClears(y)
  <1>t. sync \in [Syncs -> SyncStates] /\ restarts \in Nat
    BY DEF ClientTypeOK
  <1>1. sync' # sync /\ ~Restart /\ ~SyncSends(y)
    <2>1. sync' # sync /\ ~SyncSends(y)
      BY SendKeeps
    <2>2. Restart => restarts' = restarts + 1
      BY DEF Restart
    <2>3. ~Restart
      BY <1>t, <2>2
    <2> QED
      BY <2>1, <2>3
  <1>2. ASSUME NEW t \in Stops, NEW z \in Syncs, StopAnswered(t, z)
        PROVE  FALSE
    BY <1>t, <1>2 DEF StopAnswered
  <1>3. ASSUME NEW z \in Syncs, SyncStep(z)
        PROVE  z = y
    <2>1. CASE SyncSends(z)
      BY <2>1, SendKeeps
    <2> QED
      BY <1>t, <1>3, <2>1
      DEF SyncStep, SyncTick, SyncReads, SyncClears, SyncRereads, SyncRewrites
  <1>4. ~SyncTick(y) /\ ~SyncReads(y) /\ ~SyncRewrites(y)
    BY DEF SyncTick, SyncReads, SyncRewrites
  <1>5. ~SyncRereads(y)
    BY <1>t DEF SyncRereads, SyncStates
  <1>6. \/ UNCHANGED sync
        \/ Restart
        \/ \E z \in Syncs : SyncStep(z) \/ \E t \in Stops : StopAnswered(t, z)
    BY DEF Next, Logout, TapStart, StartAnswered, StartFails, TapStop, CaptureStarts, CaptureStep,
           CaptureLocated, NoFix, CaptureRecorded, CaptureAcknowledged, CaptureFails,
           QueueRead, QueueWritten, OfficeEnds, vars
  <1> QED
    BY <1>1, <1>2, <1>3, <1>4, <1>5, <1>6 DEF SyncStep

(* When a sync deletes the queue, the server has what it had read of it,   *)
(* whatever captures, restarts and other syncs did meanwhile.              *)
THEOREM ForgetsOnlySent == Spec => SyncForgetsOnlySent
  <1>1. ASSUME ClientInv, [Next]_vars, NEW y \in Syncs,
               sync[y].pc = "send", sync'[y].pc = "idle", restarts' = restarts,
               NEW p \in sync[y].snapshot \cap queue
        PROVE  SlotTaken(p[1], p[2])'
    <2>1. sync[y].todo = {} /\ sync[y].allSynced /\ UNCHANGED <<server, capture>>
      BY <1>1, ForgettingStep DEF SyncClears, ClientInv
    <2>2. SlotTaken(p[1], p[2])
      BY <1>1, <2>1 DEF ClientInv, SentIsStored
    <2> QED
      BY <2>1, <2>2 DEF SlotTaken, server
  <1>2. ClientInv /\ [Next]_vars =>
          [\A y \in Syncs :
             sync[y].pc = "send" /\ sync'[y].pc = "idle" /\ restarts' = restarts =>
               \A p \in sync[y].snapshot \cap queue :
                 p \in queue' \/ SlotTaken(p[1], p[2])']_vars
    BY <1>1
  <1> QED
    BY <1>2, ClientInvariant, PTL DEF Spec, SyncForgetsOnlySent

===============================================================================
