------------------------- MODULE MobileSession_proofs -------------------------
(***************************************************************************)
(* Theorems about MobileSession for any drivers, calls, lives of tokens    *)
(* and bounds.                                                             *)
(***************************************************************************)
EXTENDS MobileSession, TLAPS

(* A call of the phone goes one step further. *)
CallStep(c) ==
  \/ CallSends(c) \/ CallAnswered(c) \/ CallFails(c) \/ CallRefused(c)
  \/ RefreshReads(c) \/ RefreshAnswered(c) \/ RefreshFails(c)
  \/ SavesAccess(c) \/ SavesExpiry(c) \/ Retry(c)
  \/ Clearing(c) \/ Revoked(c) \/ RevokeFails(c) \/ Deletes(c)

LEMMA NextSplits ==
  Next <=> \/ TimePasses \/ Splash \/ Restart
           \/ \E d \in Drivers : LoginAnswered(d)
           \/ LoginWritesAccess \/ LoginWritesRefresh \/ LoginWritesExpiry
           \/ \E c \in Calls : CallStep(c)
  BY DEF Next, CallStep
------------------------------------------------------------------------------
(* Types.                                                                  *)

CallTyped(r) ==
  /\ r \in [pc : CallSteps, token : Token \cup {NoToken}]
  /\ r.pc \in {"refreshing", "saving", "revoking"} => r.token # NoToken
  /\ r.pc \notin Holding => r.token = NoToken

(* A call that goes to a well-typed step leaves the calls well typed. *)
LEMMA GoesTyped ==
  ASSUME call \in [Calls -> [pc : CallSteps, token : Token \cup {NoToken}]],
         \A e \in Calls : CallTyped(call[e]),
         NEW c \in Calls, NEW pc, NEW t, Goes(c, pc, t),
         CallTyped([pc |-> pc, token |-> t])
  PROVE  /\ call' \in [Calls -> [pc : CallSteps, token : Token \cup {NoToken}]]
         /\ \A e \in Calls : CallTyped(call'[e])
  <1>1. [pc |-> pc, token |-> t] \in [pc : CallSteps, token : Token \cup {NoToken}]
    BY DEF CallTyped
  <1>2. call' = [call EXCEPT ![c] = [pc |-> pc, token |-> t]]
    BY DEF Goes
  <1>3. call' \in [Calls -> [pc : CallSteps, token : Token \cup {NoToken}]]
    BY <1>1, <1>2
  <1>4. ASSUME NEW e \in Calls PROVE CallTyped(call'[e])
    <2>1. CASE e = c
      BY <1>2, <2>1
    <2>2. CASE e # c
      BY <1>2, <2>2
    <2> QED
      BY <2>1, <2>2
  <1> QED
    BY <1>3, <1>4

(* The types of everything but the calls. *)
RestTyped ==
  /\ now \in Ticks /\ revoked \subseteq Token
  /\ access \in Token \cup {NoToken} /\ refresh \in Token \cup {NoToken}
  /\ expiresAt \in 0 .. LastTick + AccessLife
  /\ screen \in {"splash", "login", "operations"}
  /\ login \in [pc : LoginSteps, token : Token \cup {NoToken}]
  /\ login.pc # "idle" => login.token # NoToken /\ screen = "login"
  /\ restarts \in 0 .. MaxRestarts /\ failures \in 0 .. MaxFailures

CallsTyped ==
  /\ call \in [Calls -> [pc : CallSteps, token : Token \cup {NoToken}]]
  /\ \A c \in Calls : CallTyped(call[c])

LEMMA TypeOKSplits == TypeOK <=> RestTyped /\ CallsTyped
  BY DEF TypeOK, RestTyped, CallsTyped, CallTyped

LEMMA TypeOKJoins == RestTyped' /\ CallsTyped' => TypeOK'
  BY DEF TypeOK, RestTyped, CallsTyped, CallTyped

LEMMA TokenFields ==
  /\ \A t \in Token : t.driver \in Drivers /\ t.at \in Ticks
  /\ \A d \in Drivers, i \in Ticks : [driver |-> d, at |-> i] \in Token
  /\ NoToken \notin Token
  BY SessionAssumption DEF Token

LEMMA InitTyped == Init => TypeOK
  BY SessionAssumption DEF Init, TypeOK, Idle, Ticks, LoginSteps, CallSteps, Ending, Holding

(* A step of a call keeps the types. *)
LEMMA CallTypeStep ==
  ASSUME TypeOK, NEW c \in Calls, CallStep(c)
  PROVE  TypeOK'
  <1> USE TokenFields, TypeOKSplits, TypeOKJoins
  <1>0. RestTyped /\ CallsTyped
    OBVIOUS
  <1> DEFINE Typed(pc, t) == CallTyped([pc |-> pc, token |-> t])
  <1>1. ASSUME NEW pc, NEW t, Goes(c, pc, t), Typed(pc, t) PROVE CallsTyped'
    BY <1>0, <1>1, GoesTyped DEF CallsTyped
  <1>2. /\ \A pc \in CallSteps \ Holding : Typed(pc, NoToken)
        /\ \A pc \in Holding, t \in Token : Typed(pc, t)
        /\ Typed("sent", NoToken)
    BY DEF CallTyped, CallSteps, Holding, Ending
  <1>3. /\ call[c].token \in Token \cup {NoToken}
        /\ call[c].pc \in {"refreshing", "saving", "revoking"} => call[c].token \in Token
    BY <1>0 DEF CallsTyped, CallTyped
  <1>4. {"idle", "refused", "dating", "retrying", "clearing", "deleting"} \subseteq CallSteps \ Holding
    BY DEF CallSteps, Holding, Ending
  <1>5. {"sent", "refreshing", "saving", "revoking"} \subseteq Holding
    BY DEF Holding
  <1>6. OnlyCalls => RestTyped'
    BY <1>0 DEF OnlyCalls, RestTyped, storage, bounds
  <1>7. access \in Token \cup {NoToken} /\ refresh \in Token \cup {NoToken} /\ now \in Ticks
    BY <1>0 DEF RestTyped
  <1>a. CASE CallSends(c)
    BY <1>a, <1>1, <1>2, <1>5, <1>6, <1>7 DEF CallSends
  <1>b. CASE CallAnswered(c) \/ CallFails(c)
    BY <1>b, <1>1, <1>2, <1>4, <1>6 DEF CallAnswered, CallFails
  <1>c. CASE CallRefused(c) \/ RefreshFails(c) \/ Retry(c)
    BY <1>c, <1>1, <1>2, <1>4, <1>6 DEF CallRefused, RefreshFails, Retry
  <1>d. CASE RefreshReads(c)
    BY <1>d, <1>1, <1>2, <1>4, <1>5, <1>6, <1>7 DEF RefreshReads
  <1>e. CASE RefreshAnswered(c)
    <2>1. [driver |-> call[c].token.driver, at |-> now] \in Token
      BY <1>e, <1>3, <1>7 DEF RefreshAnswered
    <2> QED
      BY <1>e, <2>1, <1>1, <1>2, <1>5, <1>6 DEF RefreshAnswered
  <1>f. CASE SavesAccess(c)
    <2>1. CallsTyped'
      BY <1>f, <1>1, <1>2, <1>4 DEF SavesAccess
    <2>2. RestTyped'
      BY <1>f, <1>0, <1>3 DEF SavesAccess, RestTyped, bounds
    <2> QED
      BY <2>1, <2>2
  <1>g. CASE SavesExpiry(c)
    <2>1. CallsTyped'
      BY <1>g, <1>1, <1>2, <1>4 DEF SavesExpiry
    <2>2. now + AccessLife \in 0 .. LastTick + AccessLife
      BY <1>7, SessionAssumption DEF Ticks
    <2>3. RestTyped'
      BY <1>g, <1>0, <2>2 DEF SavesExpiry, RestTyped, bounds
    <2> QED
      BY <2>1, <2>3
  <1>h. CASE Clearing(c)
    BY <1>h, <1>1, <1>2, <1>4, <1>5, <1>6, <1>7 DEF Clearing
  <1>i. CASE Revoked(c)
    <2>1. CallsTyped'
      BY <1>i, <1>1, <1>2, <1>4 DEF Revoked
    <2>2. revoked' \subseteq Token
      BY <1>i, <1>0, <1>3 DEF Revoked, RestTyped
    <2>3. RestTyped'
      BY <1>i, <1>0, <2>2 DEF Revoked, RestTyped, storage, bounds
    <2> QED
      BY <2>1, <2>3
  <1>j. CASE RevokeFails(c)
    <2>1. CallsTyped'
      BY <1>j, <1>1, <1>2, <1>4 DEF RevokeFails
    <2>2. RestTyped'
      BY <1>j, <1>0, SessionAssumption DEF RevokeFails, RestTyped, storage
    <2> QED
      BY <2>1, <2>2
  <1>k. CASE Deletes(c)
    <2>1. CallsTyped'
      BY <1>k, <1>1, <1>2, <1>4 DEF Deletes
    <2>2. 0 \in 0 .. LastTick + AccessLife
      BY SessionAssumption
    <2>3. RestTyped'
      BY <1>k, <1>0, <2>2 DEF Deletes, RestTyped, bounds
    <2> QED
      BY <2>1, <2>3
  <1> QED
    BY <1>a, <1>b, <1>c, <1>d, <1>e, <1>f, <1>g, <1>h, <1>i, <1>j, <1>k DEF CallStep

LEMMA TypeStep == TypeOK /\ [Next]_vars => TypeOK'
  <1> SUFFICES ASSUME TypeOK, [Next]_vars PROVE TypeOK'
    OBVIOUS
  <1> USE TokenFields, SessionAssumption, TypeOKJoins
  <1>0. RestTyped /\ CallsTyped
    BY TypeOKSplits
  <1>1. UNCHANGED call => CallsTyped'
    BY <1>0 DEF CallsTyped, CallTyped
  <1>2. Idle \in [pc : LoginSteps, token : Token \cup {NoToken}] /\ Idle.pc = "idle"
    BY DEF Idle, LoginSteps
  <1>a. CASE TimePasses
    <2>1. RestTyped'
      BY <1>a, <1>0 DEF TimePasses, RestTyped, Ticks, storage, bounds
    <2> QED
      BY <1>a, <1>1, <2>1 DEF TimePasses
  <1>b. CASE Splash
    <2>1. RestTyped'
      BY <1>b, <1>0 DEF Splash, RestTyped, storage, bounds
    <2> QED
      BY <1>b, <1>1, <2>1 DEF Splash
  <1>c. CASE Restart
    <2>1. CallTyped(Idle) /\ Idle \in [pc : CallSteps, token : Token \cup {NoToken}]
      BY DEF CallTyped, Idle, CallSteps, Holding
    <2>2. CallsTyped'
      BY <1>c, <2>1 DEF Restart, CallsTyped
    <2>3. RestTyped'
      BY <1>c, <1>0, <1>2 DEF Restart, RestTyped, storage
    <2> QED
      BY <2>2, <2>3
  <1>d. ASSUME NEW d \in Drivers, LoginAnswered(d) PROVE TypeOK'
    <2>1. [driver |-> d, at |-> now] \in Token
      BY <1>0 DEF RestTyped
    <2>2. RestTyped'
      BY <1>d, <1>0, <2>1 DEF LoginAnswered, RestTyped, storage, bounds, LoginSteps
    <2> QED
      BY <1>d, <1>1, <2>2 DEF LoginAnswered
  <1>e. CASE LoginWritesAccess
    <2>1. RestTyped'
      BY <1>e, <1>0 DEF LoginWritesAccess, RestTyped, bounds, LoginSteps
    <2> QED
      BY <1>e, <1>1, <2>1 DEF LoginWritesAccess
  <1>f. CASE LoginWritesRefresh
    <2>1. RestTyped'
      BY <1>f, <1>0 DEF LoginWritesRefresh, RestTyped, bounds, LoginSteps
    <2> QED
      BY <1>f, <1>1, <2>1 DEF LoginWritesRefresh
  <1>g. CASE LoginWritesExpiry
    <2>1. now + AccessLife \in 0 .. LastTick + AccessLife
      BY <1>0 DEF RestTyped, Ticks
    <2>2. RestTyped'
      BY <1>g, <1>0, <1>2, <2>1 DEF LoginWritesExpiry, RestTyped, bounds
    <2> QED
      BY <1>g, <1>1, <2>2 DEF LoginWritesExpiry
  <1>h. CASE UNCHANGED vars
    <2>1. RestTyped'
      BY <1>h, <1>0 DEF vars, RestTyped, storage, bounds
    <2> QED
      BY <1>h, <1>1, <2>1 DEF vars
  <1> QED
    BY <1>a, <1>b, <1>c, <1>d, <1>e, <1>f, <1>g, <1>h, CallTypeStep, NextSplits

(* The storage, the calls and the login are always well typed
   (auth_service.dart, api_client.dart). *)
THEOREM TypeCorrect == Spec => []TypeOK
  <1> QED
    BY InitTyped, TypeStep, PTL DEF Spec
------------------------------------------------------------------------------
(* One driver.                                                             *)

Same(t, u) == t # NoToken /\ u # NoToken => t.driver = u.driver

OneInHand ==
  /\ Same(access, refresh)
  /\ \A c \in Calls : Same(access, call[c].token) /\ Same(refresh, call[c].token)
  /\ \A c, e \in Calls : Same(call[c].token, call[e].token)

(* What holds while the app is closed or logging in: tokens of two drivers
   are stored only behind an expiry that has passed, which the writes of the
   login keep until the last one. *)
ClosedMixed ==
  /\ access = NoToken => refresh = NoToken
  /\ Same(access, refresh) \/ expiresAt <= now
  /\ screen # "operations" => \A c \in Calls : call[c].pc = "idle"
  /\ screen = "login" => expiresAt <= now \/ refresh = NoToken \/ login.pc = "refreshWritten"
  /\ login.pc \in {"accessWritten", "refreshWritten"} => access = login.token
  /\ login.pc = "refreshWritten" => refresh = login.token

OneInv ==
  /\ TypeOK
  /\ screen = "operations" => OneInHand
  /\ ClosedMixed

LEMMA OneInvImplies == OneInv => OneDriverPerSession
  BY DEF OneInv, OneInHand, Same, OneDriverPerSession, InHand

LEMMA OneInit == Init => OneInv
  <1> SUFFICES ASSUME Init PROVE OneInv
    OBVIOUS
  <1>1. ClosedMixed /\ screen # "operations"
    BY DEF Init, Idle, ClosedMixed, Same
  <1> QED
    BY <1>1, InitTyped DEF OneInv

(* A call that only passes a token of the session along. *)
LEMMA OneCallStep ==
  ASSUME OneInv, TypeOK', NEW c \in Calls, CallStep(c)
  PROVE  OneInv'
  <1>1. /\ screen = "operations" /\ screen' = screen
        /\ login.pc = "idle" /\ login' = login /\ now' = now
    BY DEF OneInv, ClosedMixed, TypeOK, CallStep, CallSends, CallAnswered, CallFails, CallRefused,
           RefreshReads, RefreshAnswered, RefreshFails, SavesAccess, SavesExpiry, Retry, Clearing,
           Revoked, RevokeFails, Deletes, OnlyCalls
  <1>2. OneInHand
    BY <1>1 DEF OneInv
  <1>3. \E pc, t : Goes(c, pc, t) /\ (Same(access, t) /\ Same(refresh, t) /\ \A e \in Calls : Same(call[e].token, t))
    <2> DEFINE Of(t) == Same(access, t) /\ Same(refresh, t) /\ \A e \in Calls : Same(call[e].token, t)
    <2>1. Of(NoToken) /\ Of(access) /\ Of(refresh) /\ Of(call[c].token)
      BY <1>2 DEF OneInHand, Same
    <2>2. CASE RefreshAnswered(c)
      <3>1. call[c].token # NoToken
        BY <2>2 DEF RefreshAnswered, OneInv, TypeOK
      <3>2. Goes(c, "saving", [driver |-> call[c].token.driver, at |-> now])
        BY <2>2 DEF RefreshAnswered
      <3>3. Of([driver |-> call[c].token.driver, at |-> now])
        BY <2>1, <3>1 DEF Same
      <3> QED
        BY <3>2, <3>3
    <2>3. CASE ~RefreshAnswered(c)
      <3>1. \E pc, t : Goes(c, pc, t) /\ t \in {NoToken, access, refresh, call[c].token}
        BY <2>3 DEF CallStep, CallSends, CallAnswered, CallFails, CallRefused, RefreshReads,
             RefreshFails, SavesAccess, SavesExpiry, Retry, Clearing, Revoked, RevokeFails, Deletes
      <3> QED
        BY <2>1, <3>1
    <2> QED
      BY <2>2, <2>3
  <1>4. PICK pc, t : Goes(c, pc, t) /\ (Same(access, t) /\ Same(refresh, t) /\ \A e \in Calls : Same(call[e].token, t))
    BY <1>3
  <1>5. /\ call'[c].token = t
        /\ \A e \in Calls \ {c} : call'[e] = call[e]
    BY <1>4 DEF Goes, OneInv, TypeOK
  <1>6. \/ access' = access /\ refresh' = refresh
        \/ SavesAccess(c) /\ access' = call[c].token /\ access' # NoToken /\ refresh' = refresh
        \/ access' = NoToken /\ refresh' = NoToken
    <2>1. CASE SavesAccess(c)
      <3>1. call[c].token # NoToken
        BY <2>1 DEF SavesAccess, OneInv, TypeOK
      <3>2. access' = call[c].token /\ refresh' = refresh
        BY <2>1 DEF SavesAccess
      <3> QED
        BY <2>1, <3>1, <3>2
    <2>2. CASE Deletes(c)
      BY <2>2 DEF Deletes
    <2>3. CASE ~SavesAccess(c) /\ ~Deletes(c)
      <3>1. access' = access /\ refresh' = refresh
        BY <2>3 DEF CallStep, CallSends, CallAnswered, CallFails, CallRefused, RefreshReads, RefreshAnswered,
                    RefreshFails, SavesExpiry, Retry, Clearing, Revoked, RevokeFails, OnlyCalls, storage
      <3> QED
        BY <3>1
    <2> QED
      BY <2>1, <2>2, <2>3
  <1>7. OneInHand'
    <2>1. Same(access', refresh')
      BY <1>2, <1>6 DEF OneInHand, Same
    <2>2. Same(access', t) /\ Same(refresh', t) /\ \A e \in Calls : Same(access', call[e].token) /\ Same(refresh', call[e].token)
      BY <1>2, <1>4, <1>6 DEF OneInHand, Same
    <2>3. \A e \in Calls : Same(access', call'[e].token) /\ Same(refresh', call'[e].token)
      BY <2>2, <1>5
    <2>4. \A e, f \in Calls : Same(call'[e].token, call'[f].token)
      BY <1>2, <1>4, <1>5 DEF OneInHand, Same
    <2> QED
      BY <2>1, <2>3, <2>4 DEF OneInHand, Same
  <1>8. ClosedMixed'
    BY <1>1, <1>6, <1>7 DEF ClosedMixed, OneInHand, Same, OneInv
  <1> QED
    BY <1>7, <1>8 DEF OneInv

LEMMA OneStep == OneInv /\ [Next]_vars => OneInv'
  <1> SUFFICES ASSUME OneInv, [Next]_vars PROVE OneInv'
    OBVIOUS
  <1> USE SessionAssumption
  <1>0. TypeOK'
    BY TypeStep DEF OneInv
  <1>1. now \in Int /\ expiresAt \in Int
    BY DEF OneInv, TypeOK, Ticks
  <1>a. CASE TimePasses
    BY <1>a, <1>0, <1>1 DEF TimePasses, OneInv, OneInHand, ClosedMixed, Same, storage
  <1>b. CASE Splash
    <2>1. /\ UNCHANGED <<now, access, refresh, expiresAt, login, call>>
          /\ \A c \in Calls : call[c].pc = "idle" /\ call[c].token = NoToken
          /\ login.pc = "idle"
      BY <1>b DEF Splash, OneInv, ClosedMixed, TypeOK, storage, Holding
    <2>2. CASE access # NoToken /\ now < expiresAt
      <3>1. Same(access, refresh) /\ screen' = "operations"
        BY <1>b, <1>1, <2>2 DEF Splash, OneInv, ClosedMixed
      <3> QED
        BY <1>0, <2>1, <3>1 DEF OneInv, OneInHand, ClosedMixed, Same
    <2>3. CASE ~(access # NoToken /\ now < expiresAt)
      <3>1. screen' = "login" /\ (expiresAt <= now \/ refresh = NoToken)
        BY <1>b, <1>1, <2>3 DEF Splash, OneInv, ClosedMixed
      <3> QED
        BY <1>0, <2>1, <3>1 DEF OneInv, ClosedMixed, Same
    <2> QED
      BY <2>2, <2>3
  <1>c. CASE Restart
    BY <1>c, <1>0 DEF Restart, OneInv, ClosedMixed, OneInHand, Same, Idle, storage
  <1>d. ASSUME NEW d \in Drivers, LoginAnswered(d) PROVE OneInv'
    BY <1>d, <1>0 DEF LoginAnswered, OneInv, ClosedMixed, Same, storage
  <1>e. CASE LoginWritesAccess
    <2>1. screen = "login" /\ login.token # NoToken /\ (expiresAt <= now \/ refresh = NoToken)
      BY <1>e DEF LoginWritesAccess, OneInv, ClosedMixed, TypeOK
    <2>2. login' = [login EXCEPT !.pc = "accessWritten"] /\ login'.pc = "accessWritten" /\ login'.token = login.token
      BY <1>e DEF LoginWritesAccess, OneInv, TypeOK
    <2> QED
      BY <1>e, <1>0, <2>1, <2>2 DEF LoginWritesAccess, OneInv, ClosedMixed, Same
  <1>f. CASE LoginWritesRefresh
    <2>1. screen = "login" /\ login.token # NoToken /\ access = login.token
      BY <1>f DEF LoginWritesRefresh, OneInv, ClosedMixed, TypeOK
    <2>2. login'.pc = "refreshWritten" /\ login'.token = login.token
      BY <1>f DEF LoginWritesRefresh, OneInv, TypeOK
    <2> QED
      BY <1>f, <1>0, <2>1, <2>2 DEF LoginWritesRefresh, OneInv, ClosedMixed, Same
  <1>g. CASE LoginWritesExpiry
    <2>1. /\ access = login.token /\ refresh = login.token
          /\ \A c \in Calls : call[c].token = NoToken
      BY <1>g DEF LoginWritesExpiry, OneInv, ClosedMixed, TypeOK, Holding
    <2>2. UNCHANGED <<access, refresh, call>> /\ login' = Idle /\ screen' = "operations"
      BY <1>g DEF LoginWritesExpiry
    <2>3. OneInHand'
      BY <2>1, <2>2 DEF OneInHand, Same
    <2>4. ClosedMixed'
      BY <1>g, <2>1, <2>2, <2>3 DEF ClosedMixed, OneInv, OneInHand, Idle, Same
    <2> QED
      BY <1>0, <2>3, <2>4 DEF OneInv
  <1>h. CASE UNCHANGED vars
    BY <1>h, <1>0 DEF vars, storage, OneInv, OneInHand, ClosedMixed, Same
  <1> QED
    BY <1>0, <1>a, <1>b, <1>c, <1>d, <1>e, <1>f, <1>g, <1>h, OneCallStep, NextSplits

(* Whatever writes were interrupted and however calls overlap, an app with
   the operations on the screen works with one driver's tokens
   (auth_service.dart:36-43 and 56-71). *)
THEOREM DriversStaySeparate == Spec => []OneDriverPerSession
  <1> QED
    BY OneInit, OneStep, OneInvImplies, PTL DEF Spec
------------------------------------------------------------------------------
(* Half sessions.                                                          *)

(* Before the app is killed for the first time it has opened on an empty
   storage, and its login leaves both tokens. *)
HalfInv ==
  /\ OneInv
  /\ screen = "splash" /\ restarts = 0 => access = NoToken
  /\ HalfSessionsAreBeingCleared

LEMMA HalfInit == Init => HalfInv
  BY OneInit DEF Init, HalfInv, HalfSessionsAreBeingCleared

LEMMA HalfStep == HalfInv /\ [Next]_vars => HalfInv'
  <1> SUFFICES ASSUME HalfInv, [Next]_vars PROVE HalfInv'
    OBVIOUS
  <1> USE SessionAssumption
  <1>0. OneInv /\ OneInv' /\ TypeOK
    BY OneStep DEF HalfInv, OneInv
  <1>1. call \in [Calls -> [pc : CallSteps, token : Token \cup {NoToken}]] /\ restarts \in Nat /\ failures \in Nat
    BY <1>0 DEF TypeOK
  <1>2. ASSUME NEW c \in Calls, CallStep(c) PROVE HalfInv'
    <2> DEFINE Stays == UNCHANGED <<access, refresh, screen, restarts, failures>>
    <2>1. ASSUME NEW pc, NEW t, Goes(c, pc, t), Stays, call[c].pc \in Ending => pc \in Ending PROVE HalfInv'
      <3>1. \A e \in Calls : call[e].pc \in Ending => call'[e].pc \in Ending
        BY <1>1, <2>1 DEF Goes
      <3> QED
        BY <1>0, <2>1, <3>1 DEF HalfInv, HalfSessionsAreBeingCleared
    <2>2. CASE \/ CallSends(c) \/ CallAnswered(c) \/ CallFails(c) \/ CallRefused(c) \/ RefreshReads(c)
               \/ RefreshAnswered(c) \/ RefreshFails(c)
      <3>1. call[c].pc \notin Ending /\ Stays
        BY <2>2 DEF CallSends, CallAnswered, CallFails, CallRefused, RefreshReads, RefreshAnswered,
                    RefreshFails, OnlyCalls, storage, bounds, Ending
      <3>2. \E pc, t : Goes(c, pc, t)
        BY <2>2 DEF CallSends, CallAnswered, CallFails, CallRefused, RefreshReads, RefreshAnswered, RefreshFails
      <3> QED
        BY <2>1, <3>1, <3>2
    <2>3. CASE SavesExpiry(c) \/ Retry(c) \/ Clearing(c) \/ Revoked(c)
      <3>1. Stays
        BY <2>3 DEF SavesExpiry, Retry, Clearing, Revoked, OnlyCalls, storage, bounds
      <3>2. \E pc, t : Goes(c, pc, t) /\ pc \in Ending
        BY <2>3 DEF SavesExpiry, Retry, Clearing, Revoked, Ending
      <3> QED
        BY <2>1, <3>1, <3>2
    <2>4. CASE SavesAccess(c)
      <3>1. call'[c].pc \in Ending
        BY <1>1, <2>4 DEF SavesAccess, Goes, Ending
      <3>2. screen' = "operations"
        BY <2>4, <1>0 DEF SavesAccess, OneInv, ClosedMixed
      <3> QED
        BY <1>0, <3>1, <3>2 DEF HalfInv, HalfSessionsAreBeingCleared
    <2>5. CASE RevokeFails(c)
      <3>1. failures' # 0 /\ screen' = screen /\ access' = access /\ restarts' = restarts
        BY <1>1, <2>5 DEF RevokeFails, storage
      <3> QED
        BY <1>0, <3>1 DEF HalfInv, HalfSessionsAreBeingCleared
    <2>6. CASE Deletes(c)
      <3>1. access' = NoToken
        BY <2>6 DEF Deletes
      <3> QED
        BY <1>0, <3>1 DEF HalfInv, HalfSessionsAreBeingCleared
    <2> QED
      BY <1>2, <2>2, <2>3, <2>4, <2>5, <2>6 DEF CallStep
  <1>a. CASE TimePasses \/ UNCHANGED vars
    BY <1>a, <1>0 DEF TimePasses, vars, HalfInv, HalfSessionsAreBeingCleared, storage, bounds
  <1>b. CASE Splash
    BY <1>b, <1>0 DEF Splash, HalfInv, HalfSessionsAreBeingCleared, storage, bounds
  <1>c. CASE Restart
    <2>1. restarts' # 0
      BY <1>1, <1>c DEF Restart
    <2> QED
      BY <1>0, <2>1 DEF HalfInv, HalfSessionsAreBeingCleared
  <1>d. CASE (\E d \in Drivers : LoginAnswered(d)) \/ LoginWritesAccess \/ LoginWritesRefresh
    <2>1. screen' = "login"
      BY <1>d, <1>0 DEF LoginAnswered, LoginWritesAccess, LoginWritesRefresh, TypeOK
    <2> QED
      BY <1>0, <2>1 DEF HalfInv, HalfSessionsAreBeingCleared
  <1>e. CASE LoginWritesExpiry
    <2>1. refresh' # NoToken /\ screen' = "operations"
      BY <1>e, <1>0 DEF LoginWritesExpiry, OneInv, ClosedMixed, TypeOK
    <2> QED
      BY <1>0, <2>1 DEF HalfInv, HalfSessionsAreBeingCleared
  <1> QED
    BY <1>2, <1>a, <1>b, <1>c, <1>d, <1>e, NextSplits

(* Unless the app is killed or a revocation throws, an access token left
   without its refresh token is on its way to be cleared, for any number of
   calls (api_client.dart:19-34). *)
THEOREM HalfSessionsAreCleared == Spec => []HalfSessionsAreBeingCleared
  <1>1. HalfInv => HalfSessionsAreBeingCleared
    BY DEF HalfInv
  <1> QED
    BY HalfInit, HalfStep, <1>1, PTL DEF Spec
==============================================================================
