---------------------------- MODULE MobileSession ----------------------------
(***************************************************************************)
(* The session of the driver app: the tokens a phone keeps in its secure   *)
(* storage, the login that writes them, the API calls that refresh or      *)
(* clear them (auth_service.dart, api_client.dart), the screen it opens    *)
(* on, and the tokens' life on the server (api/v1/auth.py).                *)
(*                                                                         *)
(* The storage has three keys and every one is read and written by an      *)
(* await of its own, so calls in flight interleave with each other between *)
(* any two of them, and the app may be killed there.                       *)
(***************************************************************************)
EXTENDS Integers

CONSTANTS
  Drivers,     \* accounts that log in on this phone
  NoToken,     \* a key of the storage that holds nothing
  Calls,       \* API calls in flight at once
  AccessLife,  \* life of an access token (900 s)
  RefreshLife, \* life of a refresh token (30 days)
  LastTick,    \* bound on the clock
  MaxRestarts, \* bound on how often the app is killed
  MaxFailures  \* bound on revocations that throw

Ticks == 1 .. LastTick
Token == [driver : Drivers, at : Ticks]

ASSUME SessionAssumption ==
  /\ NoToken \notin Token
  /\ AccessLife \in Nat \ {0}
  /\ RefreshLife \in Nat
  /\ LastTick \in Nat \ {0}
  /\ MaxRestarts \in Nat
  /\ MaxFailures \in Nat

VARIABLES
  now,       \* the clock
  revoked,   \* access tokens in the server's revocation cache
  access,    \* stored access token
  refresh,   \* stored refresh token
  expiresAt, \* stored end of the access token, 0 for none
  screen,    \* "splash", "login" or "operations"
  login,     \* the login in flight and the grant it was answered
  call,      \* the API calls in flight and the token each one works with
  restarts,  \* how often the app was killed
  failures   \* how many revocations threw

storage == <<access, refresh, expiresAt>>
bounds == <<restarts, failures>>
vars == <<now, revoked, storage, screen, login, call, bounds>>

Idle == [pc |-> "idle", token |-> NoToken]

Init ==
  /\ now = 1
  /\ revoked = {}
  /\ access = NoToken /\ refresh = NoToken /\ expiresAt = 0
  /\ screen = "splash"
  /\ login = Idle
  /\ call = [c \in Calls |-> Idle]
  /\ restarts = 0 /\ failures = 0

TimePasses ==
  /\ now < LastTick
  /\ now' = now + 1
  /\ UNCHANGED <<revoked, storage, screen, login, call, bounds>>
------------------------------------------------------------------------------
(* Opening the app and logging in.                                         *)

(* isAuthenticated looks at the access token and its end, at nothing else. *)
Splash ==
  /\ screen = "splash"
  /\ screen' = IF access # NoToken /\ now < expiresAt THEN "operations" ELSE "login"
  /\ UNCHANGED <<now, revoked, storage, login, call, bounds>>

(* A refused login changes nothing and the form stays open. *)
LoginAnswered(d) ==
  /\ screen = "login" /\ login.pc = "idle"
  /\ login' = [pc |-> "answered", token |-> [driver |-> d, at |-> now]]
  /\ UNCHANGED <<now, revoked, storage, screen, call, bounds>>

LoginWritesAccess_ExpiryToo ==
  /\ login.pc = "answered"
  /\ access' = login.token
  /\ expiresAt' = now + AccessLife
  /\ login' = [login EXCEPT !.pc = "accessWritten"]
  /\ UNCHANGED <<now, revoked, refresh, screen, call, bounds>>

LoginWritesAccess ==
  /\ login.pc = "answered"
  /\ access' = login.token
  /\ login' = [login EXCEPT !.pc = "accessWritten"]
  /\ UNCHANGED <<now, revoked, refresh, expiresAt, screen, call, bounds>>

LoginWritesRefresh ==
  /\ login.pc = "accessWritten"
  /\ refresh' = login.token
  /\ login' = [login EXCEPT !.pc = "refreshWritten"]
  /\ UNCHANGED <<now, revoked, access, expiresAt, screen, call, bounds>>

LoginWritesExpiry ==
  /\ login.pc = "refreshWritten"
  /\ expiresAt' = now + AccessLife
  /\ screen' = "operations"
  /\ login' = Idle
  /\ UNCHANGED <<now, revoked, access, refresh, call, bounds>>
------------------------------------------------------------------------------
(* An API call: send, and after a 401 refresh, retry and clear.            *)

Goes(c, pc, token) == call' = [call EXCEPT ![c] = [pc |-> pc, token |-> token]]
OnlyCalls == UNCHANGED <<now, revoked, storage, screen, login, bounds>>

Lives(token) == now < token.at + AccessLife

CallSends(c) ==
  /\ screen = "operations" /\ call[c].pc = "idle"
  /\ Goes(c, "sent", access)
  /\ OnlyCalls

(* The revocation cache is each server process's own: another process may
   still accept a revoked token. *)
CallAnswered(c) ==
  /\ call[c].pc = "sent"
  /\ call[c].token # NoToken
  /\ Lives(call[c].token)
  /\ Goes(c, "idle", NoToken)
  /\ OnlyCalls

(* No answer at all throws out of the call, before any refresh. *)
CallFails(c) ==
  /\ call[c].pc = "sent"
  /\ Goes(c, "idle", NoToken)
  /\ OnlyCalls

CallRefused(c) ==
  /\ call[c].pc = "sent"
  /\ call[c].token # NoToken => ~Lives(call[c].token) \/ call[c].token \in revoked
  /\ Goes(c, "refused", NoToken)
  /\ OnlyCalls

(* Without a refresh token the refresh throws and the session is cleared. *)
RefreshReads(c) ==
  /\ call[c].pc = "refused"
  /\ Goes(c, IF refresh = NoToken THEN "clearing" ELSE "refreshing", refresh)
  /\ OnlyCalls

RefreshAnswered(c) ==
  /\ call[c].pc = "refreshing"
  /\ now < call[c].token.at + RefreshLife
  /\ Goes(c, "saving", [driver |-> call[c].token.driver, at |-> now])
  /\ OnlyCalls

RefreshFails(c) ==
  /\ call[c].pc = "refreshing"
  /\ Goes(c, "clearing", NoToken)
  /\ OnlyCalls

SavesAccess(c) ==
  /\ call[c].pc = "saving"
  /\ access' = call[c].token
  /\ Goes(c, "dating", NoToken)
  /\ UNCHANGED <<now, revoked, refresh, expiresAt, screen, login, bounds>>

SavesExpiry(c) ==
  /\ call[c].pc = "dating"
  /\ expiresAt' = now + AccessLife
  /\ Goes(c, "retrying", NoToken)
  /\ UNCHANGED <<now, revoked, access, refresh, screen, login, bounds>>

Retry_Uncaught(c) ==
  /\ call[c].pc = "retrying"
  /\ Goes(c, "idle", NoToken)
  /\ OnlyCalls

(* The retry sends the request object that was sent before, which package
   http refuses with a StateError; no new token has the same outcome: the
   session is cleared. *)
Retry(c) ==
  /\ call[c].pc = "retrying"
  /\ Goes(c, "clearing", NoToken)
  /\ OnlyCalls

(* logout reads the access token stored by now, and revokes that one only. *)
Clearing(c) ==
  /\ call[c].pc = "clearing"
  /\ Goes(c, IF access = NoToken THEN "deleting" ELSE "revoking", access)
  /\ OnlyCalls

(* An expired token is refused a revocation, which logout does not look at. *)
Revoked(c) ==
  /\ call[c].pc = "revoking"
  /\ revoked' = revoked \cup {t \in {call[c].token} : Lives(t)}
  /\ Goes(c, "deleting", NoToken)
  /\ UNCHANGED <<now, storage, screen, login, bounds>>

(* A revocation without an answer throws before anything is deleted. *)
RevokeFails(c) ==
  /\ call[c].pc = "revoking"
  /\ failures < MaxFailures
  /\ failures' = failures + 1
  /\ Goes(c, "idle", NoToken)
  /\ UNCHANGED <<now, revoked, storage, screen, login, restarts>>

Deletes(c) ==
  /\ call[c].pc = "deleting"
  /\ access' = NoToken /\ refresh' = NoToken /\ expiresAt' = 0
  /\ Goes(c, "idle", NoToken)
  /\ UNCHANGED <<now, revoked, screen, login, bounds>>

(* The app is killed and opened again: only the storage is left. *)
Restart ==
  /\ restarts < MaxRestarts
  /\ restarts' = restarts + 1
  /\ screen' = "splash"
  /\ login' = Idle
  /\ call' = [c \in Calls |-> Idle]
  /\ UNCHANGED <<now, revoked, storage, failures>>

Next ==
  \/ TimePasses \/ Splash \/ Restart
  \/ \E d \in Drivers : LoginAnswered(d)
  \/ LoginWritesAccess \/ LoginWritesRefresh \/ LoginWritesExpiry
  \/ \E c \in Calls :
       \/ CallSends(c) \/ CallAnswered(c) \/ CallFails(c) \/ CallRefused(c)
       \/ RefreshReads(c) \/ RefreshAnswered(c) \/ RefreshFails(c)
       \/ SavesAccess(c) \/ SavesExpiry(c) \/ Retry(c)
       \/ Clearing(c) \/ Revoked(c) \/ RevokeFails(c) \/ Deletes(c)

Spec == Init /\ [][Next]_vars
------------------------------------------------------------------------------
LoginSteps == {"idle", "answered", "accessWritten", "refreshWritten"}
Ending == {"dating", "retrying", "clearing", "revoking", "deleting"}
CallSteps == {"idle", "sent", "refused", "refreshing", "saving"} \cup Ending
Holding == {"sent", "refreshing", "saving", "revoking"}

(* Storage, calls and login are well typed, and a step that works with a
   token has one. *)
TypeOK ==
  /\ now \in Ticks /\ revoked \subseteq Token
  /\ access \in Token \cup {NoToken} /\ refresh \in Token \cup {NoToken}
  /\ expiresAt \in 0 .. LastTick + AccessLife
  /\ screen \in {"splash", "login", "operations"}
  /\ login \in [pc : LoginSteps, token : Token \cup {NoToken}]
  /\ login.pc # "idle" => login.token # NoToken /\ screen = "login"
  /\ call \in [Calls -> [pc : CallSteps, token : Token \cup {NoToken}]]
  /\ \A c \in Calls :
       /\ call[c].pc \in {"refreshing", "saving", "revoking"} => call[c].token # NoToken
       /\ call[c].pc \notin Holding => call[c].token = NoToken
  /\ restarts \in 0 .. MaxRestarts /\ failures \in 0 .. MaxFailures

(* One account at a time: while the operations are on the screen, every token
   in the storage and in a call's hands is the same driver's, whichever
   writes of the keys were interrupted or overtaken before
   (auth_service.dart:36-41 and 53-70: the key that lets the app open is
   written last). *)
InHand == {access, refresh} \cup {call[c].token : c \in Calls}
OneDriverPerSession ==
  screen = "operations" =>
    \A t, u \in InHand \ {NoToken} : t.driver = u.driver

(* A refresh that overlaps another call's logout leaves an access token
   without a refresh token.  While the app was not killed and no revocation
   threw, some call is still on its way to clear it (api_client.dart:19-34). *)
HalfSessionsAreBeingCleared ==
  (/\ screen = "operations" /\ restarts = 0 /\ failures = 0
   /\ access # NoToken /\ refresh = NoToken)
    => \E c \in Calls : call[c].pc \in Ending
==============================================================================
