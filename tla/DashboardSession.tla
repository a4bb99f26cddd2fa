---------------------------- MODULE DashboardSession ----------------------------
(***************************************************************************)
(* The session of the dashboard: the two tokens in the local storage that  *)
(* its tabs share, the requests of the ApiClient, which renew an expired   *)
(* token and send themselves again, the login form, the logout page and    *)
(* the routes.                                                             *)
(*                                                                         *)
(* A token is the time it was issued at.  The server, which keeps no       *)
(* sessions, takes a token that is young enough.  Every task of the event  *)
(* loop is a step; a request is served when its answer is received.        *)
(*                                                                         *)
(* A definition X_Y, above X, is X with a bug in it: the properties at the *)
(* end of the module tell it from X.  Nothing else uses it.                *)
(***************************************************************************)
EXTENDS Naturals

CONSTANTS
  Call,         \* calls of an ApiClient in any tab, each made once
  AccessLife,   \* how long the server takes a token
  RefreshLife,  \* and a refresh token
  None,
  MaxTime,      \* bound on the time
  MaxFailures   \* bound on failures of the network or the server

VARIABLES
  token, refreshToken,  \* localStorage
  page,         \* the route: "/", "/login"
  now,
  failures,
  kind,         \* what each call asks: data of a page, or to log in
  pc,           \* "idle", "fetch" or "refresh" (awaiting either), "done"
  bearer,       \* the token in the headers of its request
  carried,      \* the refresh token it has sent
  outcome,      \* "data", or "error" when it throws
  excused,      \* calls during which something went wrong for the session
  signedOut     \* the user has logged out, with nothing under way to log in

storageVars == <<token, refreshToken>>
callVars == <<kind, pc, bearer, carried, outcome>>
vars == <<storageVars, page, now, failures, callVars, excused, signedOut>>

Time == 0..MaxTime
Kind == {"settings", "data", "login", "wrongLogin"}

ASSUME SessionAssumption ==
  /\ MaxTime \in Nat /\ MaxFailures \in Nat
  /\ AccessLife \in Nat /\ RefreshLife \in Nat
  /\ None \notin Nat /\ None \notin {"data", "error"}

\* Both tokens are there, whatever the server thinks of them.
IsAuthenticated == token # None /\ refreshToken # None

Live(t, life) == t # None /\ now - t < life

SetTokens(t) == token' = t /\ refreshToken' = t
ClearTokens == token' = None /\ refreshToken' = None

Under(r) == pc[r] \in {"fetch", "refresh"}
Excuse(calls) == excused' = excused \cup {r \in calls : Under(r)}

Init ==
  /\ \/ token = None /\ refreshToken = None
     \/ token = 0 /\ refreshToken = 0
  /\ page = IF token = None THEN "/login" ELSE "/"
  /\ now = 0
  /\ failures = 0
  /\ kind = [r \in Call |-> None]
  /\ pc = [r \in Call |-> "idle"]
  /\ bearer = [r \in Call |-> None]
  /\ carried = [r \in Call |-> None]
  /\ outcome = [r \in Call |-> None]
  /\ excused = {}
  /\ signedOut = FALSE

--------------------------------------------------------------------------------
(* Requests *)

\* The settings are only asked for when there are tokens, the data of a page also
\* without; the login form takes any password.
MayCall(k) ==
  CASE k = "settings" -> IsAuthenticated
    [] k = "data" -> page = "/"
    [] k \in {"login", "wrongLogin"} -> page = "/login"

Request(r, k) ==
  /\ pc[r] = "idle"
  /\ MayCall(k)
  /\ kind' = [kind EXCEPT ![r] = k]
  /\ pc' = [pc EXCEPT ![r] = "fetch"]
  /\ bearer' = [bearer EXCEPT ![r] = token]
  /\ excused' = IF IsAuthenticated THEN excused ELSE excused \cup {r}
  /\ signedOut' = (signedOut /\ k # "login")
  /\ UNCHANGED <<storageVars, page, now, failures, carried, outcome>>

\* The server looks at the token, or at the password.
Accepted(r) ==
  CASE kind[r] = "login" -> TRUE
    [] kind[r] = "wrongLogin" -> FALSE
    [] OTHER -> Live(bearer[r], AccessLife)

Return(r, what) ==
  /\ pc' = [pc EXCEPT ![r] = "done"]
  /\ outcome' = [outcome EXCEPT ![r] = what]
  /\ UNCHANGED <<kind, bearer, carried>>

\* The answer to a login holds new tokens, and leads to the first page.
ReceiveData(r) ==
  /\ pc[r] = "fetch"
  /\ Accepted(r)
  /\ Return(r, "data")
  /\ IF kind[r] = "login"
     THEN SetTokens(now) /\ page' = "/"
     ELSE UNCHANGED <<storageVars, page>>
  /\ UNCHANGED <<now, failures, excused, signedOut>>

ReceiveUnauthorized_OwnToken(r) ==
  /\ pc[r] = "fetch"
  /\ ~Accepted(r)
  /\ IF refreshToken # None /\ bearer[r] = token
     THEN /\ pc' = [pc EXCEPT ![r] = "refresh"]
          /\ carried' = [carried EXCEPT ![r] = refreshToken]
          /\ UNCHANGED <<kind, bearer, outcome>>
     ELSE Return(r, "error")
  /\ UNCHANGED <<storageVars, page, now, failures, excused, signedOut>>

\* A 401 is followed by a renewal when there is a refresh token by then.
ReceiveUnauthorized(r) ==
  /\ pc[r] = "fetch"
  /\ ~Accepted(r)
  /\ IF refreshToken # None
     THEN /\ pc' = [pc EXCEPT ![r] = "refresh"]
          /\ carried' = [carried EXCEPT ![r] = refreshToken]
          /\ UNCHANGED <<kind, bearer, outcome>>
     ELSE Return(r, "error")
  /\ UNCHANGED <<storageVars, page, now, failures, excused, signedOut>>

\* No answer, or one with an error other than 401.
ReceiveError(r) ==
  /\ pc[r] = "fetch"
  /\ failures < MaxFailures
  /\ failures' = failures + 1
  /\ Return(r, "error")
  /\ Excuse({r})
  /\ UNCHANGED <<storageVars, page, now, signedOut>>

SendAgain(r) ==
  /\ pc' = [pc EXCEPT ![r] = "fetch"]
  /\ bearer' = [bearer EXCEPT ![r] = token']
  /\ UNCHANGED <<kind, carried, outcome>>

RefreshTokens_OtherKey(r) ==
  /\ pc[r] = "refresh"
  /\ Live(carried[r], RefreshLife)
  /\ token' = token /\ refreshToken' = now
  /\ SendAgain(r)
  /\ UNCHANGED <<page, now, failures, excused, signedOut>>

\* The access token is stored a second time, as "accessToken", a key that nothing reads
\* and that logging out leaves behind: it is no part of the state.
RefreshTokens(r) ==
  /\ pc[r] = "refresh"
  /\ Live(carried[r], RefreshLife)
  /\ SetTokens(now)
  /\ SendAgain(r)
  /\ UNCHANGED <<page, now, failures, excused, signedOut>>

RefreshFails_OneToken(r) ==
  /\ pc[r] = "refresh"
  /\ ~Live(carried[r], RefreshLife)
  /\ token' = None /\ UNCHANGED refreshToken
  /\ SendAgain(r)
  /\ Excuse(Call)
  /\ UNCHANGED <<page, now, failures, signedOut>>

\* Whatever is wrong with the renewal, the tokens are dropped and the request is
\* sent again without.  The route stays: nothing renders.
RefreshFails(r) ==
  /\ pc[r] = "refresh"
  /\ \/ ~Live(carried[r], RefreshLife) /\ UNCHANGED failures
     \/ failures < MaxFailures /\ failures' = failures + 1
  /\ ClearTokens
  /\ SendAgain(r)
  /\ Excuse(Call)
  /\ UNCHANGED <<page, now, signedOut>>

--------------------------------------------------------------------------------
(* Routes *)

Logout_AccessOnly ==
  /\ page # "/login"
  /\ token' = None /\ UNCHANGED refreshToken
  /\ page' = "/login"
  /\ Excuse(Call)
  /\ signedOut' = \A r \in Call :
       pc[r] # "refresh" /\ ~(pc[r] = "fetch" /\ kind[r] = "login")
  /\ UNCHANGED <<now, failures, callVars>>

\* The logout page: requests under way go on.
Logout ==
  /\ page # "/login"
  /\ ClearTokens
  /\ page' = "/login"
  /\ Excuse(Call)
  /\ signedOut' = \A r \in Call :
       pc[r] # "refresh" /\ ~(pc[r] = "fetch" /\ kind[r] = "login")
  /\ UNCHANGED <<now, failures, callVars>>

\* App looks for the tokens when a navigation makes it render.
Navigate(p) ==
  /\ page' = IF IsAuthenticated THEN p ELSE "/login"
  /\ page' # page
  /\ UNCHANGED <<storageVars, now, failures, callVars, excused, signedOut>>

Tick ==
  /\ now < MaxTime
  /\ now' = now + 1
  /\ UNCHANGED <<storageVars, page, failures, callVars, excused, signedOut>>

--------------------------------------------------------------------------------

Receive(r) ==
  \/ ReceiveData(r) \/ ReceiveUnauthorized(r) \/ ReceiveError(r)
  \/ RefreshTokens(r) \/ RefreshFails(r)

Next ==
  \/ \E r \in Call : (\E k \in Kind : Request(r, k)) \/ Receive(r)
  \/ Logout
  \/ \E p \in {"/", "/login"} : Navigate(p)
  \/ Tick

Spec == Init /\ [][Next]_vars

\* Requests are answered, or time out.
FairSpec == Spec /\ \A r \in Call : WF_vars(Receive(r))

--------------------------------------------------------------------------------
(* Properties *)

TypeOK ==
  /\ token \in Time \cup {None} /\ refreshToken \in Time \cup {None}
  /\ token = None <=> refreshToken = None
  /\ page \in {"/", "/login"}
  /\ now \in Time
  /\ failures \in 0..MaxFailures
  /\ kind \in [Call -> Kind \cup {None}]
  /\ pc \in [Call -> {"idle", "fetch", "refresh", "done"}]
  /\ bearer \in [Call -> Time \cup {None}]
  /\ carried \in [Call -> Time \cup {None}]
  /\ outcome \in [Call -> {None, "data", "error"}]
  /\ excused \subseteq Call
  /\ signedOut \in BOOLEAN

\* Renewals at the same time do not harm each other's requests: one that was made
\* in a session fails only when, while it was under way, it or a renewal failed or
\* the user logged out.
FailsForAReason ==
  \A r \in Call : outcome[r] = "error" /\ kind[r] \in {"settings", "data"} => r \in excused

\* Who has logged out, with no renewal under way, stays so until the next login,
\* whatever the requests of the session he has left still do.
LoggedOutStays == signedOut => ~IsAuthenticated /\ refreshToken = None

\* A request that is sent again with every new token is answered in the end.
EventuallyAnswered ==
  \A r \in Call : Under(r) /\ kind[r] # "wrongLogin" ~> pc[r] = "done"

================================================================================
