------------------------- MODULE DashboardSessionProofs -------------------------
(***************************************************************************)
(* Theorems about the session of the dashboard, for any number of calls at *)
(* the same time and any lives of the tokens.  They hold for Spec, so also *)
(* for FairSpec, which is Spec with fairness.                              *)
(***************************************************************************)
EXTENDS DashboardSession, TLAPS

\* Whoever is under way without a session has an excuse.
NoSessionExcuses == token = None => \A r \in Call : Under(r) => r \in excused

\* A call has an outcome when it is over.
OutcomeAtEnd == \A r \in Call : outcome[r] # None => pc[r] = "done"

\* After a logout that interrupts neither a renewal nor a login there is no session,
\* and nothing under way that could bring one back.
SignedOutHolds ==
  signedOut =>
    /\ token = None /\ refreshToken = None
    /\ \A r \in Call : pc[r] # "refresh" /\ ~(pc[r] = "fetch" /\ kind[r] = "login")

IInv ==
  TypeOK /\ NoSessionExcuses /\ OutcomeAtEnd /\ FailsForAReason /\ SignedOutHolds

--------------------------------------------------------------------------------

LEMMA InitIInv == Init => IInv
<1> SUFFICES ASSUME Init PROVE IInv
  OBVIOUS
<1>1. 0 \in Time
  BY SessionAssumption DEF Time
<1>2. token = refreshToken /\ token \in {0, None}
  BY DEF Init
<1>3. page \in {"/", "/login"} /\ failures \in 0..MaxFailures
  BY SessionAssumption DEF Init
<1>4. TypeOK
  BY <1>1, <1>2, <1>3 DEF Init, TypeOK
<1>5. \A r \in Call : pc[r] = "idle" /\ outcome[r] = None /\ kind[r] = None
  BY DEF Init
<1>6. FailsForAReason
  BY <1>5 DEF FailsForAReason
<1>7. NoSessionExcuses /\ OutcomeAtEnd
  BY <1>5 DEF NoSessionExcuses, OutcomeAtEnd, Under
<1>8. SignedOutHolds
  BY DEF Init, SignedOutHolds
<1> QED
  BY <1>4, <1>6, <1>7, <1>8 DEF IInv

LEMMA RequestKeeps ==
  ASSUME IInv, NEW r \in Call, NEW k \in Kind, Request(r, k)
  PROVE  IInv'
<1> USE DEF IInv, Request
<1>1. TypeOK'
  <2>1. signedOut' \in BOOLEAN
    <3>1. (signedOut /\ k # "login") \in BOOLEAN
      OBVIOUS
    <3>2. signedOut' = (signedOut /\ k # "login")
      OBVIOUS
    <3> QED
      BY ONLY <3>1, <3>2
  <2>2. excused' \subseteq Call
    BY DEF TypeOK
  <2>3. /\ kind' \in [Call -> Kind \cup {None}]
        /\ pc' \in [Call -> {"idle", "fetch", "refresh", "done"}]
        /\ bearer' \in [Call -> Time \cup {None}]
    BY DEF TypeOK
  <2> QED
    BY <2>1, <2>2, <2>3 DEF TypeOK, storageVars
<1>2. NoSessionExcuses'
  BY DEF TypeOK, NoSessionExcuses, Under, IsAuthenticated, storageVars
<1>3. OutcomeAtEnd'
  BY DEF TypeOK, OutcomeAtEnd
<1>4. FailsForAReason'
  BY SessionAssumption DEF TypeOK, OutcomeAtEnd, FailsForAReason
<1>5. SignedOutHolds'
  BY DEF TypeOK, SignedOutHolds, storageVars
<1> QED
  BY <1>1, <1>2, <1>3, <1>4, <1>5

LEMMA ReceiveDataKeeps ==
  ASSUME IInv, NEW r \in Call, ReceiveData(r)
  PROVE  IInv'
<1> USE DEF IInv, ReceiveData, Return, storageVars
<1>0. /\ token' \in Time \cup {None} /\ refreshToken' \in Time \cup {None}
      /\ token' = None <=> refreshToken' = None
      /\ token' = None => token = None
      /\ page' \in {"/", "/login"}
  BY SessionAssumption DEF TypeOK, SetTokens, Time
<1>1. TypeOK'
  BY <1>0 DEF TypeOK
<1>2. NoSessionExcuses'
  BY <1>0 DEF TypeOK, NoSessionExcuses, Under
<1>3. OutcomeAtEnd'
  BY DEF TypeOK, OutcomeAtEnd
<1>4. FailsForAReason'
  BY DEF TypeOK, FailsForAReason
<1>5. SignedOutHolds'
  BY DEF TypeOK, SignedOutHolds
<1> QED
  BY <1>1, <1>2, <1>3, <1>4, <1>5

LEMMA ReceiveUnauthorizedKeeps ==
  ASSUME IInv, NEW r \in Call, ReceiveUnauthorized(r)
  PROVE  IInv'
<1> USE DEF IInv, ReceiveUnauthorized, Return, storageVars
<1>1. TypeOK'
  BY DEF TypeOK
<1>2. NoSessionExcuses'
  BY DEF TypeOK, NoSessionExcuses, Under
<1>3. OutcomeAtEnd'
  BY DEF TypeOK, OutcomeAtEnd
<1>4. FailsForAReason'
  BY DEF TypeOK, NoSessionExcuses, Under, OutcomeAtEnd, FailsForAReason
<1>5. SignedOutHolds'
  BY DEF TypeOK, SignedOutHolds
<1> QED
  BY <1>1, <1>2, <1>3, <1>4, <1>5

LEMMA ReceiveErrorKeeps ==
  ASSUME IInv, NEW r \in Call, ReceiveError(r)
  PROVE  IInv'
<1> USE DEF IInv, ReceiveError, Return, Excuse, Under, storageVars
<1>0. failures' \in 0..MaxFailures
  BY SessionAssumption DEF TypeOK
<1>1. TypeOK'
  BY <1>0 DEF TypeOK
<1>2. NoSessionExcuses'
  BY DEF TypeOK, NoSessionExcuses
<1>3. OutcomeAtEnd'
  BY DEF TypeOK, OutcomeAtEnd
<1>4. FailsForAReason'
  BY DEF TypeOK, FailsForAReason
<1>5. SignedOutHolds'
  BY DEF TypeOK, SignedOutHolds
<1> QED
  BY <1>1, <1>2, <1>3, <1>4, <1>5

LEMMA RefreshTokensKeeps ==
  ASSUME IInv, NEW r \in Call, RefreshTokens(r)
  PROVE  IInv'
<1> USE DEF IInv, RefreshTokens, SetTokens, SendAgain
<1>0. token' \in Time /\ refreshToken' = token' /\ token' # None
  BY SessionAssumption DEF TypeOK, Time
<1>1. TypeOK'
  BY <1>0 DEF TypeOK
<1>2. NoSessionExcuses'
  BY <1>0 DEF NoSessionExcuses
<1>3. OutcomeAtEnd'
  BY DEF TypeOK, OutcomeAtEnd
<1>4. FailsForAReason'
  BY DEF FailsForAReason
<1>5. SignedOutHolds'
  BY DEF SignedOutHolds
<1> QED
  BY <1>1, <1>2, <1>3, <1>4, <1>5

LEMMA RefreshFailsKeeps ==
  ASSUME IInv, NEW r \in Call, RefreshFails(r)
  PROVE  IInv'
<1> USE DEF IInv, RefreshFails, ClearTokens, SendAgain, Excuse, Under
<1>0. failures' \in 0..MaxFailures
  BY SessionAssumption DEF TypeOK
<1>1. TypeOK'
  BY <1>0 DEF TypeOK
<1>2. NoSessionExcuses'
  BY DEF TypeOK, NoSessionExcuses
<1>3. OutcomeAtEnd'
  BY DEF TypeOK, OutcomeAtEnd
<1>4. FailsForAReason'
  BY DEF FailsForAReason
<1>5. SignedOutHolds'
  BY DEF SignedOutHolds
<1> QED
  BY <1>1, <1>2, <1>3, <1>4, <1>5

LEMMA LogoutKeeps ==
  ASSUME IInv, Logout
  PROVE  IInv'
BY DEF IInv, Logout, ClearTokens, Excuse, Under, callVars, TypeOK, NoSessionExcuses,
       OutcomeAtEnd, FailsForAReason, SignedOutHolds

LEMMA OthersKeep ==
  ASSUME IInv, Tick \/ UNCHANGED vars \/ \E p \in {"/", "/login"} : Navigate(p)
  PROVE  IInv'
<1>1. /\ UNCHANGED <<storageVars, failures, callVars, excused, signedOut>>
      /\ page' \in {"/", "/login"}
  BY DEF IInv, TypeOK, Tick, Navigate, vars
<1>2. now' \in Time
  BY SessionAssumption DEF IInv, TypeOK, Tick, Navigate, vars, Time
<1> QED
  BY <1>1, <1>2
     DEF IInv, storageVars, callVars, Under, TypeOK, NoSessionExcuses, OutcomeAtEnd,
         FailsForAReason, SignedOutHolds

LEMMA NextKeeps == IInv /\ [Next]_vars => IInv'
<1> SUFFICES ASSUME IInv, [Next]_vars PROVE IInv'
  OBVIOUS
<1>1. ASSUME NEW r \in Call, NEW k \in Kind, Request(r, k) PROVE IInv'
  BY <1>1, RequestKeeps
<1>2. ASSUME NEW r \in Call, Receive(r) PROVE IInv'
  BY <1>2, ReceiveDataKeeps, ReceiveUnauthorizedKeeps, ReceiveErrorKeeps,
     RefreshTokensKeeps, RefreshFailsKeeps DEF Receive
<1> QED
  BY <1>1, <1>2, LogoutKeeps, OthersKeep DEF Next

LEMMA AlwaysIInv == Spec => []IInv
BY InitIInv, NextKeeps, PTL DEF Spec

--------------------------------------------------------------------------------

\* The storage of the browser holds both tokens or none (lib/auth.ts), whichever
\* renewals, logins and logouts meet; and every variable has its type.
THEOREM SessionTypeCorrect == Spec => []TypeOK
<1>1. IInv => TypeOK
  BY DEF IInv
<1> QED
  BY <1>1, AlwaysIInv, PTL

\* A call of the ApiClient made in a session fails only when, while it was under way,
\* it or a renewal failed or the user logged out.
THEOREM FailuresHaveReasons == Spec => []FailsForAReason
<1>1. IInv => FailsForAReason
  BY DEF IInv
<1> QED
  BY <1>1, AlwaysIInv, PTL

\* After the logout page, with no renewal and no login under way, there is no session
\* until the next login.
THEOREM LoggedOutStaysOut == Spec => []LoggedOutStays
<1>1. IInv => LoggedOutStays
  BY DEF IInv, SignedOutHolds, LoggedOutStays, IsAuthenticated
<1> QED
  BY <1>1, AlwaysIInv, PTL

================================================================================
