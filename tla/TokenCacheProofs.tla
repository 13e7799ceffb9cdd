-------------------------- MODULE TokenCacheProofs --------------------------
(***************************************************************************)
(* Theorems about TokenCache for every set of threads, instances and       *)
(* tokens, every assignment of credentials and every length of a token's   *)
(* life: no bound of the runs is assumed.  In order: types, one retry at   *)
(* most, CloudCall implemented, no token outside its credential, and no    *)
(* rejected token back where no two threads share an instance.             *)
(***************************************************************************)
EXTENDS TokenCache, TLAPS

-----------------------------------------------------------------------------
(* Types. *)

\* An entry that is built or copied is an entry.
LEMMA EntryFacts ==
    /\ NoEntry \in Entry
    /\ \A tok \in Tokens \cup {NoToken}, n \in Nat :
            [token |-> tok, expires |-> n] \in Entry
    /\ \A e \in Entry : e.token \in Tokens \cup {NoToken}
BY DEF Entry, NoEntry

\* max(n - m, 0) is a natural number.
LEMMA Max0Nat == ASSUME NEW n \in Nat, NEW m \in Nat PROVE Max0(n, m) \in Nat
BY DEF Max0

\* The key of a thread's instance is one of the cache's keys, its credential
\* one of the credentials in use.
LEMMA KeyFacts ==
    ASSUME NEW t \in Threads
    PROVE /\ Instance[t] \in Clients
          /\ Credential[Instance[t]] \in Creds
          /\ Key(t) \in Keys
BY TokenCacheAssumption DEF Key, Keys, Creds

\* Ending a call, going on within it and returning from authenticate() keep
\* the types of a call's variables.
LEMMA EndType ==
    ASSUME CallTypeOK, NEW t \in Threads, NEW how \in {"ok", "error"}, End(t, how)
    PROVE CallTypeOK'
BY DEF End, CallTypeOK, Control

LEMMA GoToType ==
    ASSUME CallTypeOK, NEW t \in Threads, NEW s \in Control, GoTo(t, s)
    PROVE CallTypeOK'
BY DEF GoTo, CallTypeOK, Control, locals

LEMMA AuthenticatedType ==
    ASSUME CallTypeOK, NEW t \in Threads, Authenticated(t)
    PROVE CallTypeOK'
<1>1. CASE call[t] = "AUTH"
  BY <1>1, EndType DEF Authenticated
<1>2. CASE call[t] # "AUTH"
  BY <1>2, GoToType DEF Authenticated, Control
<1> QED BY <1>1, <1>2

\* Init establishes the types.
LEMMA InitType == Init => TypeOK
BY EntryFacts DEF Init, TypeOK, CallTypeOK, HistoryTypeOK, Control

\* Every step keeps them.
LEMMA NextType == TypeOK /\ [Next]_vars => TypeOK'
<1> SUFFICES ASSUME TypeOK, [Next]_vars PROVE TypeOK'
  OBVIOUS
<1> USE TokenCacheAssumption DEF TypeOK
<1>1. ASSUME NEW t \in Threads, Start(t) PROVE TypeOK'
  <2>1. CASE StartRequest(t)
    BY <2>1 DEF StartRequest, CallTypeOK, HistoryTypeOK, Control, Calls, server
  <2>2. CASE StartAuthenticate(t)
    BY <2>2 DEF StartAuthenticate, CallTypeOK, HistoryTypeOK, Control, Calls,
                server, locals, history
  <2>3. CASE Invalidate(t)
    BY <2>3, EntryFacts DEF Invalidate, CallTypeOK, HistoryTypeOK, Control, Calls,
                server, locals, history
  <2> QED BY <1>1, <2>1, <2>2, <2>3 DEF Start
<1>2. ASSUME NEW t \in Threads, Step(t) PROVE TypeOK'
  <2> USE KeyFacts
  <2>1. CASE PopCached(t)
    BY <2>1, EndType, EntryFacts DEF PopCached, server, history, HistoryTypeOK
  <2>2. CASE EnsureAuth(t)
    <3>1. CallTypeOK'
      BY <2>2, EndType, GoToType DEF EnsureAuth, Control
    <3> QED BY <2>2, <3>1 DEF EnsureAuth, server, history, HistoryTypeOK
  <2>3. CASE Authenticate(t)
    <3>1. CallTypeOK'
      BY <2>3, AuthenticatedType, GoToType DEF Authenticate, Control
    <3> QED BY <2>3, <3>1 DEF Authenticate, server, history, HistoryTypeOK
  <2>4. CASE Lookup(t)
    <3>1. CallTypeOK'
      BY <2>4, AuthenticatedType, GoToType DEF Lookup, Control
    <3> QED BY <2>4, <3>1 DEF Lookup, server, history, HistoryTypeOK
  <2>5. CASE FetchFails(t)
    BY <2>5, EndType DEF FetchFails, server, history, HistoryTypeOK
  <2>6. CASE FetchMints(t)
    BY <2>6 DEF FetchMints, CallTypeOK, HistoryTypeOK, Control, history
  <2>7. CASE Store(t)
    <3>1. CallTypeOK'
      BY <2>7, GoToType DEF Store, Control
    <3>2. held' \in [Clients -> Entry]
      <4>1. PICK ttl \in Ttls : held' = [held EXCEPT ![Instance[t]] =
                    [token |-> minted[t],
                     expires |-> now + Max0(ttl, ExpiryBuffer)]]
        BY <2>7 DEF Store
      <4>2. now + Max0(ttl, ExpiryBuffer) \in Nat
        <5>1. ttl \in Nat /\ ExpiryBuffer \in Nat
          OBVIOUS
        <5>2. Max0(ttl, ExpiryBuffer) \in Nat
          BY <5>1, Max0Nat
        <5> QED BY <5>2
      <4>3. minted[t] \in Tokens \cup {NoToken}
        BY DEF CallTypeOK
      <4>4. [token |-> minted[t], expires |-> now + Max0(ttl, ExpiryBuffer)] \in Entry
        BY <4>2, <4>3, EntryFacts
      <4> QED BY <4>1, <4>4
    <3> QED BY <2>7, <3>1, <3>2 DEF Store, server, history, HistoryTypeOK
  <2>8. CASE Publish(t)
    <3>1. CallTypeOK'
      BY <2>8, AuthenticatedType DEF Publish
    <3> QED BY <2>8, <3>1 DEF Publish, server, history, HistoryTypeOK
  <2>9. CASE Capture(t)
    <3>1. CASE Overdue(t)
      BY <2>9, <3>1, EndType DEF Capture, server, history, HistoryTypeOK
    <3>2. CASE ~Overdue(t)
      <4>1. held[Instance[t]].token \in Tokens \cup {NoToken}
        BY EntryFacts
      <4>2. CallTypeOK'
        BY <2>9, <3>2, <4>1 DEF Capture, CallTypeOK, Control
      <4> QED BY <2>9, <4>2 DEF Capture, server, history, HistoryTypeOK
    <3> QED BY <3>1, <3>2
  <2>10. CASE Send(t)
    BY <2>10, EntryFacts DEF Send, CallTypeOK, Control, server, HistoryTypeOK
  <2>11. CASE CloudAnswers(t)
    BY <2>11 DEF CloudAnswers, Answered, CarryOut, CallTypeOK, Control, server,
       HistoryTypeOK
  <2>12. CASE CloudRejects(t)
    BY <2>12 DEF CloudRejects, Answered, CallTypeOK, Control, server,
       HistoryTypeOK
  <2>13. CASE ExchangeFails(t)
    <3>1. CallTypeOK'
      BY <2>13, EndType DEF ExchangeFails
    <3>2. carried' \in [Threads -> Nat]
      BY <2>13 DEF ExchangeFails, CarryOut, HistoryTypeOK
    <3> QED BY <2>13, <3>1, <3>2 DEF ExchangeFails, server, HistoryTypeOK
  <2>14. CASE HandleAnswer(t)
    <3>1. CallTypeOK'
      BY <2>14, EndType, GoToType DEF HandleAnswer, Control
    <3> QED BY <2>14, <3>1 DEF HandleAnswer, server, history, HistoryTypeOK
  <2>15. CASE DropHeld(t)
    <3>1. CallTypeOK'
      BY <2>15, GoToType DEF DropHeld, Control
    <3> QED BY <2>15, <3>1, EntryFacts DEF DropHeld, server, history, HistoryTypeOK
  <2>16. CASE DropCached(t)
    <3>1. CallTypeOK'
      <4>1. CASE MayRetry(t)
        BY <2>16, <4>1 DEF DropCached, CallTypeOK, Control
      <4>2. CASE ~MayRetry(t)
        BY <2>16, <4>2, EndType DEF DropCached
      <4> QED BY <4>1, <4>2
    <3>2. cache' \in [Keys -> Entry]
      BY <2>16, EntryFacts DEF DropCached
    <3>3. HistoryTypeOK'
      BY <2>16 DEF DropCached, HistoryTypeOK, CallTypeOK
    <3> QED BY <2>16, <3>1, <3>2, <3>3 DEF DropCached, server
  <2> QED BY <1>2, <2>1, <2>2, <2>3, <2>4, <2>5, <2>6, <2>7, <2>8, <2>9, <2>10,
             <2>11, <2>12, <2>13, <2>14, <2>15, <2>16 DEF Step
<1>3. ASSUME NEW tok \in Tokens, ServerExpires(tok) PROVE TypeOK'
  BY <1>3 DEF ServerExpires, CallTypeOK, HistoryTypeOK, locals, history
<1>4. CASE ClearTokenCache
  BY <1>4, EntryFacts DEF ClearTokenCache, CallTypeOK, HistoryTypeOK, server,
     locals, history
<1>5. CASE Tick
  BY <1>5 DEF Tick, CallTypeOK, HistoryTypeOK, server, locals, history
<1>6. CASE UNCHANGED vars
  BY <1>6 DEF vars, CallTypeOK, HistoryTypeOK, server, locals, history
<1> QED BY <1>1, <1>2, <1>3, <1>4, <1>5, <1>6 DEF Next

\* Every reachable state of TokenCache is well typed; in particular the
\* lifetime of an entry is never negative, however short the token's life
\* (client.py 249-250).
THEOREM TypeCorrect == Spec => []TypeOK
BY InitType, NextType, PTL DEF Spec
-----------------------------------------------------------------------------
(* At most two requests per call, at most one execution. *)

CallInv == ControlInv /\ SendInv /\ CarriedInv

LEMMA InitCall == Init => CallInv
BY DEF Init, CallInv, ControlInv, SendInv, CarriedInv, InRequest, InAuth,
       Requests

\* Every step preserves the agreement of a call's control state with what it
\* sent and what the cloud carried out.
LEMMA NextCall == TypeOK /\ CallInv /\ [Next]_vars => CallInv'
<1> SUFFICES ASSUME TypeOK, CallInv, [Next]_vars PROVE CallInv'
  OBVIOUS
<1> USE DEF CallInv, ControlInv, SendInv, CarriedInv, Requests,
        TypeOK, CallTypeOK, HistoryTypeOK
<1>1. ASSUME NEW t \in Threads, Start(t) PROVE CallInv'
  <2>1. CASE StartRequest(t)
    BY <2>1 DEF StartRequest, At, InRequest, InAuth, Outstanding
  <2>2. CASE StartAuthenticate(t)
    BY <2>2 DEF StartAuthenticate, At, InRequest, InAuth, Outstanding, locals,
                history
  <2>3. CASE Invalidate(t)
    BY <2>3 DEF Invalidate, At, InRequest, InAuth, Outstanding, locals, history
  <2> QED BY <1>1, <2>1, <2>2, <2>3 DEF Start
<1>2. ASSUME NEW t \in Threads, Step(t) PROVE CallInv'
  <2> USE DEF At, End, GoTo, Authenticated, InRequest, InAuth, Outstanding,
          locals, history
  <2>1. CASE PopCached(t)
    BY <2>1 DEF PopCached
  <2>2. CASE EnsureAuth(t)
    BY SMTT(30), <2>2 DEF EnsureAuth
  <2>3. CASE Authenticate(t)
    BY <2>3 DEF Authenticate
  <2>4. CASE Lookup(t)
    BY <2>4 DEF Lookup
  <2>5. CASE FetchFails(t)
    BY <2>5 DEF FetchFails
  <2>6. CASE FetchMints(t)
    BY <2>6 DEF FetchMints
  <2>7. CASE Store(t)
    BY <2>7 DEF Store
  <2>8. CASE Publish(t)
    BY <2>8 DEF Publish
  <2>9. CASE Capture(t)
    <3>1. CASE Overdue(t)
      BY <2>9, <3>1 DEF Capture
    <3>2. CASE ~Overdue(t)
      BY <2>9, <3>2 DEF Capture
    <3> QED BY <3>1, <3>2
  <2>10. CASE Send(t)
    BY <2>10 DEF Send
  <2>11. CASE CloudAnswers(t)
    BY <2>11 DEF CloudAnswers, Answered, CarryOut
  <2>12. CASE CloudRejects(t)
    BY <2>12 DEF CloudRejects, Answered
  <2>13. CASE ExchangeFails(t)
    BY <2>13 DEF ExchangeFails, CarryOut
  <2>14. CASE HandleAnswer(t)
    BY <2>14 DEF HandleAnswer
  <2>15. CASE DropHeld(t)
    BY <2>15 DEF DropHeld
  <2>16. CASE DropCached(t)
    BY <2>16 DEF DropCached, MayRetry
  <2> QED BY <1>2, <2>1, <2>2, <2>3, <2>4, <2>5, <2>6, <2>7, <2>8, <2>9, <2>10,
             <2>11, <2>12, <2>13, <2>14, <2>15, <2>16 DEF Step
<1>3. ASSUME NEW tok \in Tokens, ServerExpires(tok) PROVE CallInv'
  BY <1>3 DEF ServerExpires, locals, history
<1>4. CASE ClearTokenCache
  BY <1>4 DEF ClearTokenCache, locals, history
<1>5. CASE Tick
  BY <1>5 DEF Tick, locals, history
<1>6. CASE UNCHANGED vars
  BY <1>6 DEF vars, locals, history
<1> QED BY <1>1, <1>2, <1>3, <1>4, <1>5, <1>6 DEF Next

\* A write is sent at most once and a read at most twice ("writes are never
\* replayed", client.py 38-41), whatever expires, fails or runs beside it.
THEOREM WritesNeverReplayed == Spec => []NeverReplayed
<1>1. TypeOK /\ CallInv => NeverReplayed
  <2> SUFFICES ASSUME CallInv, NEW t \in Threads
               PROVE /\ call[t] = "WRITE" => sends[t] <= 1
                     /\ call[t] = "GET" => sends[t] <= 2
    BY DEF NeverReplayed
  <2> USE DEF CallInv, ControlInv, SendInv, Requests
  <2>1. CASE again[t]
    BY <2>1
  <2>2. CASE ~again[t]
    BY <2>2
  <2> QED BY <2>1, <2>2
<1>2. Spec => [](TypeOK /\ CallInv)
  BY InitType, NextType, InitCall, NextCall, PTL DEF Spec
<1> QED BY <1>1, <1>2, PTL
-----------------------------------------------------------------------------
(* TokenCache implements CloudCall. *)

Status == [t \in Threads |-> IF call[t] \in Requests THEN "open" ELSE "closed"]

\* Kinds of call that are no requests.
LEMMA RequestKinds ==
    "none" \notin Requests /\ "AUTH" \notin Requests /\ "INVALIDATE" \notin Requests
BY DEF Requests

\* A call that starts or ends changes which calls are in progress at its own
\* thread only; any other step leaves them alone.
LEMMA ProgressStep ==
    ASSUME CallTypeOK, NEW t \in Threads, NEW m, call' = [call EXCEPT ![t] = m]
    PROVE /\ m \in Requests => Status' = [Status EXCEPT ![t] = "open"]
          /\ m \notin Requests => Status' = [Status EXCEPT ![t] = "closed"]
          /\ m \notin Requests /\ call[t] \notin Requests => Status' = Status
<1>1. call \in [Threads -> Calls \cup {"none"}]
  BY DEF CallTypeOK
<1>2. \A u \in Threads : call'[u] = IF u = t THEN m ELSE call[u]
  BY <1>1
<1> QED BY <1>2 DEF Status

LEMMA ProgressSame == call' = call => Status' = Status
BY DEF Status

\* A request that ends in an error raises; what the cloud did stays done.
LEMMA EndRaises ==
    ASSUME CallTypeOK, NEW t \in Threads, call[t] \in Requests, End(t, "error"),
           \/ carried' = carried
           \/ carried[t] = 0 /\ carried' = [carried EXCEPT ![t] = 1]
    PROVE Promise!Raise(t)
<1>1. Status' = [Status EXCEPT ![t] = "closed"]
  BY ProgressStep, RequestKinds DEF End
<1>2. Status[t] = "open"
  BY DEF Status
<1> QED BY <1>1, <1>2 DEF End, Promise!Raise, Status

\* A call that is no request ends without a trace.
LEMMA EndSilent ==
    ASSUME CallTypeOK, NEW t \in Threads, NEW how, call[t] \notin Requests,
           End(t, how), carried' = carried
    PROVE UNCHANGED Promise!callVars
<1>1. Status' = Status
  BY ProgressStep, RequestKinds DEF End
<1> QED BY <1>1 DEF End, Promise!callVars, Status

\* Going on within a call is invisible.
LEMMA GoToSilent ==
    ASSUME NEW t \in Threads, NEW s, GoTo(t, s), carried' = carried
    PROVE UNCHANGED Promise!callVars
BY ProgressSame DEF GoTo, Promise!callVars, Status

\* The end of a call in an error, whatever the call was.
LEMMA EndStep ==
    ASSUME CallTypeOK, NEW t \in Threads, End(t, "error"), carried' = carried
    PROVE [Promise!CallNext]_(Promise!callVars)
<1>1. CASE call[t] \in Requests
  BY <1>1, EndRaises DEF Promise!CallNext
<1>2. CASE call[t] \notin Requests
  BY <1>2, EndSilent
<1> QED BY <1>1, <1>2

\* authenticate() returns.
LEMMA AuthenticatedSilent ==
    ASSUME CallTypeOK, NEW t \in Threads, Authenticated(t), carried' = carried
    PROVE UNCHANGED Promise!callVars
<1>1. CASE call[t] = "AUTH"
  BY <1>1, EndSilent DEF Authenticated, Requests
<1>2. CASE call[t] # "AUTH"
  BY <1>2, GoToSilent DEF Authenticated
<1> QED BY <1>1, <1>2

LEMMA InitPromise == Init => Promise!CallInit
BY RequestKinds DEF Init, Promise!CallInit

\* Every step of the request path is a step of CloudCall or invisible to it.
LEMMA NextPromise ==
    TypeOK /\ CallInv /\ [Next]_vars => [Promise!CallNext]_(Promise!callVars)
<1> SUFFICES ASSUME TypeOK, CallInv, [Next]_vars
             PROVE [Promise!CallNext]_(Promise!callVars)
  OBVIOUS
<1>0. CallTypeOK
  BY DEF TypeOK
<1>1. ASSUME NEW t \in Threads, Start(t)
      PROVE [Promise!CallNext]_(Promise!callVars)
  <2>0. pc[t] = "idle" => call[t] \notin Requests
    BY DEF CallInv, ControlInv, Requests
  <2>1. CASE StartRequest(t)
    <3>1. PICK m \in Requests : call' = [call EXCEPT ![t] = m]
      BY <2>1 DEF StartRequest
    <3>2. Status' = [Status EXCEPT ![t] = "open"]
      BY <1>0, <3>1, ProgressStep
    <3>3. Status[t] = "closed"
      BY <2>0, <2>1 DEF Status, StartRequest, At
    <3>4. Promise!Open(t)
      BY <2>1, <3>2, <3>3 DEF StartRequest, Promise!Open, Status
    <3> QED BY <3>4 DEF Promise!CallNext
  <2>2. CASE StartAuthenticate(t)
    <3>1. Status' = Status
      BY <1>0, <2>0, <2>2, ProgressStep, RequestKinds DEF StartAuthenticate, At
    <3> QED BY <2>2, <3>1 DEF StartAuthenticate, history, Promise!callVars, Status
  <2>3. CASE Invalidate(t)
    <3>1. Status' = Status
      BY <1>0, <2>0, <2>3, ProgressStep, RequestKinds DEF Invalidate, At
    <3> QED BY <2>3, <3>1 DEF Invalidate, history, Promise!callVars, Status
  <2> QED BY <1>1, <2>1, <2>2, <2>3 DEF Start
<1>2. ASSUME NEW t \in Threads, Step(t)
      PROVE [Promise!CallNext]_(Promise!callVars)
  <2>1. CASE PopCached(t)
    <3>1. call[t] \notin Requests
      BY <2>1, RequestKinds DEF PopCached, At, CallInv, ControlInv
    <3> QED BY <1>0, <2>1, <3>1, EndSilent DEF PopCached, history
  <2>2. CASE EnsureAuth(t)
    BY <1>0, <2>2, EndStep, GoToSilent DEF EnsureAuth, history
  <2>3. CASE Authenticate(t)
    BY <1>0, <2>3, AuthenticatedSilent, GoToSilent DEF Authenticate, history
  <2>4. CASE Lookup(t)
    BY <1>0, <2>4, AuthenticatedSilent, GoToSilent DEF Lookup, history
  <2>5. CASE FetchFails(t)
    BY <1>0, <2>5, EndStep DEF FetchFails, history
  <2>6. CASE FetchMints(t)
    BY <2>6, ProgressSame DEF FetchMints, history, Promise!callVars, Status
  <2>7. CASE Store(t)
    BY <2>7, GoToSilent DEF Store, history
  <2>8. CASE Publish(t)
    BY <1>0, <2>8, AuthenticatedSilent DEF Publish, history
  <2>9. CASE Capture(t)
    <3>1. CASE Overdue(t)
      BY <1>0, <2>9, <3>1, EndStep DEF Capture, history
    <3>2. CASE ~Overdue(t)
      BY <2>9, <3>2, ProgressSame DEF Capture, history, Promise!callVars, Status
    <3> QED BY <3>1, <3>2
  <2>10. CASE Send(t)
    BY <2>10, ProgressSame DEF Send, Promise!callVars, Status
  <2>11. CASE CloudAnswers(t)
    <3>1. call[t] \in Requests /\ carried[t] = 0
      BY <2>11 DEF CloudAnswers, At, CallInv, ControlInv, CarriedInv, InRequest
    <3>2. Status' = Status /\ Status[t] = "open"
      BY <2>11, <3>1, ProgressSame DEF CloudAnswers, Answered, Status
    <3>3. CASE CarryOut(t) /\ Answered(t, "ok")
      <4>1. Promise!CarryOut(t)
        BY <3>1, <3>2, <3>3 DEF CarryOut, Answered, Promise!CarryOut, Status
      <4> QED BY <4>1 DEF Promise!CallNext
    <3>4. CASE UNCHANGED carried /\ Answered(t, "refused")
      BY <3>2, <3>4 DEF Answered, Promise!callVars, Status
    <3> QED BY <2>11, <3>3, <3>4 DEF CloudAnswers
  <2>12. CASE CloudRejects(t)
    BY <2>12, ProgressSame DEF CloudRejects, Answered, Promise!callVars, Status
  <2>13. CASE ExchangeFails(t)
    <3>1. call[t] \in Requests /\ carried[t] = 0
      BY <2>13 DEF ExchangeFails, At, CallInv, ControlInv, CarriedInv, InRequest
    <3>2. carried' = carried \/ carried' = [carried EXCEPT ![t] = 1]
      BY <2>13, <3>1 DEF ExchangeFails, CarryOut
    <3>3. Promise!Raise(t)
      BY <1>0, <2>13, <3>1, <3>2, EndRaises DEF ExchangeFails
    <3> QED BY <3>3 DEF Promise!CallNext
  <2>14. CASE HandleAnswer(t)
    <3>1. CASE End(t, "error") \/ GoTo(t, "dropHeld")
      BY <1>0, <2>14, <3>1, EndStep, GoToSilent DEF HandleAnswer, history
    <3>2. CASE answer[t] = "ok" /\ End(t, "ok")
      <4>1. call[t] \in Requests /\ carried[t] = 1
        BY <2>14, <3>2 DEF HandleAnswer, At, CallInv, ControlInv, CarriedInv, InRequest
      <4>2. Status' = [Status EXCEPT ![t] = "closed"] /\ Status[t] = "open"
        BY <1>0, <3>2, <4>1, ProgressStep, RequestKinds DEF End, Status
      <4>3. Promise!Return(t)
        BY <2>14, <3>2, <4>1, <4>2 DEF HandleAnswer, End, history, Promise!Return, Status
      <4> QED BY <4>3 DEF Promise!CallNext
    <3> QED BY <2>14, <3>1, <3>2 DEF HandleAnswer
  <2>15. CASE DropHeld(t)
    BY <2>15, GoToSilent DEF DropHeld, history
  <2>16. CASE DropCached(t)
    <3>1. CASE MayRetry(t)
      BY <2>16, <3>1, ProgressSame DEF DropCached, Promise!callVars, Status
    <3>2. CASE ~MayRetry(t)
      BY <1>0, <2>16, <3>2, EndStep DEF DropCached
    <3> QED BY <3>1, <3>2
  <2> QED BY <1>2, <2>1, <2>2, <2>3, <2>4, <2>5, <2>6, <2>7, <2>8, <2>9, <2>10,
             <2>11, <2>12, <2>13, <2>14, <2>15, <2>16 DEF Step
<1>3. ASSUME NEW tok \in Tokens, ServerExpires(tok)
      PROVE UNCHANGED Promise!callVars
  BY <1>3, ProgressSame DEF ServerExpires, history, Promise!callVars, Status
<1>4. CASE ClearTokenCache
  BY <1>4, ProgressSame DEF ClearTokenCache, history, Promise!callVars, Status
<1>5. CASE Tick
  BY <1>5, ProgressSame DEF Tick, history, Promise!callVars, Status
<1>6. CASE UNCHANGED vars
  BY <1>6, ProgressSame DEF vars, history, Promise!callVars, Status
<1> QED BY <1>1, <1>2, <1>3, <1>4, <1>5, <1>6 DEF Next

\* Whatever tokens expire and however threads interleave, even on one
\* instance, a call is executed by the cloud at most once and returns only if
\* it was (_request, client.py 288-321).
THEOREM CallsKeepTheirPromise == Spec => KeepsPromise
<1>1. Spec => [](TypeOK /\ CallInv)
  BY InitType, NextType, InitCall, NextCall, PTL DEF Spec
<1> QED
  BY <1>1, InitPromise, NextPromise, PTL DEF Spec, KeepsPromise, Promise!CallSpec

-----------------------------------------------------------------------------
(* Tokens stay with their credential. *)

\* The cache key tells accounts apart: every credential takes part in it.
LEMMA KeyInjective ==
    ASSUME NEW a \in Creds, NEW b \in Creds, CacheKey(a) = CacheKey(b)
    PROVE a = b
<1>1. a \in Account /\ b \in Account
  BY TokenCacheAssumption DEF Creds
<1>2. a.base = b.base /\ a.app = b.app /\ a.api = b.api /\ a.secret = b.secret
  BY DEF CacheKey
<1> QED BY <1>1, <1>2 DEF Account

\* None is no credential.
LEMMA CredFacts ==
    /\ NoToken \notin Creds
    /\ \A c \in Clients : Credential[c] \in Creds
    /\ NoEntry.token = NoToken
BY TokenCacheAssumption DEF Creds, NoEntry

LEMMA InitOwner == Init => OwnerInv
<1> SUFFICES ASSUME Init PROVE OwnerInv
  OBVIOUS
<1>1. \A cred \in Creds : cache[CacheKey(cred)] = NoEntry
  BY DEF Init, Keys
<1> QED BY <1>1, CredFacts DEF Init, OwnerInv, OwnedBy

\* A step that mints nothing keeps every owner.
LEMMA NextOwner == TypeOK /\ OwnerInv /\ [Next]_vars => OwnerInv'
<1> SUFFICES ASSUME TypeOK, OwnerInv, [Next]_vars PROVE OwnerInv'
  OBVIOUS
<1>0. /\ held \in [Clients -> Entry] /\ cache \in [Keys -> Entry]
      /\ minted \in [Threads -> Tokens \cup {NoToken}]
      /\ wire \in [Threads -> Tokens \cup {NoToken}]
      /\ owner \in [Tokens -> Creds \cup {NoToken}]
      /\ \A cred \in Creds : CacheKey(cred) \in Keys
  BY DEF TypeOK, CallTypeOK, Keys
<1>1. ASSUME UNCHANGED <<owner, cache>>,
             \A c \in Clients : held'[c] = held[c] \/ held'[c] = NoEntry,
             \A u \in Threads : minted'[u] = minted[u] \/ minted'[u] = NoToken,
             \A u \in Threads : wire'[u] = wire[u] \/ wire'[u] = NoToken
      PROVE OwnerInv'
  BY <1>1, CredFacts DEF OwnerInv, OwnedBy
<1>2. ASSUME UNCHANGED <<owner, held>>,
             \A k \in Keys : cache'[k] = cache[k] \/ cache'[k] = NoEntry,
             \A u \in Threads : minted'[u] = minted[u] \/ minted'[u] = NoToken,
             \A u \in Threads : wire'[u] = wire[u] \/ wire'[u] = NoToken
      PROVE OwnerInv'
  BY <1>0, <1>2, CredFacts DEF OwnerInv, OwnedBy
<1>3. ASSUME NEW t \in Threads, NEW how, End(t, how)
      PROVE /\ \A u \in Threads : minted'[u] = minted[u] \/ minted'[u] = NoToken
            /\ \A u \in Threads : wire'[u] = wire[u] \/ wire'[u] = NoToken
  BY <1>0, <1>3 DEF End
<1>4. ASSUME NEW t \in Threads, NEW s, GoTo(t, s)
      PROVE UNCHANGED <<minted, wire>>
  BY <1>4 DEF GoTo, locals
<1>5. ASSUME NEW t \in Threads, Authenticated(t)
      PROVE /\ \A u \in Threads : minted'[u] = minted[u] \/ minted'[u] = NoToken
            /\ \A u \in Threads : wire'[u] = wire[u] \/ wire'[u] = NoToken
  BY <1>3, <1>4, <1>5 DEF Authenticated
<1>6. ASSUME NEW t \in Threads, Start(t) PROVE OwnerInv'
  <2>1. CASE StartRequest(t)
    BY <1>1, <2>1 DEF StartRequest, server
  <2>2. CASE StartAuthenticate(t)
    BY <1>1, <2>2 DEF StartAuthenticate, server, locals
  <2>3. CASE Invalidate(t)
    BY <1>0, <1>1, <2>3 DEF Invalidate, server, locals
  <2> QED BY <1>6, <2>1, <2>2, <2>3 DEF Start
<1>7. ASSUME NEW t \in Threads, Step(t) PROVE OwnerInv'
  <2> USE KeyFacts
  <2>1. CASE PopCached(t)
    BY <1>0, <1>2, <1>3, <2>1 DEF PopCached, server
  <2>2. CASE EnsureAuth(t)
    BY <1>1, <1>3, <1>4, <2>2 DEF EnsureAuth, server
  <2>3. CASE Authenticate(t)
    BY <1>1, <1>4, <1>5, <2>3 DEF Authenticate, server
  <2>4. CASE Lookup(t)
    <3>1. CASE Fresh(cache[Key(t)])
      <4>1. OwnedBy(cache[Key(t)].token, Credential[Instance[t]])
        BY DEF OwnerInv, Key
      <4>2. \A c \in Clients : OwnedBy(held'[c].token, Credential[c])
        BY <1>0, <2>4, <3>1, <4>1 DEF Lookup, OwnerInv
      <4>3. /\ \A u \in Threads : minted'[u] = minted[u] \/ minted'[u] = NoToken
            /\ \A u \in Threads : wire'[u] = wire[u] \/ wire'[u] = NoToken
        BY <1>5, <2>4, <3>1 DEF Lookup
      <4> QED BY <2>4, <4>2, <4>3 DEF Lookup, server, OwnerInv, OwnedBy
    <3>2. CASE ~Fresh(cache[Key(t)])
      BY <1>1, <1>4, <2>4, <3>2 DEF Lookup, server
    <3> QED BY <3>1, <3>2
  <2>5. CASE FetchFails(t)
    BY <1>1, <1>3, <2>5 DEF FetchFails, server
  <2>6. CASE FetchMints(t)
    <3>1. PICK tok \in Tokens :
            /\ owner[tok] = NoToken
            /\ owner' = [owner EXCEPT ![tok] = Credential[Instance[t]]]
            /\ minted' = [minted EXCEPT ![t] = tok]
      BY <2>6 DEF FetchMints
    <3>2. \A x \in Tokens, cred \in Creds : owner[x] = cred => owner'[x] = cred
      BY <1>0, <3>1, CredFacts
    <3>3. ASSUME NEW x \in Tokens \cup {NoToken}, NEW cred \in Creds,
                 OwnedBy(x, cred), x # NoToken
          PROVE owner'[x] = cred
      BY <3>2, <3>3 DEF OwnedBy
    <3>4. owner'[tok] = Credential[Instance[t]]
      BY <1>0, <3>1
    <3>5. UNCHANGED <<held, cache, wire>>
      BY <2>6 DEF FetchMints
    <3>6. ASSUME NEW c \in Clients, held'[c].token # NoToken
          PROVE owner'[held'[c].token] = Credential[c]
      <4>1. held[c].token \in Tokens \cup {NoToken}
        BY <1>0, EntryFacts
      <4>2. OwnedBy(held[c].token, Credential[c])
        BY DEF OwnerInv
      <4> QED BY <3>3, <3>5, <3>6, <4>1, <4>2, CredFacts
    <3>7. ASSUME NEW cred \in Creds, cache'[CacheKey(cred)].token # NoToken
          PROVE owner'[cache'[CacheKey(cred)].token] = cred
      <4>1. cache[CacheKey(cred)].token \in Tokens \cup {NoToken}
        BY <1>0, EntryFacts
      <4>2. OwnedBy(cache[CacheKey(cred)].token, cred)
        BY DEF OwnerInv
      <4> QED BY <3>3, <3>5, <3>7, <4>1, <4>2
    <3>8. ASSUME NEW u \in Threads, wire'[u] # NoToken
          PROVE owner'[wire'[u]] = Credential[Instance[u]]
      <4>1. OwnedBy(wire[u], Credential[Instance[u]])
        BY DEF OwnerInv
      <4> QED BY <1>0, <3>3, <3>5, <3>8, <4>1, CredFacts, KeyFacts
    <3>9. ASSUME NEW u \in Threads, minted'[u] # NoToken
          PROVE owner'[minted'[u]] = Credential[Instance[u]]
      <4>1. CASE u = t
        BY <1>0, <3>1, <3>4, <4>1
      <4>2. CASE u # t
        <5>1. minted'[u] = minted[u]
          BY <1>0, <3>1, <4>2
        <5>2. OwnedBy(minted[u], Credential[Instance[u]])
          BY DEF OwnerInv
        <5> QED BY <1>0, <3>3, <3>9, <5>1, <5>2, CredFacts, KeyFacts
      <4> QED BY <4>1, <4>2
    <3> QED BY <3>6, <3>7, <3>8, <3>9 DEF OwnerInv, OwnedBy
  <2>7. CASE Store(t)
    <3>1. PICK n : held' = [held EXCEPT ![Instance[t]] =
                              [token |-> minted[t], expires |-> n]]
      BY <2>7 DEF Store
    <3>2. \A c \in Clients : OwnedBy(held'[c].token, Credential[c])
      BY <1>0, <3>1 DEF OwnerInv
    <3>3. UNCHANGED <<owner, cache, minted, wire>>
      BY <1>4, <2>7 DEF Store, server
    <3> QED BY <3>2, <3>3 DEF OwnerInv, OwnedBy
  <2>8. CASE Publish(t)
    <3>1. OwnedBy(held[Instance[t]].token, Credential[Instance[t]])
      BY DEF OwnerInv
    <3>2. \A cred \in Creds : OwnedBy(cache'[CacheKey(cred)].token, cred)
      <4> SUFFICES ASSUME NEW cred \in Creds
                   PROVE OwnedBy(cache'[CacheKey(cred)].token, cred)
        OBVIOUS
      <4>1. CASE CacheKey(cred) = Key(t)
        <5>1. cred = Credential[Instance[t]]
          BY <4>1, KeyInjective DEF Key
        <5>2. cache'[CacheKey(cred)] = held[Instance[t]]
          BY <1>0, <2>8, <4>1 DEF Publish
        <5> QED BY <3>1, <5>1, <5>2
      <4>2. CASE CacheKey(cred) # Key(t)
        BY <1>0, <2>8, <4>2 DEF Publish, OwnerInv
      <4> QED BY <4>1, <4>2
    <3>3. /\ \A u \in Threads : minted'[u] = minted[u] \/ minted'[u] = NoToken
          /\ \A u \in Threads : wire'[u] = wire[u] \/ wire'[u] = NoToken
      BY <1>5, <2>8 DEF Publish
    <3>4. UNCHANGED <<owner, held>>
      BY <2>8 DEF Publish, server
    <3> QED BY <3>2, <3>3, <3>4 DEF OwnerInv, OwnedBy
  <2>9. CASE Capture(t)
    <3>1. CASE Overdue(t)
      BY <1>1, <1>3, <2>9, <3>1 DEF Capture, server
    <3>2. CASE ~Overdue(t)
      BY <1>1, <2>9, <3>2 DEF Capture, server
    <3> QED BY <3>1, <3>2
  <2>10. CASE Send(t)
    <3>1. \A u \in Threads : OwnedBy(wire'[u], Credential[Instance[u]])
      BY <1>0, <2>10 DEF Send, OwnerInv
    <3> QED BY <2>10, <3>1 DEF Send, server, OwnerInv, OwnedBy
  <2>11. CASE CloudAnswers(t)
    BY <1>1, <2>11 DEF CloudAnswers, Answered, server
  <2>12. CASE CloudRejects(t)
    BY <1>1, <2>12 DEF CloudRejects, Answered, server
  <2>13. CASE ExchangeFails(t)
    BY <1>1, <1>3, <2>13 DEF ExchangeFails, server
  <2>14. CASE HandleAnswer(t)
    BY <1>1, <1>3, <1>4, <2>14 DEF HandleAnswer, server
  <2>15. CASE DropHeld(t)
    BY <1>0, <1>1, <1>4, <2>15 DEF DropHeld, server
  <2>16. CASE DropCached(t)
    <3>1. \A k \in Keys : cache'[k] = cache[k] \/ cache'[k] = NoEntry
      BY <1>0, <2>16 DEF DropCached
    <3>2. /\ \A u \in Threads : minted'[u] = minted[u] \/ minted'[u] = NoToken
          /\ \A u \in Threads : wire'[u] = wire[u] \/ wire'[u] = NoToken
      BY <1>3, <2>16 DEF DropCached
    <3> QED BY <1>2, <2>16, <3>1, <3>2 DEF DropCached, server
  <2> QED BY <1>7, <2>1, <2>2, <2>3, <2>4, <2>5, <2>6, <2>7, <2>8, <2>9, <2>10,
             <2>11, <2>12, <2>13, <2>14, <2>15, <2>16 DEF Step
<1>8. ASSUME NEW tok \in Tokens, ServerExpires(tok) PROVE OwnerInv'
  BY <1>1, <1>8 DEF ServerExpires, locals
<1>9. CASE ClearTokenCache
  BY <1>2, <1>9 DEF ClearTokenCache, server, locals
<1>10. CASE Tick
  BY <1>1, <1>10 DEF Tick, server, locals
<1>11. CASE UNCHANGED vars
  BY <1>1, <1>11 DEF vars, server, locals
<1> QED BY <1>6, <1>7, <1>8, <1>9, <1>10, <1>11 DEF Next

\* A token is held, cached and sent only under the credentials it was minted
\* for: rotating the secret or the api_token never serves an old token, and
\* accounts that share the rest do not bleed into each other (client.py 66-71).
THEOREM TokensStayScoped == Spec => []NoCredentialBleed
<1>1. OwnerInv => NoCredentialBleed
  BY DEF OwnerInv, OwnedBy, NoCredentialBleed
<1>2. Spec => []OwnerInv
  BY InitType, NextType, InitOwner, NextOwner, PTL DEF Spec
<1> QED BY <1>1, <1>2, PTL
-----------------------------------------------------------------------------
(* A rejected token does not come back. *)

LEMMA InitDead == Init => DeadInv
BY CredFacts DEF Init, DeadInv, SecretInv, RejectionInv, DeadTokenForgotten,
   Publishing, Outstanding

\* What End and GoTo leave of a thread's locals; no other thread's are touched.
LEMMA EndLocals ==
    ASSUME TypeOK, NEW t \in Threads, NEW how, End(t, how)
    PROVE /\ pc' = [pc EXCEPT ![t] = "idle"]
          /\ minted' = [minted EXCEPT ![t] = NoToken]
          /\ sent' = [sent EXCEPT ![t] = NoToken]
          /\ wire' = [wire EXCEPT ![t] = NoToken]
BY DEF End

LEMMA GoToLocals ==
    ASSUME NEW t, NEW s, GoTo(t, s)
    PROVE /\ pc' = [pc EXCEPT ![t] = s]
          /\ UNCHANGED <<minted, sent, wire>>
BY DEF GoTo, locals

\* A step that stores and publishes nothing, sends nothing and handles no
\* rejection keeps DeadInv: it only moves t on, forgets t's locals, or drops
\* tokens from t's instance and from the cache.
LEMMA QuietDead ==
    ASSUME TypeOK, DeadInv, OneThreadEach,
           NEW t \in Threads, NEW s \in Control \ (Publishing \cup {"send"} \cup Outstanding),
           pc' = [pc EXCEPT ![t] = s],
           \/ UNCHANGED minted
           \/ minted' = [minted EXCEPT ![t] = NoToken],
           \/ UNCHANGED <<sent, wire>>
           \/ /\ sent' = [sent EXCEPT ![t] = NoToken]
              /\ wire' = [wire EXCEPT ![t] = NoToken],
           UNCHANGED <<owner, rejected>>,
           \/ UNCHANGED held
           \/ held' = [held EXCEPT ![Instance[t]] = NoEntry],
           \A k \in Keys : cache'[k] = cache[k] \/ cache'[k] = NoEntry
    PROVE DeadInv'
<1>0. /\ held \in [Clients -> Entry] /\ cache \in [Keys -> Entry]
      /\ minted \in [Threads -> Tokens \cup {NoToken}]
      /\ wire \in [Threads -> Tokens \cup {NoToken}]
      /\ sent \in [Threads -> Tokens \cup {NoToken}]
      /\ pc \in [Threads -> Control]
      /\ rejected \in [Clients -> SUBSET Tokens]
      /\ \A c \in Clients : CacheKey(Credential[c]) \in Keys
  BY DEF TypeOK, CallTypeOK, HistoryTypeOK, Keys, Creds
<1>1. /\ \A c \in Clients : held'[c] = held[c] \/ held'[c] = NoEntry
      /\ \A u \in Threads \ {t} : held'[Instance[u]] = held[Instance[u]]
      /\ Instance[t] \in Clients
  BY <1>0, KeyFacts DEF OneThreadEach
<1>2. \A u \in Threads \ {t} : /\ pc'[u] = pc[u] /\ minted'[u] = minted[u]
                               /\ sent'[u] = sent[u] /\ wire'[u] = wire[u]
  BY <1>0
<1>3. pc'[t] = s /\ (minted'[t] = minted[t] \/ minted'[t] = NoToken)
      /\ (wire'[t] = wire[t] \/ wire'[t] = NoToken)
  BY <1>0
<1>4. SecretInv'
  <2> SUFFICES ASSUME NEW u \in Threads, pc'[u] \in Publishing
               PROVE /\ minted'[u] # NoToken
                     /\ \A k \in Keys : cache'[k].token # minted'[u]
                     /\ \A c \in Clients :
                          held'[c].token = minted'[u] => c = Instance[u]
                     /\ \A w \in Threads \ {u} :
                          wire'[w] # minted'[u] /\ minted'[w] # minted'[u]
                     /\ \A c \in Clients : minted'[u] \notin rejected'[c]
                     /\ pc'[u] = "publish" => held'[Instance[u]].token = minted'[u]
    BY DEF SecretInv, Secret, Publishing
  <2>1. u # t
    BY <1>3
  <2>2. Secret(u) /\ (pc[u] = "publish" => held[Instance[u]].token = minted[u])
    BY <1>2, <2>1 DEF DeadInv, SecretInv
  <2>3. minted'[u] = minted[u] /\ minted[u] # NoToken
    BY <1>2, <2>1, <2>2 DEF Secret
  <2>4. \A k \in Keys : cache'[k].token # minted'[u]
    BY <2>2, <2>3, CredFacts DEF Secret
  <2>5. \A c \in Clients : held'[c].token = minted'[u] => c = Instance[u]
    BY <1>1, <2>2, <2>3, CredFacts DEF Secret
  <2>6. \A w \in Threads \ {u} : wire'[w] # minted'[u] /\ minted'[w] # minted'[u]
    BY <1>2, <1>3, <2>2, <2>3 DEF Secret
  <2>7. \A c \in Clients : minted'[u] \notin rejected'[c]
    BY <2>2, <2>3 DEF Secret
  <2> QED BY <1>1, <1>2, <2>1, <2>2, <2>3, <2>4, <2>5, <2>6, <2>7
<1>5. RejectionInv'
  BY <1>1, <1>2, <1>3 DEF DeadInv, RejectionInv, Outstanding
<1>6. DeadTokenForgotten'
  <2> SUFFICES ASSUME NEW c \in Clients
               PROVE /\ held'[c].token \notin rejected'[c]
                     /\ cache'[CacheKey(Credential[c])].token \notin rejected'[c]
    BY DEF DeadTokenForgotten
  <2>1. NoToken \notin rejected[c] /\ rejected'[c] = rejected[c]
    BY <1>0, TokenCacheAssumption
  <2>2. held[c].token \notin rejected[c]
        /\ cache[CacheKey(Credential[c])].token \notin rejected[c]
    BY DEF DeadInv, DeadTokenForgotten
  <2> QED BY <1>0, <1>1, <2>1, <2>2, CredFacts
<1> QED BY <1>4, <1>5, <1>6 DEF DeadInv
\* A step that touches no token and moves t to a control state that promises
\* nothing new.
LEMMA QuietStep ==
    ASSUME TypeOK, DeadInv, OneThreadEach, NEW t \in Threads,
           UNCHANGED <<held, owner, rejected>>,
           \A k \in Keys : cache'[k] = cache[k] \/ cache'[k] = NoEntry,
           \/ \E how : End(t, how)
           \/ \E s \in Control \ (Publishing \cup {"send"} \cup Outstanding) :
                  GoTo(t, s)
    PROVE DeadInv'
<1>1. CASE \E how : End(t, how)
  <2>1. "idle" \in Control \ (Publishing \cup {"send"} \cup Outstanding)
    BY DEF Control, Publishing, Outstanding
  <2> QED BY <1>1, <2>1, EndLocals, QuietDead
<1>2. CASE \E s \in Control \ (Publishing \cup {"send"} \cup Outstanding) : GoTo(t, s)
  BY <1>2, GoToLocals, QuietDead
<1> QED BY <1>1, <1>2

\* The quiet control states.
LEMMA QuietStates ==
    {"idle", "ensure", "auth", "lookup", "fetch", "capture", "popCached"}
        \subseteq Control \ (Publishing \cup {"send"} \cup Outstanding)
BY DEF Control, Publishing, Outstanding

\* A step that leaves the tokens, and what the invariant says of the control
\* states, as they are.
LEMMA StutterDead ==
    ASSUME DeadInv, UNCHANGED <<held, cache, owner, pc, minted, sent, wire, rejected>>
    PROVE DeadInv'
BY DEF DeadInv, SecretInv, Secret, RejectionInv, DeadTokenForgotten

\* Every step preserves DeadInv.
LEMMA NextDead ==
    ASSUME OneThreadEach, TypeOK, OwnerInv, DeadInv, [Next]_vars
    PROVE DeadInv'
<1>0. /\ held \in [Clients -> Entry] /\ cache \in [Keys -> Entry]
      /\ minted \in [Threads -> Tokens \cup {NoToken}]
      /\ wire \in [Threads -> Tokens \cup {NoToken}]
      /\ sent \in [Threads -> Tokens \cup {NoToken}]
      /\ owner \in [Tokens -> Creds \cup {NoToken}]
      /\ pc \in [Threads -> Control]
      /\ rejected \in [Clients -> SUBSET Tokens]
      /\ \A c \in Clients : CacheKey(Credential[c]) \in Keys
  BY DEF TypeOK, CallTypeOK, HistoryTypeOK, Keys, Creds
<1>1. ASSUME NEW t \in Threads, Start(t) PROVE DeadInv'
  <2>1. CASE StartRequest(t)
    BY <2>1, QuietStates, QuietDead DEF StartRequest, server
  <2>2. CASE StartAuthenticate(t)
    BY <2>2, QuietStates, QuietDead
    DEF StartAuthenticate, server, locals, history
  <2>3. CASE Invalidate(t)
    BY <2>3, QuietStates, QuietDead DEF Invalidate, server, locals, history
  <2> QED BY <1>1, <2>1, <2>2, <2>3 DEF Start
<1>2. ASSUME NEW t \in Threads, Step(t) PROVE DeadInv'
  <2> USE KeyFacts
  <2>1. CASE PopCached(t)
    BY <1>0, <2>1, QuietStep DEF PopCached, server, history
  <2>2. CASE EnsureAuth(t)
    BY <2>2, QuietStates, QuietStep DEF EnsureAuth, server, history
  <2>3. CASE Authenticate(t)
    BY <2>3, QuietStates, QuietStep
    DEF Authenticate, Authenticated, server, history
  <2>4. CASE Lookup(t)
    <3>1. CASE Fresh(cache[Key(t)])
      <4>1. held' = [held EXCEPT ![Instance[t]] = cache[Key(t)]]
        BY <2>4, <3>1 DEF Lookup
      <4>2. /\ \A u \in Threads \ {t} : held'[Instance[u]] = held[Instance[u]]
            /\ \A c \in Clients \ {Instance[t]} : held'[c] = held[c]
            /\ held'[Instance[t]] = cache[CacheKey(Credential[Instance[t]])]
        BY <1>0, <4>1 DEF OneThreadEach, Key
      <4>3. UNCHANGED <<cache, owner, rejected>>
        BY <2>4 DEF Lookup, server, history
      <4>4. \/ /\ pc' = [pc EXCEPT ![t] = "idle"]
               /\ minted' = [minted EXCEPT ![t] = NoToken]
               /\ sent' = [sent EXCEPT ![t] = NoToken]
               /\ wire' = [wire EXCEPT ![t] = NoToken]
            \/ /\ pc' = [pc EXCEPT ![t] = "capture"]
               /\ UNCHANGED <<minted, sent, wire>>
        BY <2>4, <3>1, EndLocals, GoToLocals DEF Lookup, Authenticated
      <4>5. SecretInv'
        <5>1. ASSUME NEW u \in Threads, pc'[u] \in Publishing
              PROVE /\ u # t /\ Secret(u) /\ minted'[u] = minted[u]
                    /\ pc'[u] = pc[u]
                    /\ held'[Instance[t]].token # minted[u]
          <6>1. u # t /\ pc'[u] = pc[u] /\ minted'[u] = minted[u]
            BY <1>0, <4>4, <5>1 DEF Publishing
          <6>2. Secret(u)
            BY <5>1, <6>1 DEF DeadInv, SecretInv
          <6> QED BY <1>0, <4>2, <6>1, <6>2 DEF Secret
        <5> QED BY <1>0, <4>2, <4>3, <4>4, <5>1
                DEF DeadInv, SecretInv, Secret, Publishing
      <4>6. RejectionInv'
        BY <1>0, <4>2, <4>3, <4>4 DEF DeadInv, RejectionInv, Outstanding
      <4>7. DeadTokenForgotten'
        BY <4>2, <4>3 DEF DeadInv, DeadTokenForgotten
      <4> QED BY <4>5, <4>6, <4>7 DEF DeadInv
    <3>2. CASE ~Fresh(cache[Key(t)])
      BY <2>4, <3>2, QuietStates, QuietStep DEF Lookup, server, history
    <3> QED BY <3>1, <3>2
  <2>5. CASE FetchFails(t)
    BY <2>5, QuietStep DEF FetchFails, server, history
  <2>6. CASE FetchMints(t)
    <3>1. PICK tok \in Tokens :
            /\ owner[tok] = NoToken
            /\ owner' = [owner EXCEPT ![tok] = Credential[Instance[t]]]
            /\ minted' = [minted EXCEPT ![t] = tok]
      BY <2>6 DEF FetchMints
    <3>2. /\ UNCHANGED <<held, cache, sent, wire, rejected>>
          /\ pc' = [pc EXCEPT ![t] = "store"]
      BY <2>6 DEF FetchMints, history
    <3>3. /\ tok # NoToken
          /\ \A cred \in Creds : cache[CacheKey(cred)].token # tok
          /\ \A c \in Clients : held[c].token # tok
          /\ \A u \in Threads : wire[u] # tok /\ minted[u] # tok
          /\ \A c \in Clients : tok \notin rejected[c]
      BY <3>1, CredFacts, TokenCacheAssumption
      DEF OwnerInv, OwnedBy, DeadInv, RejectionInv
    <3>4. \A k \in Keys : cache[k].token # tok
      BY <3>3 DEF Keys
    <3>5. SecretInv'
      BY <1>0, <3>1, <3>2, <3>3, <3>4
      DEF DeadInv, SecretInv, Secret, Publishing
    <3>6. RejectionInv'
      BY <1>0, <3>1, <3>2, CredFacts DEF DeadInv, RejectionInv, Outstanding
    <3>7. DeadTokenForgotten'
      BY <3>2 DEF DeadInv, DeadTokenForgotten
    <3> QED BY <3>5, <3>6, <3>7 DEF DeadInv
  <2>7. CASE Store(t)
    <3>1. PICK n : held' = [held EXCEPT ![Instance[t]] =
                              [token |-> minted[t], expires |-> n]]
      BY <2>7 DEF Store
    <3>2. /\ \A u \in Threads \ {t} : held'[Instance[u]] = held[Instance[u]]
          /\ \A c \in Clients \ {Instance[t]} : held'[c] = held[c]
          /\ held'[Instance[t]].token = minted[t]
      BY <1>0, <3>1 DEF OneThreadEach
    <3>3. pc[t] = "store" /\ pc' = [pc EXCEPT ![t] = "publish"]
      BY <2>7, GoToLocals DEF Store, At
    <3>4. UNCHANGED <<cache, owner, minted, sent, wire, rejected>>
      BY <2>7, GoToLocals DEF Store, server, history
    <3>5. Secret(t)
      BY <3>3 DEF DeadInv, SecretInv, Publishing
    <3>6. SecretInv'
      BY <1>0, <3>2, <3>3, <3>4, <3>5
      DEF DeadInv, SecretInv, Secret, Publishing
    <3>7. RejectionInv'
      BY <1>0, <3>2, <3>3, <3>4 DEF DeadInv, RejectionInv, Outstanding
    <3>8. DeadTokenForgotten'
      BY <3>2, <3>4, <3>5 DEF DeadInv, DeadTokenForgotten, Secret
    <3> QED BY <3>6, <3>7, <3>8 DEF DeadInv
  <2>8. CASE Publish(t)
    <3>1. SecretInv'
      BY <1>0, <2>8, GoToLocals, EndLocals
      DEF Publish, Authenticated, server, history, At, DeadInv, SecretInv,
          Secret, Publishing
    <3>2. RejectionInv'
      BY <1>0, <2>8, GoToLocals, EndLocals
      DEF Publish, Authenticated, server, history, At, DeadInv, RejectionInv,
          Outstanding
    <3>3. DeadTokenForgotten'
      <4>1. pc[t] = "publish"
        BY <2>8 DEF Publish, At
      <4>2. Secret(t) /\ held[Instance[t]].token = minted[t]
        BY <4>1 DEF DeadInv, SecretInv, Publishing
      <4>3. /\ UNCHANGED <<held, rejected>>
            /\ \A k \in Keys : cache'[k] = cache[k] \/ cache'[k].token = minted[t]
        BY <1>0, <2>8, <4>2 DEF Publish, history
      <4> QED BY <1>0, <4>2, <4>3 DEF DeadInv, DeadTokenForgotten, Secret
    <3> QED BY <3>1, <3>2, <3>3 DEF DeadInv
  <2>9. CASE Capture(t)
    <3>1. CASE Overdue(t)
      BY <2>9, <3>1, QuietStep DEF Capture, server, history
    <3>2. CASE ~Overdue(t)
      <4>1. /\ UNCHANGED <<held, cache, owner, minted, wire, rejected>>
            /\ pc' = [pc EXCEPT ![t] = "send"]
            /\ sent' = [sent EXCEPT ![t] = held[Instance[t]].token]
        BY <2>9, <3>2 DEF Capture, server, history
      <4>2. SecretInv'
        BY <1>0, <4>1 DEF DeadInv, SecretInv, Secret, Publishing
      <4>3. RejectionInv'
        BY <1>0, <4>1 DEF DeadInv, RejectionInv, Outstanding
      <4>4. DeadTokenForgotten'
        BY <4>1 DEF DeadInv, DeadTokenForgotten
      <4> QED BY <4>2, <4>3, <4>4 DEF DeadInv
    <3> QED BY <3>1, <3>2
  <2>10. CASE Send(t)
    <3>1. SecretInv'
      <4>1. /\ UNCHANGED <<held, cache, minted, rejected>>
            /\ pc[t] = "send" /\ pc' = [pc EXCEPT ![t] = "wait"]
            /\ wire' = [wire EXCEPT ![t] = held[Instance[t]].token]
        BY <2>10 DEF Send, At
      <4>2. ASSUME NEW u \in Threads, pc'[u] \in Publishing
            PROVE wire'[t] # minted[u] /\ u # t
        <5>1. u # t /\ pc[u] \in Publishing
          BY <1>0, <4>1, <4>2 DEF Publishing
        <5>2. Secret(u) /\ Instance[u] # Instance[t]
          BY <5>1 DEF DeadInv, SecretInv, OneThreadEach
        <5> QED BY <1>0, <4>1, <5>1, <5>2 DEF Secret
      <4> QED BY <1>0, <4>1, <4>2 DEF DeadInv, SecretInv, Secret, Publishing
    <3>2. RejectionInv'
      BY <1>0, <2>10 DEF Send, server, At, DeadInv, RejectionInv, Outstanding
    <3>3. DeadTokenForgotten'
      BY <1>0, <2>10 DEF Send, server, DeadInv, DeadTokenForgotten
    <3> QED BY <3>1, <3>2, <3>3 DEF DeadInv
  <2>11. CASE CloudAnswers(t)
    <3>1. SecretInv'
      BY <1>0, <2>11
      DEF CloudAnswers, Answered, server, At, DeadInv, SecretInv, Secret,
          Publishing
    <3>2. RejectionInv'
      BY <1>0, <2>11
      DEF CloudAnswers, Answered, server, At, DeadInv, RejectionInv,
          Outstanding
    <3>3. DeadTokenForgotten'
      BY <1>0, <2>11
      DEF CloudAnswers, Answered, server, DeadInv, DeadTokenForgotten
    <3> QED BY <3>1, <3>2, <3>3 DEF DeadInv
  <2>12. CASE CloudRejects(t)
    <3>1. SecretInv'
      BY <1>0, <2>12
      DEF CloudRejects, Answered, server, At, DeadInv, SecretInv, Secret,
          Publishing
    <3>2. RejectionInv'
      BY <1>0, <2>12
      DEF CloudRejects, Answered, server, At, DeadInv, RejectionInv,
          Outstanding
    <3>3. DeadTokenForgotten'
      BY <1>0, <2>12
      DEF CloudRejects, Answered, server, DeadInv, DeadTokenForgotten
    <3> QED BY <3>1, <3>2, <3>3 DEF DeadInv
  <2>13. CASE ExchangeFails(t)
    BY <2>13, QuietStep DEF ExchangeFails, server
  <2>14. CASE HandleAnswer(t)
    <3>1. CASE \E how : End(t, how)
      BY <2>14, <3>1, QuietStep DEF HandleAnswer, server, history
    <3>2. CASE GoTo(t, "dropHeld")
      <4>1. /\ UNCHANGED <<held, cache, owner, minted, sent, wire, rejected>>
            /\ pc[t] = "answered" /\ pc' = [pc EXCEPT ![t] = "dropHeld"]
        BY <2>14, <3>2, GoToLocals DEF HandleAnswer, At, server, history
      <4>2. SecretInv'
        BY <1>0, <4>1 DEF DeadInv, SecretInv, Secret, Publishing
      <4>3. RejectionInv'
        BY <1>0, <4>1 DEF DeadInv, RejectionInv, Outstanding
      <4>4. DeadTokenForgotten'
        BY <4>1 DEF DeadInv, DeadTokenForgotten
      <4> QED BY <4>2, <4>3, <4>4 DEF DeadInv
    <3> QED BY <2>14, <3>1, <3>2 DEF HandleAnswer
  <2>15. CASE DropHeld(t)
    <3>1. SecretInv'
      BY <1>0, <2>15, GoToLocals, CredFacts, TokenCacheAssumption
      DEF DropHeld, server, history, OneThreadEach, At, DeadInv, SecretInv,
          Secret, Publishing
    <3>2. RejectionInv'
      BY <1>0, <2>15, GoToLocals, CredFacts, TokenCacheAssumption
      DEF DropHeld, server, history, OneThreadEach, At, DeadInv, RejectionInv,
          Outstanding
    <3>3. DeadTokenForgotten'
      BY <1>0, <2>15, GoToLocals, CredFacts, TokenCacheAssumption
      DEF DropHeld, server, history, OneThreadEach, DeadInv, DeadTokenForgotten
    <3> QED BY <3>1, <3>2, <3>3 DEF DeadInv
  <2>16. CASE DropCached(t)
    <3>1. /\ UNCHANGED <<held, owner>> /\ pc[t] = "dropCached"
          /\ \A k \in Keys : cache'[k] = cache[k] \/ cache'[k] = NoEntry
          /\ rejected' = [rejected EXCEPT ![Instance[t]] =
                              @ \cup ({wire[t]} \ {NoToken})]
      BY <1>0, <2>16 DEF DropCached, At, server
    <3>2. \/ /\ pc' = [pc EXCEPT ![t] = "idle"]
             /\ minted' = [minted EXCEPT ![t] = NoToken]
             /\ sent' = [sent EXCEPT ![t] = NoToken]
             /\ wire' = [wire EXCEPT ![t] = NoToken]
          \/ /\ pc' = [pc EXCEPT ![t] = "ensure"]
             /\ UNCHANGED <<minted, sent, wire>>
      BY <2>16, EndLocals DEF DropCached
    <3>3. sent[t] = wire[t] /\ held[Instance[t]].token = NoToken
      BY <3>1 DEF DeadInv, RejectionInv, Outstanding
    <3>4. wire[t] # NoToken =>
            cache'[CacheKey(Credential[Instance[t]])].token # wire[t]
      BY <1>0, <2>16, <3>3, CredFacts DEF DropCached, IsDead, Key
    <3>5. wire[t] # NoToken => owner[wire[t]] # NoToken
      BY <1>0, CredFacts DEF OwnerInv, OwnedBy
    <3>6. SecretInv'
      <4>1. ASSUME NEW u \in Threads, pc'[u] \in Publishing
            PROVE /\ u # t /\ Secret(u) /\ minted'[u] = minted[u]
                  /\ pc'[u] = pc[u] /\ minted[u] # NoToken /\ minted[u] # wire[t]
        <5>1. u # t /\ pc'[u] = pc[u] /\ minted'[u] = minted[u]
          BY <1>0, <3>2, <4>1 DEF Publishing
        <5>2. Secret(u)
          BY <4>1, <5>1 DEF DeadInv, SecretInv
        <5> QED BY <5>1, <5>2 DEF Secret
      <4> QED BY SMTT(30), <1>0, <3>1, <3>2, <4>1, CredFacts
              DEF DeadInv, SecretInv, Secret, Publishing
    <3>7. RejectionInv'
      BY <1>0, <3>1, <3>2, <3>5 DEF DeadInv, RejectionInv, Outstanding
    <3>8. DeadTokenForgotten'
      <4>1. \A c \in Clients : NoToken \notin rejected[c]
        BY <1>0, TokenCacheAssumption
      <4> QED BY <1>0, <3>1, <3>3, <3>4, <4>1, CredFacts
              DEF DeadInv, DeadTokenForgotten
    <3> QED BY <3>6, <3>7, <3>8 DEF DeadInv
  <2> QED BY <1>2, <2>1, <2>2, <2>3, <2>4, <2>5, <2>6, <2>7, <2>8, <2>9, <2>10,
             <2>11, <2>12, <2>13, <2>14, <2>15, <2>16 DEF Step
<1>3. ASSUME NEW tok \in Tokens, ServerExpires(tok) PROVE DeadInv'
  BY <1>3, StutterDead DEF ServerExpires, locals, history
<1>4. CASE ClearTokenCache
  <2>1. SecretInv'
    BY <1>0, <1>4, CredFacts, TokenCacheAssumption
    DEF ClearTokenCache, server, locals, history, At, DeadInv, SecretInv,
        Secret, Publishing
  <2>2. RejectionInv'
    BY <1>0, <1>4, CredFacts, TokenCacheAssumption
    DEF ClearTokenCache, server, locals, history, At, DeadInv, RejectionInv,
        Outstanding
  <2>3. DeadTokenForgotten'
    BY <1>0, <1>4, CredFacts, TokenCacheAssumption
    DEF ClearTokenCache, server, locals, history, DeadInv, DeadTokenForgotten
  <2> QED BY <2>1, <2>2, <2>3 DEF DeadInv
<1>5. CASE Tick
  BY <1>5, StutterDead DEF Tick, server, locals, history
<1>6. CASE UNCHANGED vars
  BY <1>6, StutterDead DEF vars, server, locals, history
<1> QED BY <1>1, <1>2, <1>3, <1>4, <1>5, <1>6 DEF Next

\* Where no two threads share an instance, an instance that handled the
\* rejection of a token never holds it again and never finds it in its cache
\* entry: the retry and every later call go out with another token
\* (client.py 263-276, 307-319).
THEOREM DeadTokensStayForgotten ==
    ASSUME OneThreadEach
    PROVE Spec => []DeadTokenForgotten
<1>1. DeadInv => DeadTokenForgotten
  BY DEF DeadInv
<1>2. TypeOK /\ OwnerInv /\ DeadInv /\ [Next]_vars => DeadInv'
  BY NextDead
<1>3. Spec => []DeadInv
  BY <1>2, InitType, NextType, InitOwner, NextOwner, InitDead, PTL DEF Spec
<1> QED BY <1>1, <1>3, PTL
-----------------------------------------------------------------------------
(* Handling a rejection spares the live tokens. *)

\* t's answer says that the token it sent has expired.
Rejecting(t) ==
    \/ pc[t] \in {"dropHeld", "dropCached"}
    \/ pc[t] = "answered" /\ answer[t] = "expired"

\* A token whose rejection is being handled stays dead.
RejectingInv == \A t \in Threads : Rejecting(t) => wire[t] \notin live

\* A step that starts no rejection and revives no token keeps RejectingInv.
LEMMA QuietRejecting ==
    ASSUME RejectingInv, live' \subseteq live,
           \A u \in Threads : Rejecting(u)' => Rejecting(u) /\ wire'[u] = wire[u]
    PROVE RejectingInv'
BY DEF RejectingInv

\* So does a step that only moves t on.
LEMMA QuietThread ==
    ASSUME TypeOK, RejectingInv, NEW t \in Threads, live' \subseteq live,
           NEW s \in Control \ {"answered", "dropHeld", "dropCached"},
           pc' = [pc EXCEPT ![t] = s],
           \A u \in Threads \ {t} : answer'[u] = answer[u] /\ wire'[u] = wire[u]
    PROVE RejectingInv'
<1>1. pc \in [Threads -> Control]
  BY DEF TypeOK, CallTypeOK
<1>2. \A u \in Threads : Rejecting(u)' => Rejecting(u) /\ wire'[u] = wire[u]
  BY <1>1 DEF Rejecting
<1> QED BY <1>2, QuietRejecting

LEMMA NextRejecting ==
    TypeOK /\ OwnerInv /\ RejectingInv /\ [Next]_vars => RejectingInv'
<1> SUFFICES ASSUME TypeOK, OwnerInv, RejectingInv, [Next]_vars
             PROVE RejectingInv'
  OBVIOUS
<1>0. /\ pc \in [Threads -> Control] /\ wire \in [Threads -> Tokens \cup {NoToken}]
      /\ answer \in [Threads -> {"none", "ok", "refused", "expired"}]
      /\ live \subseteq Tokens
  BY DEF TypeOK, CallTypeOK
<1>1. ASSUME NEW t \in Threads, NEW how, End(t, how), UNCHANGED live
      PROVE RejectingInv'
  <2>1. \A u \in Threads \ {t} : answer'[u] = answer[u] /\ wire'[u] = wire[u]
    BY <1>0, <1>1 DEF End
  <2> QED BY <1>1, <2>1, QuietThread, EndLocals DEF Control
<1>2. ASSUME NEW t \in Threads, UNCHANGED live,
             NEW s \in Control \ {"answered", "dropHeld", "dropCached"}, GoTo(t, s)
      PROVE RejectingInv'
  BY <1>2, QuietThread DEF GoTo, locals
<1>3. ASSUME NEW t \in Threads, Authenticated(t), UNCHANGED live PROVE RejectingInv'
  BY <1>1, <1>2, <1>3 DEF Authenticated, Control
<1>4. ASSUME NEW t \in Threads, Start(t) PROVE RejectingInv'
  <2>1. CASE StartRequest(t)
    BY <2>1, QuietThread DEF StartRequest, server, Control
  <2>2. CASE StartAuthenticate(t)
    BY <2>2, QuietThread DEF StartAuthenticate, server, locals, Control
  <2>3. CASE Invalidate(t)
    BY <2>3, QuietThread DEF Invalidate, server, locals, Control
  <2> QED BY <1>4, <2>1, <2>2, <2>3 DEF Start
<1>5. ASSUME NEW t \in Threads, Step(t) PROVE RejectingInv'
  <2> USE DEF server
  <2>1. CASE PopCached(t)
    BY <1>1, <2>1 DEF PopCached
  <2>2. CASE EnsureAuth(t)
    BY <1>1, <1>2, <2>2 DEF EnsureAuth, Control
  <2>3. CASE Authenticate(t)
    BY <1>2, <1>3, <2>3 DEF Authenticate, Control
  <2>4. CASE Lookup(t)
    BY <1>2, <1>3, <2>4 DEF Lookup, Control
  <2>5. CASE FetchFails(t)
    BY <1>1, <2>5 DEF FetchFails
  <2>6. CASE FetchMints(t)
    <3>1. PICK tok \in Tokens : owner[tok] = NoToken /\ live' = live \cup {tok}
      BY <2>6 DEF FetchMints
    <3>2. \A u \in Threads : wire[u] # tok
      BY <1>0, <3>1, CredFacts, KeyFacts, TokenCacheAssumption DEF OwnerInv, OwnedBy
    <3>3. \A u \in Threads : Rejecting(u)' => Rejecting(u) /\ wire'[u] = wire[u]
      BY <1>0, <2>6 DEF FetchMints, Rejecting
    <3> QED BY <3>1, <3>2, <3>3 DEF RejectingInv
  <2>7. CASE Store(t)
    BY <1>2, <2>7 DEF Store, Control
  <2>8. CASE Publish(t)
    BY <1>3, <2>8 DEF Publish
  <2>9. CASE Capture(t)
    <3>1. CASE Overdue(t)
      BY <1>1, <2>9, <3>1 DEF Capture
    <3>2. CASE ~Overdue(t)
      BY <2>9, <3>2, QuietThread DEF Capture, Control
    <3> QED BY <3>1, <3>2
  <2>10. CASE Send(t)
    BY <1>0, <2>10, QuietThread DEF Send, Control
  <2>11. CASE CloudAnswers(t)
    <3>1. \A u \in Threads : Rejecting(u)' => Rejecting(u) /\ wire'[u] = wire[u]
      BY <1>0, <2>11 DEF CloudAnswers, Answered, Rejecting
    <3> QED BY <2>11, <3>1, QuietRejecting DEF CloudAnswers, Answered
  <2>12. CASE CloudRejects(t)
    <3>1. wire[t] \notin live /\ UNCHANGED <<live, wire>>
      BY <2>12 DEF CloudRejects, Answered
    <3>2. \A u \in Threads \ {t} : Rejecting(u)' => Rejecting(u)
      BY <1>0, <2>12 DEF CloudRejects, Answered, Rejecting
    <3> QED BY <3>1, <3>2 DEF RejectingInv
  <2>13. CASE ExchangeFails(t)
    BY <1>1, <2>13 DEF ExchangeFails
  <2>14. CASE HandleAnswer(t)
    <3>1. CASE \E how : End(t, how)
      BY <1>1, <2>14, <3>1 DEF HandleAnswer
    <3>2. CASE answer[t] = "expired" /\ GoTo(t, "dropHeld")
      <4>1. \A u \in Threads : Rejecting(u)' => Rejecting(u) /\ wire'[u] = wire[u]
        BY <1>0, <2>14, <3>2 DEF HandleAnswer, At, GoTo, locals, Rejecting
      <4> QED BY <2>14, <4>1, QuietRejecting DEF HandleAnswer
    <3> QED BY <2>14, <3>1, <3>2 DEF HandleAnswer
  <2>15. CASE DropHeld(t)
    <3>1. \A u \in Threads : Rejecting(u)' => Rejecting(u) /\ wire'[u] = wire[u]
      BY <1>0, <2>15 DEF DropHeld, At, GoTo, locals, Rejecting
    <3> QED BY <2>15, <3>1, QuietRejecting DEF DropHeld
  <2>16. CASE DropCached(t)
    <3>1. CASE MayRetry(t)
      BY <2>16, <3>1, QuietThread DEF DropCached, Control
    <3>2. CASE ~MayRetry(t)
      BY <1>1, <2>16, <3>2 DEF DropCached
    <3> QED BY <3>1, <3>2
  <2> QED BY <1>5, <2>1, <2>2, <2>3, <2>4, <2>5, <2>6, <2>7, <2>8, <2>9, <2>10,
             <2>11, <2>12, <2>13, <2>14, <2>15, <2>16 DEF Step
<1>6. ASSUME NEW tok \in Tokens, ServerExpires(tok) PROVE RejectingInv'
  BY <1>6, QuietRejecting DEF ServerExpires, locals, Rejecting
<1>7. CASE ClearTokenCache
  BY <1>7, QuietRejecting DEF ClearTokenCache, server, locals, Rejecting
<1>8. CASE Tick
  BY <1>8, QuietRejecting DEF Tick, server, locals, Rejecting
<1>9. CASE UNCHANGED vars
  BY <1>9, QuietRejecting DEF vars, server, locals, Rejecting
<1> QED BY <1>4, <1>5, <1>6, <1>7, <1>8, <1>9 DEF Next

\* What a step may take from the cache: named, to be proved of each step.
SparesLive ==
    \A k \in Keys :
        cache[k].token \in live /\ cache'[k].token = NoToken =>
            \/ pc' = pc
            \/ \E t \in Threads : At(t, "popCached") /\ pc'[t] # pc[t]

LEMMA StepSparesLive ==
    ASSUME TypeOK, DeadInv, RejectingInv, Next
    PROVE SparesLive
<1>0. /\ pc \in [Threads -> Control] /\ wire \in [Threads -> Tokens \cup {NoToken}]
      /\ held \in [Clients -> Entry] /\ cache \in [Keys -> Entry]
      /\ live \subseteq Tokens /\ NoToken \notin live
  BY TokenCacheAssumption DEF TypeOK, CallTypeOK
<1>1. ASSUME UNCHANGED cache PROVE SparesLive
  BY <1>0, <1>1 DEF SparesLive
<1>2. ASSUME UNCHANGED pc PROVE SparesLive
  BY <1>2 DEF SparesLive
<1>3. ASSUME NEW t \in Threads, PopCached(t) PROVE SparesLive
  <2>1. At(t, "popCached") /\ pc'[t] = "idle"
    BY <1>0, <1>3 DEF PopCached, End
  <2> QED BY <2>1 DEF SparesLive, At
<1>4. ASSUME NEW t \in Threads, Publish(t) PROVE SparesLive
  <2>1. held[Instance[t]].token # NoToken
    BY <1>4 DEF Publish, At, DeadInv, SecretInv, Secret, Publishing
  <2>2. cache' = [cache EXCEPT ![Key(t)] = held[Instance[t]]]
    BY <1>4 DEF Publish
  <2>3. \A k \in Keys : cache'[k] = cache[k] \/ cache'[k].token # NoToken
    BY <1>0, <2>1, <2>2
  <2> QED BY <1>0, <2>3 DEF SparesLive
<1>5. ASSUME NEW t \in Threads, DropCached(t) PROVE SparesLive
  <2>1. sent[t] = wire[t] /\ wire[t] \notin live
    BY <1>5 DEF DropCached, At, DeadInv, RejectionInv, Outstanding, RejectingInv, Rejecting
  <2>2. \A k \in Keys : cache'[k] = cache[k] \/ cache[k].token = sent[t]
    BY <1>0, <1>5, KeyFacts DEF DropCached, IsDead
  <2> QED BY <1>0, <2>1, <2>2 DEF SparesLive
<1>6. ASSUME NEW t \in Threads, Start(t) PROVE SparesLive
  BY <1>1, <1>6 DEF Start, StartRequest, StartAuthenticate, Invalidate
<1>7. ASSUME NEW t \in Threads, Step(t) PROVE SparesLive
  BY <1>1, <1>3, <1>4, <1>5, <1>7
  DEF Step, EnsureAuth, Authenticate, Lookup, FetchFails, FetchMints, Store, Capture, Send,
      CloudAnswers, CloudRejects, Answered, ExchangeFails, HandleAnswer, DropHeld
<1>8. ASSUME NEW tok \in Tokens, ServerExpires(tok) PROVE SparesLive
  BY <1>1, <1>8 DEF ServerExpires
<1>9. CASE ClearTokenCache
  BY <1>2, <1>9 DEF ClearTokenCache
<1>10. CASE Tick
  BY <1>1, <1>10 DEF Tick
<1> QED BY <1>6, <1>7, <1>8, <1>9, <1>10 DEF Next

\* Where no two threads share an instance, handling a rejection never takes a
\* live token from the cache, such as the one a sibling has just minted: the
\* entry goes only while it holds the token that was sent, and that one cannot
\* come to life again (_drop_expired_token, client.py 263-276).
THEOREM DropsSpareLive ==
    ASSUME OneThreadEach
    PROVE Spec => DropSparesLiveTokens
<1>1. Init => RejectingInv
  BY DEF Init, RejectingInv, Rejecting
<1>2. TypeOK /\ OwnerInv /\ DeadInv /\ [Next]_vars => DeadInv'
  BY NextDead
<1>3. TypeOK /\ DeadInv /\ RejectingInv /\ [Next]_vars => [SparesLive]_vars
  BY StepSparesLive
<1>4. Spec => [][SparesLive]_vars
  BY <1>1, <1>2, <1>3, InitType, NextType, InitOwner, NextOwner, InitDead, NextRejecting,
     PTL DEF Spec
<1> QED BY <1>4 DEF SparesLive, DropSparesLiveTokens
==============================================================================
