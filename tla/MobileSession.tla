---------------------------- MODULE MobileSession ----------------------------
(***************************************************************************)
(* The mobile app's session over the server of DeviceAuth:                 *)
(* MobileSessionManager (packages/mobile-client/src/session.ts) with its   *)
(* tokens in memory, the bundle on disk, one refresh at a time and a queue  *)
(* of storage operations, and the provider that signs in, signs out and     *)
(* cleans up (apps/mobile/src/providers/mobile-app-provider.tsx).           *)
(*                                                                         *)
(* sessionGeneration is only compared for equality with a value captured   *)
(* before, so a refresh or write in progress carries the flag "current",    *)
(* cleared where the code increments the generation.  The purge of the      *)
(* offline database ends with the storage operation it runs beside.         *)
(***************************************************************************)
EXTENDS DeviceAuth

CONSTANT NoOne    \* no call

VARIABLES
  mem,       \* the session of the bundle in memory, 0 for none
  disk,      \* the session of the bundle in SecureStore, 0 for none
  flight,    \* refreshPromise: the refresh in progress
  queue,     \* persistenceQueue: storage operations, the first one running
  ui,        \* localSessionState
  login,     \* the sign-in in progress
  leaving,   \* the logout call in progress
  torn       \* the disk may be behind the server: stopped app, unknown commit,
             \* unreadable answer, failed deletion (history)

clientVars == <<mem, disk, flight, queue, ui, login, leaving, torn>>
vars == <<version, request, device, session, call, events,
          mem, disk, flight, queue, ui, login, leaving, torn>>

Tokens == 0 .. MaxSessions

Flight == [stage   : {"none", "calling", "persisting", "clearing"},
           call    : Calls \cup {NoOne},
           token   : Tokens,
           current : BOOLEAN]

NoFlight == [stage |-> "none", call |-> NoOne, token |-> 0, current |-> FALSE]

Operation == [kind    : {"write", "clear"},
              token   : Tokens,
              expect  : Tokens,                   \* expectedRefreshToken
              current : BOOLEAN,
              written : BOOLEAN,                  \* store.write has resolved
              by      : {"refresh", "login", "cleanup"}]

WriteOp(token, expect, current, by) ==
  [kind |-> "write", token |-> token, expect |-> expect, current |-> current,
   written |-> FALSE, by |-> by]

ClearOp(by) ==
  [kind |-> "clear", token |-> 0, expect |-> 0, current |-> FALSE, written |-> FALSE, by |-> by]

Login == [stage   : {"none", "browser", "exchange", "persist"},
          request : 0 .. MaxRequests,
          call    : Calls \cup {NoOne}]

NoLogin == [stage |-> "none", request |-> 0, call |-> NoOne]

-----------------------------------------------------------------------------
(* The session manager                                                       *)

\* sessionGeneration is incremented: nothing in progress is current.
Outdated(q) == [i \in DOMAIN q |-> [q[i] EXCEPT !.current = FALSE]]

\* MobileSessionManager.clear: memory at once, the disk after the queue q.
Clear(q, by) ==
  /\ mem' = 0
  /\ queue' = Append(Outdated(q), ClearOp(by))

\* clearLocalSession of the provider.
ClearLocalSession(q) ==
  /\ ui' = "signing-out"
  /\ Clear(q, "cleanup")
  /\ flight' = [flight EXCEPT !.current = FALSE]

\* refreshSingleFlight: an API call needs a new access token and none is on
\* the way; other callers share the promise.
StartRefresh(c) ==
  /\ mem # 0
  /\ flight = NoFlight
  /\ Len(session) < MaxSessions
  /\ Place(c, "refresh", mem)
  /\ flight' = [stage |-> "calling", call |-> c, token |-> mem, current |-> TRUE]
  /\ UNCHANGED <<version, request, device, session, events>>
  /\ UNCHANGED <<mem, disk, queue, ui, login, leaving, torn>>

\* The answer of the call c reaches the app.
Received(c) ==
  /\ c # NoOne /\ At(c, "answered")
  /\ call' = [call EXCEPT ![c] = NoCall]
  /\ UNCHANGED <<version, request, device, session, events>>

\* The app gives up waiting; the server goes on with the call.
NetworkFails ==
  /\ Event
  /\ UNCHANGED <<version, request, device, session, call>>

\* refreshAndPersist: new tokens are queued to be stored before they are used.
RefreshOk ==
  LET c == flight.call IN
  /\ flight.stage = "calling"
  /\ Received(c) /\ call[c].answer = "ok"
  /\ queue' = Append(queue, WriteOp(call[c].token, flight.token, flight.current, "refresh"))
  /\ flight' = [flight EXCEPT !.stage = "persisting", !.call = NoOne]
  /\ UNCHANGED <<mem, disk, ui, login, leaving, torn>>

\* A retryable MobileApiError keeps the bundle.
RefreshRetryable ==
  LET c == flight.call IN
  /\ flight.stage = "calling"
  /\ Received(c) /\ call[c].answer = "error"
  /\ flight' = NoFlight
  /\ UNCHANGED <<mem, disk, queue, ui, login, leaving, torn>>

\* So does an answer with tokens that is too large or fails its schema, which
\* the API client reports as retryable.
RefreshUnreadable ==
  LET c == flight.call IN
  /\ Event
  /\ flight.stage = "calling"
  /\ At(c, "answered") /\ call[c].answer = "ok"
  /\ call' = [call EXCEPT ![c] = NoCall]
  /\ flight' = NoFlight
  /\ torn' = TRUE
  /\ UNCHANGED <<version, request, device, session, mem, disk, queue, ui, login, leaving>>

\* The catch block clears the session and the refresh waits for the disk.
RefreshClears(q) ==
  /\ Clear(q, "refresh")
  /\ flight' = [NoFlight EXCEPT !.stage = "clearing"]

\* Mutant: a network failure keeps the bundle for another try.
RefreshFailsKeeping ==
  /\ flight.stage = "calling"
  /\ \/ Received(flight.call) /\ call[flight.call].answer = "invalid" /\ RefreshClears(queue)
     \/ NetworkFails /\ flight' = NoFlight /\ UNCHANGED <<mem, queue>>
  /\ UNCHANGED <<disk, ui, login, leaving, torn>>

\* Any other failure clears the session: a refusal, and also a network failure,
\* which is not a MobileApiError.
RefreshFails ==
  /\ flight.stage = "calling"
  /\ \/ Received(flight.call) /\ call[flight.call].answer = "invalid"
     \/ NetworkFails
  /\ RefreshClears(queue)
  /\ UNCHANGED <<disk, ui, login, leaving, torn>>

Running(kind) == queue # <<>> /\ Head(queue).kind = kind

\* The owner of a failed write: the refresh clears the session, the sign-in
\* cleans up.
WriteRejected ==
  IF Head(queue).by = "refresh"
  THEN RefreshClears(Tail(queue)) /\ UNCHANGED <<ui, login>>
  ELSE ClearLocalSession(Tail(queue)) /\ login' = NoLogin

\* SessionSupersededError: a refresh ends as it is, a sign-in cleans up.
WriteSuperseded ==
  IF Head(queue).by = "refresh"
  THEN /\ queue' = Tail(queue)
       /\ flight' = NoFlight
       /\ UNCHANGED <<mem, ui, login>>
  ELSE ClearLocalSession(Tail(queue)) /\ login' = NoLogin

\* persistForGeneration runs: superseded, stored, or refused by the store.
WriteRuns ==
  LET op == Head(queue)
      superseded == ~op.current \/ (op.expect # 0 /\ mem # op.expect)
  IN
  /\ Running("write") /\ ~op.written
  /\ \/ superseded /\ WriteSuperseded /\ UNCHANGED <<disk, events>>
     \/ /\ ~superseded
        /\ disk' = op.token
        /\ queue' = [queue EXCEPT ![1].written = TRUE]
        /\ UNCHANGED <<mem, flight, ui, login, events>>
     \/ ~superseded /\ Event /\ WriteRejected /\ UNCHANGED disk
  /\ UNCHANGED <<version, request, device, session, call, leaving, torn>>

\* The rest of the sign-in: the offline store is claimed, or cannot be.
LoginStored ==
  \/ /\ ui' = "signed-in" /\ login' = NoLogin
     /\ mem' = Head(queue).token /\ queue' = Tail(queue)
     /\ UNCHANGED <<flight, events>>
  \/ Event /\ ClearLocalSession(Tail(queue)) /\ login' = NoLogin

\* Mutant: the generation is not compared again after the write.
PublishAlways ==
  /\ Running("write") /\ Head(queue).written
  /\ IF Head(queue).by = "login" THEN LoginStored
     ELSE /\ mem' = Head(queue).token /\ queue' = Tail(queue)
          /\ flight' = NoFlight
          /\ UNCHANGED <<ui, login, events>>
  /\ UNCHANGED <<version, request, device, session, call, disk, leaving, torn>>

\* The stored bundle is published in memory unless it was superseded meanwhile.
Publish ==
  /\ Running("write") /\ Head(queue).written
  /\ IF ~Head(queue).current THEN WriteSuperseded /\ UNCHANGED events
     ELSE IF Head(queue).by = "login" THEN LoginStored
     ELSE /\ mem' = Head(queue).token /\ queue' = Tail(queue)
          /\ flight' = NoFlight
          /\ UNCHANGED <<ui, login, events>>
  /\ UNCHANGED <<version, request, device, session, call, disk, leaving, torn>>

\* A deletion ends; its owner goes on.
ClearEnds(outcome) ==
  /\ queue' = Tail(queue)
  /\ IF Head(queue).by = "refresh"
     THEN flight' = NoFlight /\ UNCHANGED ui
     ELSE ui' = outcome /\ UNCHANGED flight
  /\ UNCHANGED <<version, request, device, session, call, mem, login, leaving>>

\* The deletion succeeds, and with it the purge of the offline data.
ClearOk ==
  /\ Running("clear")
  /\ disk' = 0
  /\ ClearEnds("signed-out-clean")
  /\ UNCHANGED <<events, torn>>

\* The deletion or the purge fails: clearLocalMobileData waits for both.
ClearFails ==
  /\ Running("clear")
  /\ Event
  /\ disk' \in {0, disk}
  /\ torn' = TRUE
  /\ ClearEnds("signed-out-cleanup-required")

-----------------------------------------------------------------------------
(* The provider                                                              *)

\* signIn opens the browser, which creates the authorization request.
SignIn ==
  /\ ui = "signed-out-clean"
  /\ login = NoLogin
  /\ CreateRequest
  /\ login' = [NoLogin EXCEPT !.stage = "browser", !.request = Len(request) + 1]
  /\ UNCHANGED <<version, device, session, call, events>>
  /\ UNCHANGED <<mem, disk, flight, queue, ui, leaving, torn>>

\* The approval form is submitted or cancelled, perhaps more than once.
BrowserSubmits(c, decision) ==
  /\ login.stage = "browser"
  /\ request[login.request].status = "pending"
  /\ Place(c, decision, login.request)
  /\ UNCHANGED <<version, request, device, session, events>>
  /\ UNCHANGED clientVars

\* beginBrowserMobileLogin gets the code from the redirect and exchanges it.
ExchangeCode(c) ==
  /\ login.stage = "browser"
  /\ request[login.request].status = "approved"
  /\ Place(c, "exchange", login.request)
  /\ login' = [login EXCEPT !.stage = "exchange", !.call = c]
  /\ UNCHANGED <<version, request, device, session, events>>
  /\ UNCHANGED <<mem, disk, flight, queue, ui, leaving, torn>>

\* setTokens with the exchanged tokens.
LoginTokens ==
  LET c == login.call IN
  /\ login.stage = "exchange"
  /\ Received(c) /\ call[c].answer = "ok"
  /\ queue' = Append(Outdated(queue), WriteOp(call[c].token, 0, TRUE, "login"))
  /\ flight' = [flight EXCEPT !.current = FALSE]
  /\ login' = [login EXCEPT !.stage = "persist", !.call = NoOne]
  /\ UNCHANGED <<mem, disk, ui, leaving, torn>>

\* The browser is closed, or the exchange is refused or not answered.
LoginFails ==
  /\ \/ login.stage = "browser" /\ UNCHANGED authVars
     \/ login.stage = "exchange" /\ Received(login.call) /\ call[login.call].answer # "ok"
     \/ login.stage = "exchange" /\ NetworkFails
  /\ login' = NoLogin
  /\ UNCHANGED <<mem, disk, flight, queue, ui, leaving, torn>>

\* signOut asks the server to revoke the device; a refresh under way is waited
\* for first.
SignOut(c) ==
  /\ ui = "signed-in"
  /\ leaving = NoOne /\ flight = NoFlight
  /\ mem # 0 /\ Accepted(mem)
  /\ Place(c, "revoke", session[mem].family)
  /\ leaving' = c
  /\ UNCHANGED <<version, request, device, session, events>>
  /\ UNCHANGED <<mem, disk, flight, queue, ui, login, torn>>

\* Whatever the answer, and also when the call could not be made, the local
\* session is cleared.
SignOutLocally ==
  /\ \/ leaving # NoOne /\ (Received(leaving) \/ NetworkFails)
     \/ ui = "signed-in" /\ leaving = NoOne /\ NetworkFails
  /\ leaving' = NoOne
  /\ ClearLocalSession(queue)
  /\ UNCHANGED <<disk, login, torn>>

\* A 401 that a refresh does not cure: only the device row is revoked.
StillRefused == device[session[mem].family].revoked /\ ~session[mem].replaced
                /\ ~session[mem].revoked /\ ~Stale(mem)

\* syncNow fails for want of a session, and the local session is cleared.
SyncFails ==
  /\ ui = "signed-in"
  /\ flight.stage \in {"none", "clearing"}
  /\ mem # 0 => StillRefused
  /\ ClearLocalSession(queue)
  /\ UNCHANGED authVars
  /\ UNCHANGED <<disk, login, leaving, torn>>

\* retryLocalCleanup.
RetryCleanup ==
  /\ ui = "signed-out-cleanup-required"
  /\ ClearLocalSession(queue)
  /\ UNCHANGED authVars
  /\ UNCHANGED <<disk, login, leaving, torn>>

\* The app stops and starts again: hydrate reads the bundle, and without one
\* the provider cleans up.
Restart ==
  /\ Event
  /\ torn' = (torn \/ flight # NoFlight \/ disk # mem)
  /\ mem' = disk
  /\ flight' = NoFlight
  /\ queue' = IF disk = 0 THEN <<ClearOp("cleanup")>> ELSE <<>>
  /\ ui' = IF disk = 0 THEN "signing-out" ELSE "signed-in"
  /\ login' = NoLogin
  /\ leaving' = NoOne
  /\ UNCHANGED <<version, request, device, session, call, disk>>

-----------------------------------------------------------------------------
(* The rest of the world                                                     *)

\* The devices page revokes one device, or all of them (0).
RevokeFromWeb(c, f) ==
  /\ Event
  /\ Place(c, "revoke", f)
  /\ UNCHANGED <<version, request, device, session>>
  /\ UNCHANGED clientVars

\* An answer nobody waits for any more.
AnswerLost(c) ==
  /\ c \notin {flight.call, login.call, leaving}
  /\ Received(c)
  /\ UNCHANGED clientVars

ServerStep ==
  /\ AuthStep
  /\ torn' = (torn \/ \E c \in Calls : CommitUnknown(c))
  /\ UNCHANGED <<mem, disk, flight, queue, ui, login, leaving>>

Init ==
  /\ AuthInit
  /\ mem = 0 /\ disk = 0
  /\ flight = NoFlight
  /\ queue = <<>>
  /\ ui = "signed-out-clean"
  /\ login = NoLogin
  /\ leaving = NoOne
  /\ torn = FALSE

Next ==
  \/ ServerStep
  \/ \E c \in Calls :
       \/ StartRefresh(c) \/ ExchangeCode(c) \/ SignOut(c) \/ AnswerLost(c)
       \/ \E decision \in {"approve", "cancel"} : BrowserSubmits(c, decision)
       \/ \E f \in {0} \cup DOMAIN device : RevokeFromWeb(c, f)
  \/ RefreshOk \/ RefreshRetryable \/ RefreshUnreadable \/ RefreshFails
  \/ WriteRuns \/ Publish \/ ClearOk \/ ClearFails
  \/ SignIn \/ LoginTokens \/ LoginFails
  \/ SignOutLocally \/ SyncFails \/ RetryCleanup \/ Restart

Spec == Init /\ [][Next]_vars

-----------------------------------------------------------------------------
(* Properties                                                                *)

SessionTypeOK ==
  /\ AuthTypeOK
  /\ mem \in Tokens /\ disk \in Tokens
  /\ flight \in Flight
  /\ queue \in Seq(Operation)
  /\ ui \in {"signed-in", "signing-out", "signed-out-clean", "signed-out-cleanup-required"}
  /\ login \in Login
  /\ leaving \in Calls \cup {NoOne}
  /\ torn \in BOOLEAN

\* Once no storage operation is pending, the disk holds the bundle that is in
\* memory, and an app that reports a clean sign-out and is not signing in
\* holds no bundle at all, whatever refreshes, sign-outs and restarts overlap.
LocalStateAgrees ==
  queue = <<>> =>
    /\ mem # 0 => disk = mem
    /\ ui = "signed-out-clean" /\ login = NoLogin => mem = 0 /\ disk = 0

\* The server takes a device for reused, and ends it, only if the app was
\* stopped with the disk behind, a deletion failed, or the answer to a committed
\* refresh was an error or unreadable: the app never sends a token twice of its own accord.
ReuseOnlyWhenTorn == (\E f \in DOMAIN device : device[f].reused) => torn

\* A refresh that a sign-out or sign-in has superseded leaves the state that
\* replaced it alone (the comment in refreshAndPersist).
SupersededLeavesState ==
  [][flight.stage = "calling" /\ flight'.stage = "clearing" /\ ~flight.current => mem' = mem]_vars
=============================================================================
