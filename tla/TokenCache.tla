----------------------------- MODULE TokenCache -----------------------------
(***************************************************************************)
(* The access-token life cycle of pyruijie.client.RuijieClient: the token  *)
(* an instance holds, the process-wide _TOKEN_CACHE every instance shares, *)
(* and the request path that obtains, sends, drops and renews a token.     *)
(*                                                                         *)
(* Threads run calls on instances (Instance[t]); two instances of one      *)
(* account share a cache entry.  A step is what runs between two points    *)
(* where another thread may be scheduled and matter: a region under        *)
(* _TOKEN_CACHE_LOCK, an assignment of the instance's token, or one        *)
(* direction of an HTTP exchange.                                          *)
(***************************************************************************)
EXTENDS Naturals

CONSTANTS
    Threads,        \* threads of the process
    Clients,        \* RuijieClient instances
    Instance,       \* [Threads -> Clients]: the instance a thread works on
    Text,           \* strings
    Credential,     \* [Clients -> Account]
    Accepted,       \* credentials the auth endpoint accepts
    NoApi,          \* the api_token of a client that has none configured
    Tokens,         \* access tokens the cloud can mint (bounds the mints)
    NoToken,        \* None
    Ttls,           \* lifetimes a mint may be given (expiresIn or token_ttl)
    ExpiryBuffer,   \* _EXPIRY_BUFFER_SECONDS
    Budget,         \* length of a caller's deadline
    Never,          \* a call without deadline
    MaxTime         \* bounds the clock

\* The arguments of RuijieClient(...) a token is scoped to.
Account == [base: Text, app: Text, api: Text, secret: Text]

ASSUME TokenCacheAssumption ==
    /\ Instance \in [Threads -> Clients]
    /\ Credential \in [Clients -> Account]
    /\ NoToken \notin Tokens \cup Account
    /\ Ttls \subseteq Nat
    /\ ExpiryBuffer \in Nat
    /\ Budget \in Nat
    /\ MaxTime \in Nat
    /\ Never \notin Nat

VARIABLES
    now,       \* time.monotonic()
    held,      \* [Clients -> Entry]: _access_token and _expires_at
    cache,     \* [Keys -> Entry]: _TOKEN_CACHE, NoEntry where a key is absent
    owner,     \* [Tokens -> credential it was minted for, or NoToken]
    live,      \* tokens the cloud still honours
    pc,        \* [Threads -> control state]
    call,      \* [Threads -> kind of call in progress]
    due,       \* [Threads -> deadline of that call]
    again,     \* [Threads -> BOOLEAN]: the one retry has been used
    minted,    \* [Threads -> token of the auth response being handled]
    sent,      \* [Threads -> sent_token of _request]
    wire,      \* [Threads -> access_token parameter _send put in the request]
    answer,    \* [Threads -> business outcome of the last response]
    result,    \* [Threads -> how the last request ended]
    sends,     \* history: [Threads -> requests sent by the current call]
    carried,   \* history: [Threads -> times the cloud executed that call]
    rejected   \* history: [Clients -> tokens whose rejection was handled]

server == <<owner, live>>
locals == <<due, again, minted, sent, wire, answer>>
history == <<sends, carried, rejected>>
vars == <<now, held, cache, server, pc, call, locals, result, history>>

Creds == {Credential[c] : c \in Clients}
Entry == [token: Tokens \cup {NoToken}, expires: Nat]
NoEntry == [token |-> NoToken, expires |-> 0]

Requests == {"GET", "WRITE"}
Calls == Requests \cup {"AUTH", "INVALIDATE"}
Control == {"idle", "ensure", "auth", "lookup", "fetch", "store", "publish",
            "capture", "send", "wait", "answered", "dropHeld", "dropCached",
            "popCached"}

\* Mutant: the key leaves the secret out.
CacheKeyNoSecret(cred) == <<cred.base, cred.app, cred.api>>

\* _cache_key: every credential takes part; the secret as a digest.
CacheKey(cred) == <<cred.base, cred.app, cred.api, cred.secret>>
Key(t) == CacheKey(Credential[Instance[t]])
Keys == {CacheKey(cred) : cred \in Creds}

\* Mutant: the lifetime is not clamped at zero.
MaxUnclamped(n, m) == n - m

\* max(n - m, 0)
Max0(n, m) == IF n > m THEN n - m ELSE 0
Fresh(e) == e.token # NoToken /\ now < e.expires

Init ==
    /\ now = 0
    /\ held = [c \in Clients |-> NoEntry]
    /\ cache = [k \in Keys |-> NoEntry]
    /\ owner = [tok \in Tokens |-> NoToken]
    /\ live = {}
    /\ pc = [t \in Threads |-> "idle"]
    /\ call = [t \in Threads |-> "none"]
    /\ due = [t \in Threads |-> Never]
    /\ again = [t \in Threads |-> FALSE]
    /\ minted = [t \in Threads |-> NoToken]
    /\ sent = [t \in Threads |-> NoToken]
    /\ wire = [t \in Threads |-> NoToken]
    /\ answer = [t \in Threads |-> "none"]
    /\ result = [t \in Threads |-> "none"]
    /\ sends = [t \in Threads |-> 0]
    /\ carried = [t \in Threads |-> 0]
    /\ rejected = [c \in Clients |-> {}]

-----------------------------------------------------------------------------
(* Control flow shared by the steps. *)

At(t, s) == pc[t] = s
GoTo(t, s) == pc' = [pc EXCEPT ![t] = s] /\ UNCHANGED <<call, locals, result>>

\* The call returns (how = "ok") or raises ("error"); its locals are gone.
\* Only a request's outcome is recorded.
End(t, how) ==
    /\ pc' = [pc EXCEPT ![t] = "idle"]
    /\ call' = [call EXCEPT ![t] = "none"]
    /\ due' = [due EXCEPT ![t] = Never]
    /\ again' = [again EXCEPT ![t] = FALSE]
    /\ minted' = [minted EXCEPT ![t] = NoToken]
    /\ sent' = [sent EXCEPT ![t] = NoToken]
    /\ wire' = [wire EXCEPT ![t] = NoToken]
    /\ answer' = [answer EXCEPT ![t] = "none"]
    /\ result' = IF call[t] \in Requests THEN [result EXCEPT ![t] = how]
                                         ELSE result

\* authenticate() has returned: to its caller, or to the request it serves.
Authenticated(t) ==
    IF call[t] = "AUTH" THEN End(t, "ok") ELSE GoTo(t, "capture")

\* _request_timeout_for_deadline raises.
Overdue(t) == due[t] # Never /\ now >= due[t]

\* Mutant: writes are retried too.
MayRetryAny(t) == ~again[t]

\* Only an idempotent read is sent again, and only once.
MayRetry(t) == call[t] = "GET" /\ ~again[t]

-----------------------------------------------------------------------------
(* Calls on an instance. *)

\* _request(method, ..., deadline): only the listing reads pass a deadline.
StartRequest(t) ==
    /\ At(t, "idle")
    /\ \E m \in Requests, d \in {Never, now + Budget} :
        /\ d # Never => m = "GET"
        /\ call' = [call EXCEPT ![t] = m]
        /\ due' = [due EXCEPT ![t] = d]
    /\ pc' = [pc EXCEPT ![t] = "ensure"]
    /\ result' = [result EXCEPT ![t] = "none"]
    /\ sends' = [sends EXCEPT ![t] = 0]
    /\ carried' = [carried EXCEPT ![t] = 0]
    /\ UNCHANGED <<now, held, cache, server, again, minted, sent, wire, answer,
                   rejected>>

\* authenticate(force): a forced call skips the instance's token and the cache.
StartAuthenticate(t) ==
    /\ At(t, "idle")
    /\ \E s \in {"auth", "fetch"} : pc' = [pc EXCEPT ![t] = s]
    /\ call' = [call EXCEPT ![t] = "AUTH"]
    /\ UNCHANGED <<now, held, cache, server, locals, result, history>>

\* invalidate(): the instance's token first, the shared entry next.
Invalidate(t) ==
    /\ At(t, "idle")
    /\ held' = [held EXCEPT ![Instance[t]] = NoEntry]
    /\ pc' = [pc EXCEPT ![t] = "popCached"]
    /\ call' = [call EXCEPT ![t] = "INVALIDATE"]
    /\ UNCHANGED <<now, cache, server, locals, result, history>>

PopCached(t) ==
    /\ At(t, "popCached")
    /\ cache' = [cache EXCEPT ![Key(t)] = NoEntry]
    /\ End(t, "ok")
    /\ UNCHANGED <<now, held, server, history>>

\* clear_token_cache()
ClearTokenCache ==
    /\ cache' = [k \in Keys |-> NoEntry]
    /\ UNCHANGED <<now, held, server, pc, call, locals, result, history>>

-----------------------------------------------------------------------------
(* Obtaining a token. *)

\* _ensure_auth: the deadline, then the instance's token.
EnsureAuth(t) ==
    /\ At(t, "ensure")
    /\ \/ Overdue(t) /\ End(t, "error")
       \/ ~Overdue(t) /\ Fresh(held[Instance[t]]) /\ GoTo(t, "capture")
       \/ ~Overdue(t) /\ ~Fresh(held[Instance[t]]) /\ GoTo(t, "auth")
    /\ UNCHANGED <<now, held, cache, server, history>>

\* authenticate: the fast path looks at the instance's token again.
Authenticate(t) ==
    /\ At(t, "auth")
    /\ IF Fresh(held[Instance[t]]) THEN Authenticated(t) ELSE GoTo(t, "lookup")
    /\ UNCHANGED <<now, held, cache, server, history>>

\* authenticate, under the lock: adopt a token that a sibling minted.
Lookup(t) ==
    /\ At(t, "lookup")
    /\ IF Fresh(cache[Key(t)])
       THEN /\ held' = [held EXCEPT ![Instance[t]] = cache[Key(t)]]
            /\ Authenticated(t)
       ELSE GoTo(t, "fetch") /\ UNCHANGED held
    /\ UNCHANGED <<now, cache, server, history>>

\* _fetch_token raises: no api_token, refused credentials, HTTP or transport
\* error.
FetchFails(t) ==
    /\ At(t, "fetch")
    /\ End(t, "error")
    /\ UNCHANGED <<now, held, cache, server, history>>

\* _fetch_token: the auth endpoint mints a token for the credentials it got.
FetchMints(t) ==
    /\ At(t, "fetch")
    /\ Credential[Instance[t]].api # NoApi
    /\ Credential[Instance[t]] \in Accepted
    /\ \E tok \in Tokens :
        /\ owner[tok] = NoToken
        /\ owner' = [owner EXCEPT ![tok] = Credential[Instance[t]]]
        /\ live' = live \cup {tok}
        /\ minted' = [minted EXCEPT ![t] = tok]
    /\ pc' = [pc EXCEPT ![t] = "store"]
    /\ UNCHANGED <<now, held, cache, call, due, again, sent, wire, answer,
                   result, history>>

\* _fetch_token: the lifetime starts when the answer is in, less the buffer.
Store(t) ==
    /\ At(t, "store")
    /\ \E ttl \in Ttls :
        held' = [held EXCEPT ![Instance[t]] =
                    [token |-> minted[t],
                     expires |-> now + Max0(ttl, ExpiryBuffer)]]
    /\ GoTo(t, "publish")
    /\ UNCHANGED <<now, cache, server, history>>

\* _fetch_token, under the lock: what the instance holds now is published.
Publish(t) ==
    /\ At(t, "publish")
    /\ cache' = [cache EXCEPT ![Key(t)] = held[Instance[t]]]
    /\ Authenticated(t)
    /\ UNCHANGED <<now, held, server, history>>

-----------------------------------------------------------------------------
(* Sending a request. *)

\* _request: the deadline once more, then sent_token = self._access_token.
Capture(t) ==
    /\ At(t, "capture")
    /\ IF Overdue(t) THEN End(t, "error")
       ELSE /\ sent' = [sent EXCEPT ![t] = held[Instance[t]].token]
            /\ pc' = [pc EXCEPT ![t] = "send"]
            /\ UNCHANGED <<call, due, again, minted, wire, answer, result>>
    /\ UNCHANGED <<now, held, cache, server, history>>

\* _send: the instance's token is read again for the request's parameters.
Send(t) ==
    /\ At(t, "send")
    /\ wire' = [wire EXCEPT ![t] = held[Instance[t]].token]
    /\ sends' = [sends EXCEPT ![t] = @ + 1]
    /\ pc' = [pc EXCEPT ![t] = "wait"]
    /\ UNCHANGED <<now, held, cache, server, call, due, again, minted, sent,
                   answer, result, carried, rejected>>

Answered(t, how) ==
    /\ answer' = [answer EXCEPT ![t] = how]
    /\ pc' = [pc EXCEPT ![t] = "answered"]
    /\ UNCHANGED <<now, held, cache, server, call, due, again, minted, sent,
                   wire, result, sends, rejected>>

CarryOut(t) == carried' = [carried EXCEPT ![t] = @ + 1]

\* The cloud honours the token: code 0, or a business error of its own.
CloudAnswers(t) ==
    /\ At(t, "wait") /\ wire[t] \in live
    /\ \/ CarryOut(t) /\ Answered(t, "ok")
       \/ UNCHANGED carried /\ Answered(t, "refused")

\* The cloud expired the token (code in _TOKEN_EXPIRED_CODES), or got none.
CloudRejects(t) ==
    /\ At(t, "wait") /\ wire[t] \notin live
    /\ \/ Answered(t, "expired")
       \/ wire[t] = NoToken /\ Answered(t, "refused")
    /\ UNCHANGED carried

\* Mutant: a request whose exchange failed is sent again.
ExchangeRetried(t) ==
    /\ At(t, "wait")
    /\ \/ wire[t] \in live /\ CarryOut(t)
       \/ UNCHANGED carried
    /\ GoTo(t, "ensure")
    /\ UNCHANGED <<now, held, cache, server, sends, rejected>>

\* _send raises: HTTP status or transport error; the cloud may have acted.
ExchangeFails(t) ==
    /\ At(t, "wait")
    /\ \/ wire[t] \in live /\ CarryOut(t)
       \/ UNCHANGED carried
    /\ End(t, "error")
    /\ UNCHANGED <<now, held, cache, server, sends, rejected>>

\* _send checks the deadline on the way back; _request looks at the code.
HandleAnswer(t) ==
    /\ At(t, "answered")
    /\ \/ Overdue(t) /\ End(t, "error")
       \/ ~Overdue(t) /\ answer[t] = "ok" /\ End(t, "ok")
       \/ ~Overdue(t) /\ answer[t] = "refused" /\ End(t, "error")
       \/ ~Overdue(t) /\ answer[t] = "expired" /\ GoTo(t, "dropHeld")
    /\ UNCHANGED <<now, held, cache, server, history>>

-----------------------------------------------------------------------------
(* Dropping a token the cloud rejected. *)

\* _drop_expired_token: the instance forgets whatever token it holds.
DropHeld(t) ==
    /\ At(t, "dropHeld")
    /\ held' = [held EXCEPT ![Instance[t]] = NoEntry]
    /\ GoTo(t, "dropCached")
    /\ UNCHANGED <<now, cache, server, history>>

\* Mutant: the shared entry goes whatever it holds.
IsAnyEntry(t, e) == e # NoEntry

\* Mutant: only the instance forgets the dead token.
IsNeverDead(t, e) == FALSE

\* The shared entry goes only while it still holds the dead token.
IsDead(t, e) == e # NoEntry /\ e.token = sent[t]

\* _drop_expired_token, under the lock; then _request retries a read once.
DropCached(t) ==
    /\ At(t, "dropCached")
    /\ cache' = IF IsDead(t, cache[Key(t)])
                THEN [cache EXCEPT ![Key(t)] = NoEntry] ELSE cache
    /\ rejected' = [rejected EXCEPT ![Instance[t]] =
                        @ \cup ({wire[t]} \ {NoToken})]
    /\ IF MayRetry(t)
       THEN /\ pc' = [pc EXCEPT ![t] = "ensure"]
            /\ again' = [again EXCEPT ![t] = TRUE]
            /\ UNCHANGED <<call, due, minted, sent, wire, answer, result>>
       ELSE End(t, "error")
    /\ UNCHANGED <<now, held, server, sends, carried>>

-----------------------------------------------------------------------------
(* The environment. *)

\* The cloud expires a session early.
ServerExpires(tok) ==
    /\ tok \in live
    /\ live' = live \ {tok}
    /\ UNCHANGED <<now, held, cache, owner, pc, call, locals, result, history>>

Tick ==
    /\ now < MaxTime
    /\ now' = now + 1
    /\ UNCHANGED <<held, cache, server, pc, call, locals, result, history>>

\* A step of a call in progress.
Step(t) ==
    \/ PopCached(t)
    \/ EnsureAuth(t) \/ Authenticate(t) \/ Lookup(t)
    \/ FetchFails(t) \/ FetchMints(t) \/ Store(t) \/ Publish(t)
    \/ Capture(t) \/ Send(t)
    \/ CloudAnswers(t) \/ CloudRejects(t) \/ ExchangeFails(t)
    \/ HandleAnswer(t) \/ DropHeld(t) \/ DropCached(t)

Start(t) == StartRequest(t) \/ StartAuthenticate(t) \/ Invalidate(t)

Next ==
    \/ \E t \in Threads : Start(t) \/ Step(t)
    \/ \E tok \in Tokens : ServerExpires(tok)
    \/ ClearTokenCache
    \/ Tick

Spec == Init /\ [][Next]_vars

\* Threads are scheduled, and every HTTP exchange ends: httpx is created with
\* a timeout.  Nothing else is assumed of the cloud.
FairSpec == Spec /\ \A t \in Threads : WF_vars(Step(t))

-----------------------------------------------------------------------------
(* Properties. *)

CallTypeOK ==
    /\ pc \in [Threads -> Control]
    /\ call \in [Threads -> Calls \cup {"none"}]
    /\ due \in [Threads -> Nat \cup {Never}]
    /\ again \in [Threads -> BOOLEAN]
    /\ minted \in [Threads -> Tokens \cup {NoToken}]
    /\ sent \in [Threads -> Tokens \cup {NoToken}]
    /\ wire \in [Threads -> Tokens \cup {NoToken}]
    /\ answer \in [Threads -> {"none", "ok", "refused", "expired"}]
    /\ result \in [Threads -> {"none", "ok", "error"}]

HistoryTypeOK ==
    /\ sends \in [Threads -> Nat]
    /\ carried \in [Threads -> Nat]
    /\ rejected \in [Clients -> SUBSET Tokens]

\* Every variable keeps its type; in particular no lifetime is negative.
TypeOK ==
    /\ now \in Nat
    /\ held \in [Clients -> Entry]
    /\ cache \in [Keys -> Entry]
    /\ owner \in [Tokens -> Creds \cup {NoToken}]
    /\ live \subseteq Tokens
    /\ CallTypeOK
    /\ HistoryTypeOK

\* A write goes out at most once and a read at most twice, whatever expires
\* while the call runs ("writes are never replayed", client.py 38-41).
NeverReplayed ==
    \A t \in Threads :
        /\ call[t] = "WRITE" => sends[t] <= 1
        /\ call[t] = "GET" => sends[t] <= 2

\* A token stays with the credentials it was minted for, wherever it is kept
\* or sent: after a rotation, or between two accounts that differ in one
\* credential only, no token bleeds across (client.py 66-71).
NoCredentialBleed ==
    /\ \A c \in Clients :
        held[c].token # NoToken => owner[held[c].token] = Credential[c]
    /\ \A t \in Threads :
        wire[t] # NoToken => owner[wire[t]] = Credential[Instance[t]]

\* Once an instance has handled the rejection of a token, neither it nor the
\* cache entry it draws on holds that token again (client.py 307, 263-276).
\* Holds where no two threads share an instance.
DeadTokenForgotten ==
    \A c \in Clients :
        /\ held[c].token \notin rejected[c]
        /\ cache[CacheKey(Credential[c])].token \notin rejected[c]

\* Handling a rejection never takes from the cache a token the cloud still
\* honours, such as one that a sibling has just minted: only invalidate() and
\* clear_token_cache() (which leaves every thread where it was) do that.
DropSparesLiveTokens ==
    [][\A k \in Keys :
        cache[k].token \in live /\ cache'[k].token = NoToken =>
            \/ pc' = pc
            \/ \E t \in Threads : At(t, "popCached") /\ pc'[t] # pc[t]]_vars

\* Once the cloud stops expiring sessions, the tokens it did expire drain out
\* of the instances and the cache: rejections come to an end even if no local
\* lifetime ever runs out.
DeadTokensDrain ==
    (<>[][\A tok \in Tokens : ~ServerExpires(tok)]_vars)
        => <>[][\A t \in Threads : ~CloudRejects(t)]_vars

\* The request path keeps the promise of CloudCall.
Promise == INSTANCE CloudCall WITH
    status <- [t \in Threads |->
                  IF call[t] \in Requests THEN "open" ELSE "closed"],
    outcome <- result

KeepsPromise == Promise!CallSpec
-----------------------------------------------------------------------------
(* What the properties above rest on: invariants that every step preserves. *)

\* The control states in which a request, or authenticate(), can be.
InRequest == {"ensure", "capture", "send", "wait", "answered", "dropHeld", "dropCached"}
InAuth == {"auth", "lookup", "fetch", "store", "publish"}
\* The control states after a request was sent and before it is sent again.
Outstanding == {"wait", "answered", "dropHeld", "dropCached"}

\* Where a thread is agrees with what it runs; only a read is on its retry.
ControlInv ==
    \A t \in Threads :
        /\ pc[t] = "idle" => call[t] = "none"
        /\ pc[t] = "popCached" => call[t] = "INVALIDATE"
        /\ pc[t] \in InRequest => call[t] \in Requests
        /\ pc[t] \in InAuth => call[t] \in Requests \cup {"AUTH"}
        /\ again[t] => call[t] = "GET"

\* The requests sent by a call are the ones its control state accounts for.
SendInv ==
    \A t \in Threads : call[t] \in Requests =>
        sends[t] = (IF again[t] THEN 1 ELSE 0)
                     + (IF pc[t] \in Outstanding THEN 1 ELSE 0)

\* A call was carried out exactly when its good answer is about to be handled.
CarriedInv ==
    \A t \in Threads : call[t] \in Requests =>
        carried[t] = IF pc[t] = "answered" /\ answer[t] = "ok" THEN 1 ELSE 0

\* Whoever keeps a token keeps one of its own credential.
OwnedBy(tok, cred) == tok # NoToken => owner[tok] = cred
OwnerInv ==
    /\ \A c \in Clients : OwnedBy(held[c].token, Credential[c])
    /\ \A cred \in Creds : OwnedBy(cache[CacheKey(cred)].token, cred)
    /\ \A t \in Threads : /\ OwnedBy(minted[t], Credential[Instance[t]])
                          /\ OwnedBy(wire[t], Credential[Instance[t]])

\* No two threads share an instance.
OneThreadEach == \A t, u \in Threads : Instance[t] = Instance[u] => t = u

\* A token that a thread has minted and not published yet is known to its
\* instance only.
Publishing == {"store", "publish"}
Secret(t) ==
    /\ minted[t] # NoToken
    /\ \A k \in Keys : cache[k].token # minted[t]
    /\ \A c \in Clients : held[c].token = minted[t] => c = Instance[t]
    /\ \A u \in Threads \ {t} : wire[u] # minted[t] /\ minted[u] # minted[t]
    /\ \A c \in Clients : minted[t] \notin rejected[c]
SecretInv ==
    \A t \in Threads :
        /\ pc[t] \in Publishing => Secret(t)
        /\ pc[t] = "publish" => held[Instance[t]].token = minted[t]

\* What was rejected had been minted; the token that a thread took note of is
\* the one it sends, and its instance lets go of it before the cache does.
RejectionInv ==
    /\ \A c \in Clients : \A tok \in rejected[c] : owner[tok] # NoToken
    /\ \A t \in Threads :
        /\ pc[t] = "send" => sent[t] = held[Instance[t]].token
        /\ pc[t] \in Outstanding => sent[t] = wire[t]
        /\ pc[t] = "dropCached" => held[Instance[t]].token = NoToken

DeadInv == SecretInv /\ RejectionInv /\ DeadTokenForgotten

==============================================================================
