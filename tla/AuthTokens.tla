------------------------------ MODULE AuthTokens ------------------------------
(***************************************************************************)
(* The tokens of a signed-in user: the two stores of toledoStorage         *)
(* (storage.js), the cache of LocalStorageService over them, the three     *)
(* places that refresh the tokens (Login's automatic login, the timer of   *)
(* the sidebar, AuthTokenHandler on a 401) and the rotation on the server. *)
(*                                                                         *)
(* Any access token of the user serves for a refresh, expired or not, so   *)
(* an access token is only present or absent; refresh token n is the n-th  *)
(* the server issued, 0 none.  The two tokens are read in one action: they *)
(* are removed together, and the access token is stored first.             *)
(***************************************************************************)
EXTENDS Naturals, FiniteSets

CONSTANTS
    Tab,        \* the tabs of one browser
    Requests,   \* the API calls each tab may have in progress
    MaxTokens   \* bound: refresh tokens issued

ASSUME TokensAssumption == MaxTokens \in Nat \ {0}

Token == 0 .. MaxTokens
Store == [access : BOOLEAN, refresh : Token]
Empty == [access |-> FALSE, refresh |-> 0]

Page == "page"           \* the job of the page itself: automatic login, login, timer
Request == UNION {Requests[t] : t \in Tab}
Job == Request \union {Page}
Free == "free"

\* The job of a page and a free semaphore are not taken for an API call.
ASSUME NamesApart == Page \notin Request /\ Free \notin Request

VARIABLES
    local,      \* localStorage
    flag,       \* its auth.storageMode
    session,    \* the sessionStorage of each tab
    mode,       \* toledoStorage._authStorageMode of each tab
    cache,      \* LocalStorageService._cache of each tab
    page,       \* "auto": automatic login, "form", "login", "register": a login that
                \*   registers its device anew, "chat", "leaving"
    job,        \* the jobs of each tab: where they are, and their refresh token
    semaphore,  \* AuthTokenHandler.RefreshSemaphore of each tab: its holder
    live,       \* the refresh tokens the server has not revoked
    issued,     \* the last refresh token issued
    orphans,    \* the tokens of refresh calls whose page is gone
    upset,      \* history: an answer was lost, or a login that moved tokens to
                \*   its own store did not succeed
    taken       \* history: the tokens a login stored again after another tab had
                \*   taken them

vars == <<local, flag, session, mode, cache, page, job, semaphore, live, issued, orphans,
          upset, taken>>
pages == <<local, flag, session, mode, cache, page>>
server == <<live, issued, orphans>>
history == <<upset, taken>>

Idle == [at |-> "idle", token |-> 0]

TypeOK ==
    /\ local \in Store /\ session \in [Tab -> Store] /\ cache \in [Tab -> Store]
    /\ flag \in {"none", "local", "session"} /\ mode \in [Tab -> {"local", "session"}]
    /\ page \in [Tab -> {"auto", "form", "login", "register", "chat", "leaving"}]
    /\ job \in [Tab -> [Job -> [at : {"idle", "waiting", "woken", "reading", "posted",
                                      "found", "answered", "storing", "verifying"},
                                token : Token]]]
    /\ semaphore \in [Tab -> Request \union {Free}]
    /\ live \subseteq 1 .. issued /\ issued \in Token
    /\ orphans \subseteq Token /\ upset \in BOOLEAN /\ taken \subseteq Token

\* The user signed in earlier, to stay signed in; every tab shows the chat page.
Init ==
    /\ local = [access |-> TRUE, refresh |-> 1] /\ flag = "local"
    /\ session = [t \in Tab |-> Empty] /\ cache = [t \in Tab |-> Empty]
    /\ mode = [t \in Tab |-> "local"] /\ page = [t \in Tab |-> "chat"]
    /\ job = [t \in Tab |-> [j \in Job |-> Idle]]
    /\ semaphore = [t \in Tab |-> Free]
    /\ live = {1} /\ issued = 1 /\ orphans = {} /\ upset = FALSE /\ taken = {}

-----------------------------------------------------------------------------
(* storage.js                                                              *)

\* _getStore for the keys of the tokens.
StoreOf(t) == IF mode[t] = "session" THEN session[t] ELSE local

\* setItem in the store of tab t.
SetItems(t, s) ==
    IF mode[t] = "session"
    THEN session' = [session EXCEPT ![t] = s] /\ UNCHANGED local
    ELSE local' = s /\ UNCHANGED session

Merge(from, to) ==
    [access |-> from.access \/ to.access,
     refresh |-> IF from.refresh # 0 THEN from.refresh ELSE to.refresh]

\* A mutant: the tokens are copied.
SetStorageModeCopying(t, m) ==
    /\ mode' = [mode EXCEPT ![t] = m] /\ flag' = m
    /\ IF mode[t] = m THEN UNCHANGED <<local, session>>
       ELSE IF m = "session"
       THEN session' = [session EXCEPT ![t] = Merge(local, @)] /\ UNCHANGED local
       ELSE local' = Merge(session[t], local) /\ UNCHANGED session

\* setStorageMode moves the tokens there are.
SetStorageMode(t, m) ==
    /\ mode' = [mode EXCEPT ![t] = m] /\ flag' = m
    /\ IF mode[t] = m THEN UNCHANGED <<local, session>>
       ELSE IF m = "session"
       THEN session' = [session EXCEPT ![t] = Merge(local, @)] /\ local' = Empty
       ELSE local' = Merge(session[t], local) /\ session' = [session EXCEPT ![t] = Empty]

\* clearAuthData; the cache of LocalStorageService is not told.
ClearAuthData(t) ==
    /\ local' = Empty /\ session' = [session EXCEPT ![t] = Empty]
    /\ flag' = "none" /\ mode' = [mode EXCEPT ![t] = "local"]

-----------------------------------------------------------------------------
(* Pages and logins.                                                       *)

\* Jobs that may still have a token issued.
Unanswered ==
    {x \in Tab \X Job : job[x[1]][x[2]].at \notin {"idle", "answered", "storing", "verifying"}}

\* Bound: a job starts only if there is a token left for it.
MayStart == issued + Cardinality(Unanswered) + Cardinality(orphans) < MaxTokens

StartJob(t, j, at) ==
    /\ MayStart /\ job[t][j] = Idle
    /\ job' = [job EXCEPT ![t][j] = [at |-> at, token |-> 0]]

\* A job of tab t has an answer and has not stored it.
Storing(t) == \E j \in Job : job[t][j].at \in {"answered", "storing"}

\* A page is loaded: storage.js takes over the mode, all else starts anew.  A
\* chat page without an access token loads the login page instead.  Calls on
\* their way may still reach the server; one it is working on may be taken to
\* have been answered before the page ends.
Load(t) ==
    /\ \A j \in Job : job[t][j].at # "found"
    /\ mode' = [mode EXCEPT ![t] = IF flag = "none" THEN "local" ELSE flag]
    /\ \E p \in {"auto", "chat"} :
         /\ p = "chat" => (IF flag = "session" THEN session[t] ELSE local).access
         /\ p = "auto" \/ page[t] # "leaving"
         /\ page' = [page EXCEPT ![t] = p]
    /\ MayStart
    /\ cache' = [cache EXCEPT ![t] = Empty]
    /\ job' = [job EXCEPT ![t] = [j \in Job |->
            IF j = Page /\ page'[t] = "auto" THEN [Idle EXCEPT !.at = "reading"] ELSE Idle]]
    /\ semaphore' = [semaphore EXCEPT ![t] = Free]
    /\ orphans' = orphans \union
            {job[t][j].token : j \in {k \in Job : job[t][k].at = "posted" /\ job[t][k].token # 0}}
    /\ upset' = (upset \/ Storing(t) \/ (page[t] = "login" /\ job[t][Page].at = "posted"))
    /\ UNCHANGED <<local, flag, session, live, issued, taken>>

\* The logout button loads the login page with ?logout, which clears the
\* tokens; the server is not told.
Logout(t) ==
    /\ page[t] = "chat" /\ \A j \in Job : job[t][j] = Idle
    /\ ClearAuthData(t)
    /\ cache' = [cache EXCEPT ![t] = Empty]
    /\ page' = [page EXCEPT ![t] = "form"]
    /\ UNCHANGED <<job, semaphore, server, history>>

\* HandleLogin up to the answer of the server; token 0 stands for the password.
Login(t) ==
    /\ page[t] = "form"
    /\ StartJob(t, Page, "posted")
    /\ page' = [page EXCEPT ![t] = "login"]
    /\ cache' = [cache EXCEPT ![t] = Empty]
    /\ \E m \in {"local", "session"} : SetStorageMode(t, m)
    /\ UNCHANGED <<semaphore, server, history>>

\* The server accepts the password.
Authenticate(t) ==
    /\ page[t] = "login" /\ job[t][Page].at = "posted"
    /\ issued' = issued + 1 /\ live' = live \union {issued + 1}
    /\ job' = [job EXCEPT ![t][Page] = [at |-> "answered", token |-> issued + 1]]
    /\ UNCHANGED <<pages, semaphore, orphans, history>>

\* It does not, or does not answer: the form remains, in the mode it has set.
LoginFails(t) ==
    /\ page[t] = "login" /\ job[t][Page].at = "posted"
    /\ page' = [page EXCEPT ![t] = "form"]
    /\ job' = [job EXCEPT ![t][Page] = Idle]
    /\ upset' = (upset \/ StoreOf(t).refresh # 0)
    /\ UNCHANGED <<local, flag, session, mode, cache, semaphore, server, taken>>

\* The timer of the sidebar, two minutes before the access token expires.
Timer(t) ==
    /\ page[t] = "chat"
    /\ StartJob(t, Page, "reading")
    /\ UNCHANGED <<pages, semaphore, server, history>>

\* An API call is answered 401: it takes the semaphore if that is free, and
\* waits for it otherwise.
Expired(t, r) ==
    /\ page[t] = "chat"
    /\ StartJob(t, r, IF semaphore[t] = Free THEN "reading" ELSE "waiting")
    /\ semaphore' = [semaphore EXCEPT ![t] = IF @ = Free THEN r ELSE @]
    /\ UNCHANGED <<pages, server, history>>

-----------------------------------------------------------------------------
(* A refresh, the same in all three places.                                *)

Waiters(t) == {r \in Request : job[t][r].at = "waiting"}

\* A mutant: the semaphore is released only by a refresh that succeeded.
ReleaseIfStored(t, j) ==
    /\ job' = [job EXCEPT ![t][j] = Idle]
    /\ semaphore' = IF job[t][j].at = "storing" THEN [semaphore EXCEPT ![t] = Free]
                    ELSE semaphore

\* A call of the handler ends and releases the semaphore, to a waiting call if
\* there is one.
Release(t, j) ==
    IF Waiters(t) = {}
    THEN /\ job' = [job EXCEPT ![t][j] = Idle]
         /\ semaphore' = [semaphore EXCEPT ![t] = Free]
    ELSE \E r \in Waiters(t) :
         /\ job' = [job EXCEPT ![t][j] = Idle, ![t][r].at = "woken"]
         /\ semaphore' = [semaphore EXCEPT ![t] = r]

\* A call that waited releases the semaphore at once and repeats its request.
Woken(t, r) ==
    /\ job[t][r].at = "woken"
    /\ Release(t, r)
    /\ UNCHANGED <<pages, server, history>>

\* The job ends without new tokens.  Automatic login clears what it finds
\* refused and shows the form; the timer loads the login page.
Fail(t, j, refused) ==
    IF j # Page
    THEN Release(t, j) /\ UNCHANGED pages
    ELSE /\ job' = [job EXCEPT ![t][j] = Idle]
         /\ page' = [page EXCEPT ![t] = IF @ = "auto" THEN "form" ELSE "leaving"]
         /\ IF refused /\ page[t] = "auto" THEN ClearAuthData(t)
            ELSE UNCHANGED <<local, flag, session, mode>>
         /\ UNCHANGED <<cache, semaphore>>

\* GetAsync of both keys, from the cache where it has them.
ReadTokens(t, j) ==
    LET seen == Merge(cache[t], StoreOf(t))
    IN  /\ job[t][j].at = "reading"
        /\ IF seen.access /\ seen.refresh # 0
           THEN /\ job' = [job EXCEPT ![t][j] = [at |-> "posted", token |-> seen.refresh]]
                /\ cache' = [cache EXCEPT ![t] = seen]
                /\ UNCHANGED <<local, flag, session, mode, page, semaphore>>
           ELSE Fail(t, j, FALSE)
        /\ UNCHANGED <<server, history>>

\* The server looks the token up.
FindToken(t, j) ==
    /\ job[t][j].at = "posted" /\ job[t][j].token # 0
    /\ IF job[t][j].token \in live
       THEN job' = [job EXCEPT ![t][j].at = "found"] /\ UNCHANGED <<pages, semaphore>>
       ELSE Fail(t, j, TRUE)
    /\ UNCHANGED <<server, history>>

\* A mutant: all tokens of the user are revoked.
RevokedAll(token) == {}

\* What stays unrevoked when a token is exchanged.
Revoked(token) == live \ {token}

\* The server revokes the token it found, even if another call has had it
\* revoked meanwhile, and issues a new one.
Rotate(t, j) ==
    /\ job[t][j].at = "found"
    /\ issued' = issued + 1
    /\ live' = Revoked(job[t][j].token) \union {issued + 1}
    /\ job' = [job EXCEPT ![t][j] = [at |-> "answered", token |-> issued + 1]]
    /\ UNCHANGED <<pages, semaphore, orphans, history>>

\* The call of a page that is gone reaches the server after all, or never.
RotateOrphan(token) ==
    /\ token \in orphans
    /\ orphans' = orphans \ {token}
    /\ \/ /\ token \in live
          /\ issued' = issued + 1 /\ live' = Revoked(token) \union {issued + 1}
          /\ upset' = TRUE
       \/ UNCHANGED <<live, issued, upset>>
    /\ UNCHANGED <<pages, job, semaphore, taken>>

\* The connection fails before the server has the call, or with its answer.
Lost(t, j) ==
    /\ job[t][j].at \in {"posted", "answered"} /\ ~(j = Page /\ page[t] \in {"login", "register"})
    /\ Fail(t, j, FALSE)
    /\ upset' = (upset \/ job[t][j].at = "answered")
    /\ UNCHANGED <<server, taken>>

StoreAccess(t, j) ==
    /\ job[t][j].at = "answered"
    /\ SetItems(t, [StoreOf(t) EXCEPT !.access = TRUE])
    /\ cache' = [cache EXCEPT ![t].access = TRUE]
    /\ job' = [job EXCEPT ![t][j].at = "storing"]
    /\ UNCHANGED <<flag, mode, page, semaphore, server, history>>

\* The new tokens are stored.  Automatic login goes to the chat page; a login
\* goes on to verify or register its device.
StoreRefresh(t, j) ==
    /\ job[t][j].at = "storing"
    /\ SetItems(t, [StoreOf(t) EXCEPT !.refresh = job[t][j].token])
    /\ cache' = [cache EXCEPT ![t].refresh = job[t][j].token]
    /\ IF j # Page
       THEN Release(t, j) /\ UNCHANGED page
       ELSE /\ UNCHANGED semaphore
            /\ IF page[t] \in {"login", "register"}
               THEN job' = [job EXCEPT ![t][j].at = "verifying"] /\ UNCHANGED page
               ELSE /\ job' = [job EXCEPT ![t][j] = Idle]
                    /\ page' = [page EXCEPT ![t] = IF @ = "auto" THEN "chat" ELSE @]
    /\ UNCHANGED <<flag, mode, server, history>>

\* The server knows the device, or does not say, or registers a new one; the
\* form remains where that fails or a call is not answered.
LoginEnds(t) ==
    /\ job[t][Page].at = "verifying"
    /\ \E p \in {"chat", "form"} : page' = [page EXCEPT ![t] = p]
    /\ job' = [job EXCEPT ![t][Page] = Idle]
    /\ UNCHANGED <<local, flag, session, mode, cache, semaphore, server, history>>

\* Another tab has the refresh token, or has exchanged it.
HasTaken(t, token) ==
    \/ token \notin live
    \/ \E u \in Tab \ {t} : \/ session[u].refresh = token \/ cache[u].refresh = token
                           \/ \E j \in Job : job[u][j].token = token

\* The server no longer knows the device: the tokens are cleared, of every tab
\* that uses this store, and stored again in the mode that clearAuthData leaves.
StaleDevice(t) ==
    /\ page[t] = "login" /\ job[t][Page].at = "verifying"
    /\ ClearAuthData(t)
    /\ page' = [page EXCEPT ![t] = "register"]
    /\ job' = [job EXCEPT ![t][Page].at = "answered"]
    /\ taken' = IF HasTaken(t, job[t][Page].token) THEN taken \union {job[t][Page].token}
               ELSE taken
    /\ UNCHANGED <<cache, semaphore, server, upset>>

-----------------------------------------------------------------------------

JobStep(t, j) ==
    \/ ReadTokens(t, j) \/ FindToken(t, j) \/ Rotate(t, j) \/ Lost(t, j)
    \/ StoreAccess(t, j) \/ StoreRefresh(t, j) \/ Woken(t, j)

Next ==
    \/ \E t \in Tab : \/ Load(t) \/ Logout(t) \/ Login(t) \/ Authenticate(t) \/ LoginFails(t)
                      \/ Timer(t) \/ LoginEnds(t) \/ StaleDevice(t)
                      \/ \E r \in Requests[t] : Expired(t, r)
                      \/ \E j \in Job : JobStep(t, j)
    \/ \E token \in orphans : RotateOrphan(token)

\* A call is answered or times out, and what was awaited goes on.
Fairness == \A t \in Tab : \A r \in Requests[t] : WF_vars(JobStep(t, r))

Spec == Init /\ [][Next]_vars /\ Fairness

-----------------------------------------------------------------------------

AtRest == orphans = {} /\ \A t \in Tab, j \in Job : job[t][j] = Idle

\* Whatever refreshes overlap, of one tab or of several that cache tokens the
\* others have exchanged: once all have ended, a stored refresh token is one the
\* server still accepts, so that the next load of a page signs in again (Refresh
\* rotates, StoreAsync writes through).  Not so once an answer was lost, a login
\* did not succeed after it had moved tokens to its own store, or a login stored
\* its tokens again that another tab had taken meanwhile.
StoredStaysLive ==
    AtRest /\ ~upset /\ taken = {} => /\ local.refresh \in live \union {0}
                                     /\ \A t \in Tab : session[t].refresh \in live \union {0}

\* A refresh token has one place: moved between the stores, never copied, or
\* the copy would be refused after the first exchange (setStorageMode).  Only a
\* token that a login stores again may by then be in the store of another tab.
OnePlace ==
    \A t, u \in Tab : session[t].refresh \notin {0} \union taken =>
        /\ session[t].refresh # local.refresh
        /\ t # u => session[t].refresh # session[u].refresh

\* Every API call that was answered 401 comes to an end, whatever refresh it
\* waits for (RefreshSemaphore is released on every path).
RequestsEnd == \A t \in Tab : \A r \in Requests[t] : job[t][r] # Idle ~> job[t][r] = Idle
=============================================================================
