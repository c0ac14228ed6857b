---------------------------- MODULE ServiceWorker ----------------------------
(***************************************************************************)
(* service-worker.js: the caches of the static assets over several         *)
(* deployments.  Every deployment changes the assets and CACHE_VERSION, as *)
(* the file asks for; version v of an asset is written v, 0 is none.       *)
(* Requests to /api/, /hubs/ and /_framework/ touch no cache and are left  *)
(* out, and so is the number of pages: requests come from any of them.     *)
(***************************************************************************)
EXTENDS Naturals, Sequences

CONSTANTS
    Asset,        \* the URLs the pages ask for
    Static,       \* STATIC_ASSETS, the offline page among them
    Offline,      \* /offline.html
    Request,      \* bound: requests in progress at a time
    MaxVersion    \* bound: deployments

Version == 1 .. MaxVersion
Absent == [a \in Asset |-> 0]

VARIABLES
    deployed,  \* the version on the server
    worker,    \* the life cycle of each version's worker
    caches,    \* the named caches in the order of their creation
    request,   \* the fetch events, each with the worker that handles it
    puts       \* the responses still to be cached (the put is not awaited)

vars == <<deployed, worker, caches, request, puts>>

Idle == [at |-> "idle"]

TypeOK ==
    /\ deployed \in Version
    /\ worker \in [Version -> {"new", "installing", "activating", "active", "redundant"}]
    /\ caches \in Seq([name : Version, has : [Asset -> 0 .. MaxVersion]])
    /\ \A i, j \in DOMAIN caches : caches[i].name = caches[j].name => i = j
    /\ request \in [Request -> {Idle} \union
            [at : {"match", "fetch", "served"}, by : Version, url : Asset, got : 0 .. MaxVersion]]
    /\ puts \subseteq [by : Version, url : Asset, got : Version]

\* The first version is deployed and its worker not yet registered.
Init ==
    /\ deployed = 1
    /\ worker = [v \in Version |-> "new"]
    /\ caches = <<>>
    /\ request = [r \in Request |-> Idle]
    /\ puts = {}

Named(v) == \E i \in DOMAIN caches : caches[i].name = v

\* A mutant: every open makes a new cache.
OpenedAnew(v, urls, copy) ==
    Append(caches, [name |-> v, has |-> [a \in Asset |-> IF a \in urls THEN copy ELSE 0]])

\* The caches after caches.open(v) and a put of the URLs.
Opened(v, urls, copy) ==
    LET all == IF Named(v) THEN caches ELSE Append(caches, [name |-> v, has |-> Absent])
    IN  [i \in DOMAIN all |-> IF all[i].name # v THEN all[i]
            ELSE [all[i] EXCEPT !.has = [a \in Asset |-> IF a \in urls THEN copy ELSE @[a]]]]

\* What caches.match finds of a URL: the copy of the first cache that has one.
Matched(a) ==
    LET with == {i \in DOMAIN caches : caches[i].has[a] # 0}
    IN  IF with = {} THEN 0
        ELSE caches[CHOOSE i \in with : \A j \in with : i <= j].has[a]

-----------------------------------------------------------------------------

Deploy ==
    /\ deployed < MaxVersion
    /\ deployed' = deployed + 1
    /\ UNCHANGED <<worker, caches, request, puts>>

\* A page registers the script it finds; the browser updates one worker at a
\* time.  The install event opens the cache.
Install(v) ==
    /\ v = deployed /\ worker[v] = "new"
    /\ \A u \in Version : worker[u] \notin {"installing", "activating"}
    /\ worker' = [worker EXCEPT ![v] = "installing"]
    /\ caches' = Opened(v, {}, 0)
    /\ UNCHANGED <<deployed, request, puts>>

\* addAll stores all assets, each as the server has it now, and skipWaiting
\* makes the worker before redundant.
AddAll(v) ==
    /\ worker[v] = "installing"
    /\ caches' = Opened(v, Static, deployed)
    /\ worker' = [u \in Version |-> CASE u = v               -> "activating"
                                      [] worker[u] = "active" -> "redundant"
                                      [] OTHER                -> worker[u]]
    /\ UNCHANGED <<deployed, request, puts>>

\* One asset cannot be fetched: nothing is stored, and a later page registers
\* the worker again.
InstallFails(v) ==
    /\ worker[v] = "installing"
    /\ worker' = [worker EXCEPT ![v] = "new"]
    /\ UNCHANGED <<deployed, caches, request, puts>>

\* A mutant: the caches of other versions are kept.
KeptAll(v) == caches

\* The caches of other versions are deleted; there is one of a name.
Kept(v) ==
    IF Named(v) THEN <<caches[CHOOSE i \in DOMAIN caches : caches[i].name = v]>> ELSE <<>>

Activate(v) ==
    /\ worker[v] = "activating"
    /\ worker' = [worker EXCEPT ![v] = "active"]
    /\ caches' = Kept(v)
    /\ UNCHANGED <<deployed, request, puts>>

\* A page asks for a URL; clients.claim has put it under the active worker.
Fetch(r, v, a) ==
    /\ request[r] = Idle /\ worker[v] = "active"
    /\ request' = [request EXCEPT ![r] = [at |-> "match", by |-> v, url |-> a, got |-> 0]]
    /\ UNCHANGED <<deployed, worker, caches, puts>>

Match(r) ==
    /\ request[r].at = "match"
    /\ LET copy == Matched(request[r].url)
       IN  request' = [request EXCEPT ![r].at = IF copy = 0 THEN "fetch" ELSE "served",
                                      ![r].got = copy]
    /\ UNCHANGED <<deployed, worker, caches, puts>>

\* The server answers; the response goes to the page and, later, to the cache
\* of the worker that handles the event.  An error response is not cached and
\* is left out.
Respond(r) ==
    /\ request[r].at = "fetch"
    /\ request' = [request EXCEPT ![r].at = "served", ![r].got = deployed]
    /\ puts' = puts \union {[by |-> request[r].by, url |-> request[r].url, got |-> deployed]}
    /\ UNCHANGED <<deployed, worker, caches>>

\* No network: a navigation gets the offline page, anything else a 408.
FetchFails(r) ==
    /\ request[r].at = "fetch"
    /\ \/ request' = [request EXCEPT ![r].at = "served",
                                     ![r].url = Offline, ![r].got = Matched(Offline)]
       \/ request' = [request EXCEPT ![r] = Idle]
    /\ UNCHANGED <<deployed, worker, caches, puts>>

Done(r) ==
    /\ request[r].at = "served"
    /\ request' = [request EXCEPT ![r] = Idle]
    /\ UNCHANGED <<deployed, worker, caches, puts>>

Put(p) ==
    /\ puts' = puts \ {p}
    /\ caches' = Opened(p.by, {p.url}, p.got)
    /\ UNCHANGED <<deployed, worker, request>>

Next ==
    \/ Deploy
    \/ \E v \in Version : Install(v) \/ AddAll(v) \/ InstallFails(v) \/ Activate(v)
    \/ \E r \in Request, v \in Version, a \in Asset : Fetch(r, v, a)
    \/ \E r \in Request : Match(r) \/ Respond(r) \/ FetchFails(r) \/ Done(r)
    \/ \E p \in puts : Put(p)

Spec == Init /\ [][Next]_vars

-----------------------------------------------------------------------------

\* Once a worker is active, no page gets an older copy of an asset it has
\* pre-cached, although caches.match asks the oldest cache first and a late put
\* of an older worker may have made that worker's cache anew (install,
\* activate).
StaticFresh ==
    \A v \in Version, a \in Static : worker[v] = "active" => Matched(a) >= v
=============================================================================
