----------------------------- MODULE ScrapeAuth -----------------------------
(***************************************************************************)
(* Authentication and authorization of requests (internal/scrapeauth): a   *)
(* TokenReview and a SubjectAccessReview per (token, path), whose outcome  *)
(* is cached, the refusals shorter than the permissions.  HTTP handlers    *)
(* and gRPC streams share it; the custom-metrics listener has the client   *)
(* certificate check of internal/frontproxy instead.                       *)
(*                                                                         *)
(* What the API server would answer is the set "allowed".                  *)
(***************************************************************************)
EXTENDS Integers, FiniteSets, Functions

CONSTANTS Requests,         \* the threads that serve requests
          Tokens, Paths,    \* bearer tokens, paths and methods
          AllowedTTL, DeniedTTL, maxCacheEntries,
          ReviewTime,       \* bound: ticks a review may take
          MaxTime,          \* bound: the clock
          MaxChanges,       \* bound: changes of permissions
          Names,            \* common names of client certificates
          allowedNames      \* requestheader-allowed-names

ASSUME AuthAssumption ==
    /\ {AllowedTTL, DeniedTTL, ReviewTime, MaxTime, MaxChanges} \subseteq Nat
    /\ maxCacheEntries \in Nat \ {0}
    /\ {"loopback", "anonymous", "certificate", "none"} \intersect Tokens = {}

Keys == Tokens \X Paths

VARIABLES now,
          allowed,     \* keys the API server permits
          changed,     \* key -> when it last changed its mind
          changes,
          cache,       \* key -> [status, expires]
          call         \* request -> [at, path, who, status, age]

authVars == <<now, allowed, changed, changes, cache, call>>

NoCall == [at |-> "idle", path |-> "none", who |-> "none", status |-> 0, age |-> 0]

(* cacheKey                                                                 *)
KeyOf(r) == <<call[r].who, call[r].path>>

AuthInit ==
    /\ now = 0 /\ changes = 0
    /\ allowed \in SUBSET Keys
    /\ changed = [k \in Keys |-> 0]
    /\ cache = <<>>
    /\ call = [r \in Requests |-> NoCall]

Decided(r, path, who, status) ==
    call' = [call EXCEPT ![r] = [at |-> "decided", path |-> path, who |-> who,
                                 status |-> status, age |-> 0]]

(* Wrap, StreamInterceptor: loopback peers are exempt, a request without a  *)
(* bearer token is refused, the others go to Authorize.                     *)
Wrap(r, path, who) ==
    /\ call[r].at = "idle"
    /\ \/ who = "loopback" /\ Decided(r, path, who, 200)
       \/ who = "anonymous" /\ Decided(r, path, who, 401)
       \/ who \in Tokens /\ call' = [call EXCEPT ![r] =
             [NoCall EXCEPT !.at = "authorize", !.path = path, !.who = who]]
    /\ UNCHANGED <<now, allowed, changed, changes, cache>>

(* frontproxy.Middleware: no list admits every certificate of the CA.       *)
nameAllowed(cn) == allowedNames = {} \/ cn \in allowedNames

ClientCert(r, path, cn) ==
    /\ call[r].at = "idle"
    /\ Decided(r, path, "certificate", IF nameAllowed(cn) THEN 200 ELSE 403)
    /\ UNCHANGED <<now, allowed, changed, changes, cache>>

Fresh(k) == k \in DOMAIN cache /\ now <= cache[k].expires

(* Mutant of Cached: an entry that is used lives on.                        *)
CachedSliding(r) ==
    LET k == KeyOf(r)
    IN /\ call[r].at = "authorize"
       /\ IF Fresh(k)
          THEN /\ Decided(r, call[r].path, call[r].who, cache[k].status)
               /\ cache' = [cache EXCEPT ![k].expires =
                     now + IF cache[k].status = 200 THEN AllowedTTL ELSE DeniedTTL]
          ELSE call' = [call EXCEPT ![r].at = "review"] /\ UNCHANGED cache
       /\ UNCHANGED <<now, allowed, changed, changes>>

(* Authorize: a decision from the cache, if there is one.                   *)
Cached(r) ==
    LET k == KeyOf(r)
    IN /\ call[r].at = "authorize"
       /\ IF Fresh(k) THEN Decided(r, call[r].path, call[r].who, cache[k].status)
          ELSE call' = [call EXCEPT ![r].at = "review"]
       /\ UNCHANGED <<now, allowed, changed, changes, cache>>

(* review: what the API server says now, or that it cannot be asked.  That  *)
(* it does not know the token (401) and that it forbids the path (403) are  *)
(* one refusal.                                                             *)
Review(r) ==
    /\ call[r].at = "review"
    /\ \E status \in {500} \union (IF KeyOf(r) \in allowed THEN {200} ELSE {403}) :
          call' = [call EXCEPT ![r].at = "store", ![r].status = status]
    /\ UNCHANGED <<now, allowed, changed, changes, cache>>

(* store at the limit: without the expired entries, or empty if all live.   *)
Room(c) ==
    LET live == {k \in DOMAIN c : now <= c[k].expires}
    IN IF Cardinality(DOMAIN c) < maxCacheEntries THEN c
       ELSE IF Cardinality(live) < maxCacheEntries THEN Restrict(c, live)
       ELSE <<>>

(* Authorize: the outcome of a review is kept, unless there was none.       *)
Store(r) ==
    LET k == KeyOf(r)
        s == call[r].status
        c == Room(cache)
        e == [status |-> s, expires |-> now + IF s = 200 THEN AllowedTTL ELSE DeniedTTL]
    IN /\ call[r].at = "store"
       /\ Decided(r, call[r].path, call[r].who, s)
       /\ cache' = IF s = 500 THEN cache
                   ELSE [x \in DOMAIN c \union {k} |-> IF x = k THEN e ELSE c[x]]
       /\ UNCHANGED <<now, allowed, changed, changes>>

AuthStep(r) == Cached(r) \/ Review(r) \/ Store(r)

(* A role binding comes or goes, a token expires.                           *)
PermissionChanges(k) ==
    /\ changes < MaxChanges /\ changes' = changes + 1
    /\ allowed' = IF k \in allowed THEN allowed \ {k} ELSE allowed \union {k}
    /\ changed' = [changed EXCEPT ![k] = now]
    /\ UNCHANGED <<now, cache, call>>

(* A decision is acted on at once; a review takes up to ReviewTime.  The    *)
(* clock rests while a request is served: only the cache reads it.          *)
AuthTick ==
    /\ now < MaxTime /\ now' = now + 1
    /\ \A r \in Requests :
          \/ call[r].at \in {"idle", "authorize", "review"}
          \/ call[r].at = "store" /\ call[r].age < ReviewTime
    /\ call' = [r \in Requests |-> IF call[r].at = "store"
                                   THEN [call[r] EXCEPT !.age = @ + 1] ELSE call[r]]
    /\ UNCHANGED <<allowed, changed, changes, cache>>

-----------------------------------------------------------------------------
(* A decision differs from the API server's only for the TTL of its kind    *)
(* and the duration of the review after the server changed its mind,        *)
(* whatever other requests do to the cache in between (Authorize, cached,   *)
(* store).  It may fail, but never to the open.                             *)
DecisionsAgeOut ==
    \A r \in Requests :
        call[r].at = "decided" /\ call[r].who \in Tokens =>
            \/ call[r].status = 500
            \/ (call[r].status = 200) = (KeyOf(r) \in allowed)
            \/ now - changed[KeyOf(r)] <=
                  ReviewTime + IF call[r].status = 200 THEN AllowedTTL ELSE DeniedTTL
=============================================================================
