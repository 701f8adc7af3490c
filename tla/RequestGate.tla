---------------------------- MODULE RequestGate ----------------------------
(***************************************************************************)
(* What stands between a parsed request and its target in                  *)
(* HttpHandler::handle_read: route resolution, authentication, the shared  *)
(* rate limiter and the method check, on several workers that adopt a new  *)
(* configuration one by one.                                               *)
(*                                                                         *)
(* A path or a pattern is a sequence of "/" and words, with {x} a          *)
(* parameter and a last "*" a wildcard; no word is a prefix of another.    *)
(* The routes of a configuration are the built-in ones and then the        *)
(* configured ones, as registered.  Host names are compared as             *)
(* normalize_header_value leaves them: a host is [name, port].             *)
(***************************************************************************)
EXTENDS RateLimiter, Sequences, FiniteSets, FiniteSetsExt, SequencesExt

CONSTANTS
    Revision,       \* revisions of the configuration, 1..n
    Config,         \* of each: [routes, keys, limit]
    Parameter,      \* the words that are {x}
    Requests,       \* [path, method, host, tenant, apiKey, bearer, ip]
    ExemptPaths     \* kExemptPaths

Methods == {"GET", "HEAD", "POST", "PUT", "DELETE"}

VARIABLES
    latest,         \* the revision that workers find
    revision,       \* the one that each worker runs
    reply           \* history: what the latest step answered

vars == <<now, limiters, swept, answer, burst, latest, revision, reply>>

-----------------------------------------------------------------------------
(* Matching a route.                                                       *)

\* next_path_segment: where the next segment begins and the position after it;
\* begins past the end if there is none.
NextSegment(s, pos) ==
    LET begins == Min({i \in pos..Len(s) : s[i] # "/"} \cup {Len(s) + 1})
        stops  == Min({i \in begins..Len(s) : s[i] = "/"} \cup {Len(s) + 1})
    IN  [begins |-> begins, stops |-> stops]

Segment(s, seg) == SubSeq(s, seg.begins, seg.stops - 1)

IsParameter(segment) == Len(segment) = 1 /\ segment[1] \in Parameter

\* matchRoute: a prefix, or segment by segment.
MatchLoop(pattern, path) ==
    LET loop[at \in (1..(Len(pattern) + 1)) \X (1..(Len(path) + 1))] ==
            LET p == NextSegment(pattern, at[1])
                s == NextSegment(path, at[2])
                hasPattern == p.begins <= Len(pattern)
                hasPath    == s.begins <= Len(path)
            IN  IF hasPattern # hasPath THEN FALSE
                ELSE IF ~hasPattern THEN TRUE
                ELSE /\ IsParameter(Segment(pattern, p)) \/ Segment(pattern, p) = Segment(path, s)
                     /\ loop[<<p.stops, s.stops>>]
    IN  loop[<<1, 1>>]

MatchRoute(pattern, path) ==
    IF pattern # <<>> /\ pattern[Len(pattern)] = "*"
    THEN LET n == Len(pattern) - 1
         IN  n <= Len(path) /\ SubSeq(path, 1, n) = SubSeq(pattern, 1, n)
    ELSE MatchLoop(pattern, path)

RouteMatchesPath(route, req) ==
    /\ route.enabled
    /\ route.host.name = "*" \/ route.host.name = req.host.name
    /\ route.tenant = "*" \/ route.tenant = req.tenant
    /\ MatchRoute(route.path, req.path)

MethodMatches(route, req) == route.method \in {"*", req.method}

\* Mutant: a later match replaces an earlier one.
ResolveLast(routes, req) ==
    LET on == {i \in DOMAIN routes : RouteMatchesPath(routes[i], req)}
        of == {i \in on : MethodMatches(routes[i], req)}
    IN  [index |-> IF of = {} THEN 0 ELSE Max(of), allow |-> {routes[i].method : i \in on}]

\* resolve_route: the first route that matches wins; the methods of the others
\* that match but for the method are the Allow header of a 405.
ResolveRoute(routes, req) ==
    LET from[i \in 1..(Len(routes) + 1)] ==
            IF i > Len(routes) THEN [index |-> 0, allow |-> {}]
            ELSE IF ~RouteMatchesPath(routes[i], req) THEN from[i + 1]
            ELSE IF MethodMatches(routes[i], req)
                 THEN [index |-> i, allow |-> {routes[i].method}]
                 ELSE [from[i + 1] EXCEPT !.allow = @ \cup {routes[i].method}]
    IN  from[1]

-----------------------------------------------------------------------------
(* API keys.                                                               *)

\* extract_api_key: X-API-Key, even if empty, before the bearer token.
ExtractApiKey(req) ==
    IF req.apiKey # None THEN req.apiKey ELSE IF req.bearer # None THEN req.bearer ELSE ""

InScope(allowed, actual) == allowed = {} \/ "*" \in allowed \/ actual \in allowed

\* ApiKeyManager::authorize.
Authorize(keys, key, route, req) ==
    /\ key \in DOMAIN keys
    /\ key \notin route.denied
    /\ route.allowed = {} \/ key \in route.allowed
    /\ InScope(keys[key].hosts, req.host.name)
    /\ InScope(keys[key].tenants, req.tenant)

NeedsKey(route) == route.authRequired /\ ~route.allowAnonymous

\* Mutant: a key counts whether or not it was asked for.
LimiterKeyLoose(c, route, req) ==
    CASE route.policy = "route" ->
           [key |-> <<"route", route.path, req.method>>, quota |-> c.limit]
      [] route.policy = "api_key" /\ ExtractApiKey(req) \in DOMAIN c.keys ->
           [key |-> <<"api_key", ExtractApiKey(req)>>, quota |-> c.keys[ExtractApiKey(req)].limit]
      [] OTHER -> [key |-> <<"ip", req.ip>>, quota |-> c.limit]

\* should_rate_limit: which limiter counts the request, and its quota.  A route
\* that is open to all has no key to count by.
LimiterKey(c, route, req) ==
    CASE route.policy = "route" ->
           [key |-> <<"route", route.path, req.method>>, quota |-> c.limit]
      [] route.policy = "api_key" /\ NeedsKey(route) ->
           [key |-> <<"api_key", ExtractApiKey(req)>>, quota |-> c.keys[ExtractApiKey(req)].limit]
      [] OTHER -> [key |-> <<"ip", req.ip>>, quota |-> c.limit]

-----------------------------------------------------------------------------
(* The gate.  Every step of a worker handles one request to its decision.  *)

\* What resolve_route finds in each revision.
Resolved ==
    [r \in Revision |-> [req \in Requests |-> ResolveRoute(Config[r].routes, req)]]

Reply(w, req, status, route) ==
    reply' = [revision |-> revision[w], req |-> req, status |-> status, route |-> route]

Unlimited == answer' = None /\ UNCHANGED <<now, limiters, swept, burst>>

\* No route: 405 if only the method was wrong; otherwise the document root,
\* for GET and HEAD.
Unrouted(w, req) ==
    LET m == Resolved[revision[w]][req]
    IN  /\ reply = None
        /\ m.index = 0
        /\ Reply(w, req, IF m.allow = {} /\ req.method \in {"GET", "HEAD"}
                         THEN "static" ELSE "method not allowed", 0)
        /\ Unlimited
        /\ UNCHANGED <<latest, revision>>

Refused(c, route, req) ==
    /\ NeedsKey(route)
    /\ ExtractApiKey(req) = "" \/ ~Authorize(c.keys, ExtractApiKey(req), route, req)

Unauthorized(w, req) ==
    LET c == Config[revision[w]]
        m == Resolved[revision[w]][req]
    IN  /\ reply = None
        /\ m.index # 0
        /\ Refused(c, c.routes[m.index], req)
        /\ Reply(w, req, "unauthorized", m.index)
        /\ Unlimited
        /\ UNCHANGED <<latest, revision>>

Verdict(req) == IF req.method \in Methods THEN "dispatched" ELSE "method not allowed"

Exempt(w, req) ==
    LET c == Config[revision[w]]
        m == Resolved[revision[w]][req]
    IN  /\ reply = None
        /\ m.index # 0
        /\ ~Refused(c, c.routes[m.index], req)
        /\ req.path \in ExemptPaths
        /\ Reply(w, req, Verdict(req), m.index)
        /\ Unlimited
        /\ UNCHANGED <<latest, revision>>

\* The limiter decides before the method is looked at.
Limited(w, req) ==
    LET c == Config[revision[w]]
        m == Resolved[revision[w]][req]
        l == LimiterKey(c, c.routes[m.index], req)
    IN  /\ reply = None
        /\ m.index # 0
        /\ ~Refused(c, c.routes[m.index], req)
        /\ req.path \notin ExemptPaths
        /\ TryAcquire(l.key, l.quota)
        /\ Reply(w, req, IF answer'.passed THEN Verdict(req) ELSE "too many requests", m.index)
        /\ UNCHANGED <<latest, revision>>

\* Revisions are numbered, routes are lists, paths are sequences, and Key and
\* Quota hold what should_rate_limit may compute for a request that comes as far
\* as that.
ASSUME GateConstants ==
    /\ IsFiniteSet(Revision) /\ Revision # {} /\ Revision = 1 .. Cardinality(Revision)
    /\ \A req \in Requests : req.path \in Seq(STRING)
    /\ \A r \in Revision :
          LET c == Config[r]
          IN  /\ Len(c.routes) \in Nat /\ DOMAIN c.routes = 1 .. Len(c.routes)
              /\ \A i \in DOMAIN c.routes : c.routes[i].path \in Seq(STRING)
              /\ \A req \in Requests, i \in DOMAIN c.routes :
                    /\ RouteMatchesPath(c.routes[i], req) /\ MethodMatches(c.routes[i], req)
                    /\ ~Refused(c, c.routes[i], req)
                    /\ req.path \notin ExemptPaths
                    => LimiterKey(c, c.routes[i], req) \in [key : Key, quota : Quota]

\* The file is replaced; each worker adopts it in a step of its own.
Publish ==
    /\ reply = None
    /\ latest < Cardinality(Revision)
    /\ latest' = latest + 1
    /\ Unlimited /\ UNCHANGED <<revision, reply>>

ReloadConfig(w) ==
    /\ reply = None
    /\ revision[w] # latest
    /\ revision' = [revision EXCEPT ![w] = latest]
    /\ Unlimited /\ UNCHANGED <<latest, reply>>

Init ==
    /\ LimiterInit
    /\ latest = 1
    /\ revision = [w \in Worker |-> 1]
    /\ reply = None

Timers ==
    /\ reply = None
    /\ Tick \/ \E w \in Worker : Sweep(w)
    /\ UNCHANGED <<latest, revision, reply>>

\* The history of a decision is cleared before anything else happens.
Clear ==
    /\ reply # None
    /\ reply' = None /\ answer' = None
    /\ UNCHANGED <<now, limiters, swept, burst, latest, revision>>

Next ==
    \/ \E w \in Worker, req \in Requests :
          Unrouted(w, req) \/ Unauthorized(w, req) \/ Exempt(w, req) \/ Limited(w, req)
    \/ Timers \/ Publish \/ \E w \in Worker : ReloadConfig(w)
    \/ Clear

Spec == Init /\ [][Next]_vars
-----------------------------------------------------------------------------
(* Properties.                                                             *)

\* The segments of a path are its longest stretches without a slash: where they
\* start, the one that starts at i, and how many there are up to that.
Starts(s) == {i \in DOMAIN s : s[i] # "/" /\ (i = 1 \/ s[i - 1] = "/")}

SegmentAt(s, i) == SubSeq(s, i, Max({j \in i..Len(s) : \A k \in i..j : s[k] # "/"}))

Rank(starts, i) == Cardinality({k \in starts : k <= i})

\* A wildcard pattern covers what its front is a prefix of; another one the paths
\* with as many segments, of which each is that of the pattern or stands for a
\* parameter.
Covers(pattern, path) ==
    IF pattern # <<>> /\ Last(pattern) = "*" THEN IsPrefix(Front(pattern), path)
    ELSE LET p == Starts(pattern)
             s == Starts(path)
         IN  /\ Cardinality(p) = Cardinality(s)
             /\ \A i \in p, j \in s : Rank(p, i) = Rank(s, j) =>
                    \/ IsParameter(SegmentAt(pattern, i))
                    \/ SegmentAt(pattern, i) = SegmentAt(path, j)

Applies(route, req) ==
    /\ route.enabled /\ Covers(route.path, req.path)
    /\ route.host.name \in {"*", req.host.name} /\ route.tenant \in {"*", req.tenant}

Applicable ==
    [r \in Revision |-> [req \in Requests |->
        {i \in DOMAIN Config[r].routes : Applies(Config[r].routes[i], req)}]]

\* A request is handled by the first registered route that covers its path,
\* host, tenant and method, built-in routes first, whatever slashes its path
\* has; without one it is read from the document root only if no route covers
\* it but for the method (resolve_route, matchRoute).
FirstMatch ==
    reply # None =>
        LET routes == Config[reply.revision].routes
            on     == Applicable[reply.revision][reply.req]
            of     == {i \in on : routes[i].method \in {"*", reply.req.method}}
        IN  /\ reply.route = (IF of = {} THEN 0 ELSE Min(of))
            /\ reply.status = "static" => on = {}
            /\ reply.status = "dispatched" => of # {}

\* The quota of an API key is spent only on requests that were authenticated
\* with it: not on what was refused, and not on open routes, whatever key
\* their requests carry (handle_read, should_rate_limit).
QuotaSpentByHolder ==
    answer # None /\ answer.key[1] = "api_key" =>
        LET c     == Config[reply.revision]
            route == c.routes[reply.route]
            key   == answer.key[2]
        IN  /\ key \in {reply.req.apiKey, reply.req.bearer}
            /\ route.authRequired /\ ~route.allowAnonymous
            /\ key \in DOMAIN c.keys \ route.denied
            /\ \/ c.keys[key].tenants = {}
               \/ {"*", reply.req.tenant} \cap c.keys[key].tenants # {}
=============================================================================
