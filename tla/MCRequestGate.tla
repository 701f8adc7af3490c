--------------------------- MODULE MCRequestGate ----------------------------
(* Two workers, two revisions of a small configuration, three limiters.        *)
EXTENDS RequestGate, TLC

MCSymmetry == Permutations(Worker)

\* The hypothesis of the theorems on rates: after the idle time any bucket is full.
ASSUME FullAfterIdle

Users == <<"/", "users", "/", "{id}">>

AnyHost == [name |-> "*", port |-> ""]

BuiltIn(path) ==
    [method |-> "GET", path |-> path, host |-> AnyHost, tenant |-> "*", enabled |-> TRUE,
     authRequired |-> FALSE, allowAnonymous |-> TRUE, policy |-> "route",
     allowed |-> {}, denied |-> {}]

\* A route for writers, hidden for GET by the built-in route of the same path.
Writers(method) ==
    [BuiltIn(<<"/", "users", "/", "*">>) EXCEPT
        !.method = method, !.policy = "api_key", !.authRequired = TRUE, !.allowAnonymous = FALSE]

Open == [Writers("*") EXCEPT !.path = <<"/", "*">>, !.allowAnonymous = TRUE, !.host.name = "www"]

Quota1 == [capacity |-> 1, refill |-> 1]
Quota2 == [capacity |-> 2, refill |-> 3]

MCQuota == {Quota1, Quota2}

MCExempt == {<<"/", "healthz">>}

KeyOf(quota, tenants) == [k \in {"k1"} |-> [limit |-> quota, hosts |-> {"*"}, tenants |-> tenants]]

MCConfig == <<
    [routes |-> <<BuiltIn(<<"/", "healthz">>), BuiltIn(Users), Writers("POST")>>,
     keys |-> KeyOf(Quota1, {}), limit |-> Quota1],
    [routes |-> <<BuiltIn(<<"/", "healthz">>), BuiltIn(Users), Writers("POST"), Open>>,
     keys |-> KeyOf(Quota2, {"t1"}), limit |-> Quota1]>>

MCKey == {<<"route", Users, "GET">>, <<"api_key", "k1">>, <<"ip", "c1">>}

Ask(method, path) ==
    [path |-> path, method |-> method, host |-> [name |-> "www", port |-> "80"], tenant |-> "t1",
     apiKey |-> None, bearer |-> None, ip |-> "c1"]

User == <<"/", "users", "/", "42">>
Post == [Ask("POST", User) EXCEPT !.apiKey = "k1"]

MCRequests == {
    Ask("GET", <<"/", "/", "users", "/", "42", "/">>), Ask("GET", <<"/", "healthz">>),
    Ask("GET", <<"/", "index">>), Ask("POST", <<"/", "index">>),
    [Ask("POST", <<"/", "index">>) EXCEPT !.host.name = "api"], Ask("PATCH", User),
    Post, [Post EXCEPT !.method = "PUT"], [Post EXCEPT !.apiKey = None, !.bearer = "k1"],
    [Post EXCEPT !.tenant = "t2"], [Post EXCEPT !.apiKey = "", !.bearer = "k1"], [Post EXCEPT !.apiKey = None]}
=============================================================================
