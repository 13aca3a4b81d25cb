----------------------------- MODULE MCWebService -----------------------------
(* Instances of WebService for TLC: the requests of the dashboard and a few    *)
(* that miss a route in one respect each.                                      *)
EXTENDS WebService

Req(p, m, x, s) ==
    [path |-> p, method |-> m, head |-> {}, command |-> x, shape |-> s]

\* A control POST whose head quotes words of its own.
Quoting(h, x) == [Req("control", "POST", x, "one") EXCEPT !.head = h]

ControlRequests ==
    {Req("control", "POST", "on", s) : s \in Shapes}
        \cup {Req("control", "POST", "off", "one"), Req("control", "GET", "on", "one")}

\* What the dashboard sends in every shape, commands whose head quotes the other
\* word, and requests that miss the path, the method or both.
MixedRequests ==
    {Req("control", "POST", "on", "one"), Req("control", "POST", "off", "one"),
     Req("control", "POST", "off", "two"), Req("control", "POST", "on", "long"),
     Quoting({"off"}, "on"), Quoting({"on"}, "off"),
     Req("control", "GET", "on", "two"), Req("sensor", "POST", "off", "one"),
     Req("sensor", "GET", "none", "one"), Req("malformed", "GET", "none", "one"),
     Req("control", "OPTIONS", "none", "one"), Req("static", "GET", "none", "one"),
     Req("unknown", "GET", "none", "one")}
=============================================================================
