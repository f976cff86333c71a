----------------------------- MODULE MCProviderRun -----------------------------
(* One worker on the route with a fallback, one of Claude, or two that share    *)
(* the direct route.                                                            *)
EXTENDS ProviderRun

CONSTANTS r1, r2

Route(kind, new) == [kind |-> kind, new |-> new]
Two(a, b) == [r \in Request |-> IF r = r1 THEN a ELSE b]
Nobody == Route("none", FALSE)
MCRoutes == {Two(Route("gpt", n), Nobody) : n \in BOOLEAN}
            \cup {Two(Route("claude", FALSE), Nobody), Two(Route("direct", TRUE), Route("direct", FALSE))}
MCAttempts == [r \in Request |-> IF r = r1 THEN 2 ELSE 1]
=============================================================================
