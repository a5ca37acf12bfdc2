---------------------------- MODULE MCQueryPanel ----------------------------
EXTENDS QueryPanel, TLC
CONSTANTS a, b, t0, t1, u, d

MCKeywords == (t0 :> {}) @@ (t1 :> {"kw"})
MCFirst == (a :> t0) @@ (b :> t1)
=============================================================================
