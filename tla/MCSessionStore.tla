--------------------------- MODULE MCSessionStore ---------------------------
(* Instances of SessionStore for TLC. *)
EXTENDS SessionStore, TLC

CONSTANTS s1, s2, m1, m2, i1, i2

\* Two sessions and a message of one Call-ID, and a message of another.
MCCallOf == s1 :> "c1" @@ s2 :> "c1" @@ m1 :> "c1" @@ m2 :> "c2"

\* One instance, or two at the same time.
MCPools == {{i1}, {i1, i2}}
=============================================================================
