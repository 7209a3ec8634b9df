-------------------------- MODULE MCIncrementalCache --------------------------
(* Small instances of IncrementalCache for TLC. *)
EXTENDS IncrementalCache, TLC

CONSTANTS r1, r2, r3, p1, p2, p3, c1, c2

\* Two configurations mirror two servers into one directory.
TwoServers == c1 :> {p1, p2} @@ c2 :> {p3}
OneDirectory == p1 :> {p3} @@ p2 :> {} @@ p3 :> {p1}
=============================================================================
