------------------------------ MODULE MCStore ------------------------------
(***************************************************************************)
(* KKStore on a small instance: user a with two sessions, user b with one, *)
(* one name, and as many hashes as documents may be made of it.            *)
(***************************************************************************)
EXTENDS KKStore, TLC

CONSTANTS s1, s2, s3, a, b, notes, h1, h2, e1, e2

UserOfEach == (s1 :> a) @@ (s2 :> a) @@ (s3 :> b)
UserOfOne  == (s1 :> a)
NameOfHash == (h1 :> notes) @@ (h2 :> notes)
\* One call fails, or all of them.
OneOrAll == {{c} : c \in Calls} \cup {Calls}

\* The sessions of user a can be exchanged.
SessionsOfA == Permutations({s1, s2})
=============================================================================
