-------------------------------- MODULE Maps --------------------------------
(* Functions as maps and tables: the domain is what is there.               *)

\* f with x mapped to v.
Put(f, x, v) == [y \in DOMAIN f \cup {x} |-> IF y = x THEN v ELSE f[y]]

\* f without the elements of S.
Without(f, S) == [y \in DOMAIN f \ S |-> f[y]]
=============================================================================
