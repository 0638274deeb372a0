-------------------------------- MODULE Maps --------------------------------
(***************************************************************************)
(* Tables as functions from keys to rows.                                  *)
(***************************************************************************)

\* f, and what g has besides.
f ++ g == [x \in DOMAIN f \cup DOMAIN g |-> IF x \in DOMAIN f THEN f[x] ELSE g[x]]

\* One row.
One(key, row) == [x \in {key} |-> row]
=============================================================================
