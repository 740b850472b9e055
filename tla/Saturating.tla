----------------------------- MODULE Saturating -----------------------------
(* Arithmetic on unsigned integers as the sources use it. *)
EXTENDS Naturals

AtLeastOne(n) == IF n = 0 THEN 1 ELSE n      \* n.max(1)
Least(m, n) == IF m <= n THEN m ELSE n       \* m.min(n)
Minus(m, n) == IF n <= m THEN m - n ELSE 0   \* m.saturating_sub(n)
=============================================================================
