------------------------------ MODULE TwoEnds ------------------------------
(***************************************************************************)
(* The two engines of a pair that cannot punch, and the copies of what one *)
(* of them reports of itself on its way to the other: a copy is told apart *)
(* only by whether it is still of the end's last agent or allocation.      *)
(***************************************************************************)
End == {"a", "b"}
Other(p) == IF p = "a" THEN "b" ELSE "a"
Cred == {"none", "cur", "old"}
\* the end renews itself: a copy of its current value is one of an earlier value
Older(c) == IF c = "cur" THEN "old" ELSE c
=============================================================================
