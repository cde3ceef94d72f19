------------------------------ MODULE MCDoctor ------------------------------
(***************************************************************************)
(* A doctor beside one run of install at a time and a few passwords.       *)
(***************************************************************************)
EXTENDS Doctor, TLC

CONSTANTS p1, s1, s2

One == {p1}
Two == {s1, s2}

\* Passwords are alike.
Alike == Permutations(Secret)
============================================================================
