----------------------------- MODULE MCInstall -----------------------------
(***************************************************************************)
(* One or two runs of install at a time and a few passwords.               *)
(***************************************************************************)
EXTENDS Install, TLC

CONSTANTS p1, p2, s1, s2, s3, s4, s5, s6

One == {p1}
Two == {p1, p2}
Four == {s1, s2, s3, s4}
Six == Four \cup {s5, s6}

\* Passwords, and installers, are alike.
Alike == Permutations(Installer) \cup Permutations(Secret)
============================================================================
