---------------------------- MODULE MCConfigFiles ----------------------------
\* An instance of ConfigFiles for TLC: a process of root and one of a user who
\* may also name the directory of root.
EXTENDS ConfigFiles

CONSTANTS p1, p2, a1, a12

MCDirsOf == (p1 :> {"etc"}) @@ (p2 :> {"etc", "home"})
MCEarlier == {"etc"} \X {"domain"} \X Domains
Symmetry == Permutations(Providers)
MCLonger == {<<a1, a12>>}

=============================================================================
