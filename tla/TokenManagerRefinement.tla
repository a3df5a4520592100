----------------------- MODULE TokenManagerRefinement -----------------------
(***************************************************************************)
(* TokenManager implements AccountStore: the threads, the mutex, requests, *)
(* torn files and the life of a token are hidden.                          *)
(***************************************************************************)
EXTENDS TokenManager

Number(x) == IF Stored(x) THEN x.access ELSE Absent

inUse == [a \in Accounts |-> Number(accounts[a])]
saved == [a \in Accounts |-> Number(disk[a])]

Writing == {"open", "write", "unlink"}

\* The account whose file is being written or removed.
saving ==
  IF \E t \in Threads : pc[t] \in Writing
  THEN arg[CHOOSE t \in Threads : pc[t] \in Writing]
  ELSE Absent

Store == INSTANCE AccountStore WITH None <- Absent, newest <- issued

\* The token manager is a store of one token per account: every step of every
\* thread, a crash included, is one step of the store or leaves it as it is.
ImplementsStore == Store!Spec

=============================================================================
