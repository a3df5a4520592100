---------------------------- MODULE AccountStore ----------------------------
(***************************************************************************)
(* What the token manager promises, whatever threads call it and wherever  *)
(* they are interrupted: a store of one token for each account, with a     *)
(* copy in use and a copy that outlives the process.  One account changes  *)
(* at a time, in use first and then in its copy; nothing else is ever      *)
(* saved, and every new token is newer than all before.                    *)
(***************************************************************************)
EXTENDS Naturals

CONSTANTS Accounts, None

VARIABLES
  inUse,   \* the number of the token of each account, 0 before its first, or None
  saved,   \* the number of the token that is saved for it, or None
  newest,  \* the number of the newest token
  saving   \* the account whose change is not saved yet, or None

vars == <<inUse, saved, newest, saving>>

Init == /\ inUse = [a \in Accounts |-> None] /\ saved = [a \in Accounts |-> None]
        /\ newest = 0 /\ saving = None

\* An account takes up what is saved for it, between two changes.
Register(a) ==
  /\ saving = None
  /\ inUse' = [inUse EXCEPT ![a] = IF saved[a] = None THEN 0 ELSE saved[a]]
  /\ UNCHANGED <<saved, newest, saving>>

\* A change is made while none is unsaved, to an account that is registered.
Change(a, token) ==
  /\ saving = None /\ saving' = a
  /\ inUse[a] # None /\ inUse' = [inUse EXCEPT ![a] = token]
  /\ UNCHANGED saved

Renew(a)  == Change(a, newest + 1) /\ newest' = newest + 1
Delete(a) == Change(a, None) /\ UNCHANGED newest

\* The old copy goes before the new one is there.
Lose ==
  /\ saving # None
  /\ saved' = [saved EXCEPT ![saving] = None]
  /\ UNCHANGED <<inUse, newest, saving>>

\* What is in use is saved: a token, or that there is none.
Save ==
  /\ saving # None /\ saving' = None
  /\ saved' = [saved EXCEPT ![saving] = inUse[saving]]
  /\ UNCHANGED <<inUse, newest>>

GiveUp == saving # None /\ saving' = None /\ UNCHANGED <<inUse, saved, newest>>

\* The copies are all that is left.
Restart ==
  /\ inUse' = [a \in Accounts |-> None] /\ saving' = None
  /\ UNCHANGED <<saved, newest>>

Next ==
  \/ \E a \in Accounts : Register(a) \/ Renew(a) \/ Delete(a)
  \/ Lose \/ Save \/ GiveUp \/ Restart

Spec == Init /\ [][Next]_vars

=============================================================================
