---------------------------- MODULE TokenManager ----------------------------
(***************************************************************************)
(* The OAuth2 tokens of the accounts: a map in memory guarded by           *)
(* accounts_mutex_, one file per account, and the token endpoint of the    *)
(* provider.  A call is made by a thread, takes the mutex for its whole    *)
(* length, and keeps it while it talks to the provider and to the disk.    *)
(*                                                                         *)
(* storage_mutex_ is only taken under accounts_mutex_ and is left out.     *)
(* Time is counted in ticks: a token record holds what is left of its life.*)
(***************************************************************************)
EXTENDS Naturals, FiniteSets

CONSTANTS
  Threads, NoThread,
  Accounts,
  Refreshable,  \* the accounts whose provider is "google" or "microsoft"
  Absent,       \* no such account, or no such file
  Torn,         \* a file that was opened for writing and is not complete
  Lifetime,     \* the life of a new token (one hour)
  Buffer,       \* refresh_buffer_minutes_
  AutoRefresh,  \* auto_refresh_enabled_
  SaveFaults,   \* opening, writing or removing a file may fail
  MaxTokens     \* bound on the tokens that are issued

\* struct OAuth2Token: the number of the access token, whether there is a refresh
\* token, what is left of its life, and is_valid.
Tokens == [access : Nat, refresh : BOOLEAN, left : Nat, valid : BOOLEAN]

ASSUME TokenAssumption ==
  /\ NoThread \notin Threads
  /\ Absent # Torn /\ Absent \notin Tokens \cup Nat \cup Accounts /\ Torn \notin Tokens
  /\ Refreshable \subseteq Accounts
  /\ Lifetime \in Nat /\ Buffer \in Nat /\ MaxTokens \in Nat
  /\ AutoRefresh \in BOOLEAN /\ SaveFaults \in BOOLEAN

VARIABLES
  accounts,  \* accounts_: the token of each registered account
  disk,      \* the file of each account
  owner,     \* the thread that holds accounts_mutex_
  pc,        \* where each thread is
  arg,       \* the account its call is about
  issued,    \* the number of access tokens issued so far
  deleted,   \* accounts deleted and given no token since (history)
  unsaved    \* accounts whose last token could not be saved (history)

vars == <<accounts, disk, owner, pc, arg, issued, deleted, unsaved>>

Operations == {"register", "get", "refresh", "store", "delete"}

\* OAuth2Token()
NoToken == [access |-> 0, refresh |-> FALSE, left |-> 0, valid |-> FALSE]

NewToken == [access |-> issued + 1, refresh |-> TRUE, left |-> Lifetime, valid |-> TRUE]

isTokenExpired(a, buffer) == accounts[a].left <= buffer

(***************************************************************************)
(* Threads and the mutex                                                   *)
(***************************************************************************)
Call(t, op, a) ==
  /\ pc[t] = "idle"
  /\ pc' = [pc EXCEPT ![t] = op] /\ arg' = [arg EXCEPT ![t] = a]
  /\ UNCHANGED <<accounts, disk, owner, issued, deleted, unsaved>>

\* The call takes the mutex, and returns in the same step or goes on with it.
Enter(t, op) == pc[t] = op /\ owner = NoThread
Returns(t)   == pc' = [pc EXCEPT ![t] = "idle"] /\ UNCHANGED <<owner, arg>>
Keeps(t, to) == owner' = t /\ pc' = [pc EXCEPT ![t] = to] /\ UNCHANGED arg

\* Steps of a call that has the mutex, the last of which gives it back.
Continue(t, from, to) == pc[t] = from /\ pc' = [pc EXCEPT ![t] = to] /\ UNCHANGED <<owner, arg>>
Leave(t, from) ==
  pc[t] = from /\ pc' = [pc EXCEPT ![t] = "idle"] /\ owner' = NoThread /\ UNCHANGED arg

(***************************************************************************)
(* The operations                                                          *)
(***************************************************************************)
\* A registration takes the stored token, or none; it replaces what was there.
registerAccount(t) ==
  LET a == arg[t] IN
  /\ Enter(t, "register") /\ Returns(t)
  /\ accounts' = [accounts EXCEPT ![a] = IF disk[a] \in {Absent, Torn} THEN NoToken ELSE disk[a]]
  /\ unsaved' = unsaved \ {a}
  /\ UNCHANGED <<disk, issued, deleted>>

\* With a token that is about to expire the call goes on to refreshToken(),
\* which takes the mutex that this thread has; otherwise it returns.
MustRefresh(a) ==
  accounts[a] # Absent /\ AutoRefresh /\ isTokenExpired(a, Buffer)

getAccessToken(t) ==
  /\ Enter(t, "get")
  /\ IF MustRefresh(arg[t]) THEN Keeps(t, "relock") ELSE Returns(t)
  /\ UNCHANGED <<accounts, disk, issued, deleted, unsaved>>

CanRefresh(a) == accounts[a] # Absent /\ a \in Refreshable

refreshToken_Unlocked(t) ==
  /\ pc[t] \in {"refresh", "relock"}
  /\ pc' = [pc EXCEPT ![t] = IF CanRefresh(arg[t]) THEN "request" ELSE "idle"]
  /\ UNCHANGED <<accounts, disk, owner, arg, issued, deleted, unsaved>>
refreshToken(t) ==
  /\ pc[t] \in {"refresh", "relock"} /\ owner = NoThread
  /\ IF CanRefresh(arg[t]) THEN Keeps(t, "request") ELSE Returns(t)
  /\ UNCHANGED <<accounts, disk, issued, deleted, unsaved>>

\* performTokenRequest() fails, or the provider issues a new access token for
\* the refresh token.  The refresh token stays as it is.
RequestFails_KeepsMutex(t) ==
  Continue(t, "request", "idle") /\ UNCHANGED <<accounts, disk, issued, deleted, unsaved>>
RequestFails(t) == Leave(t, "request") /\ UNCHANGED <<accounts, disk, issued, deleted, unsaved>>

RequestSucceeds(t) ==
  LET a == arg[t] IN
  /\ issued < MaxTokens
  /\ Continue(t, "request", "open")
  /\ accounts[a] # Absent /\ accounts[a].refresh
  /\ accounts' = [accounts EXCEPT ![a] = NewToken]
  /\ issued' = issued + 1
  /\ UNCHANGED <<disk, deleted, unsaved>>

storeTokens_Unsaved(t) ==
  LET a == arg[t] IN
  /\ Enter(t, "store") /\ Returns(t)
  /\ accounts[a] # Absent /\ issued < MaxTokens
  /\ accounts' = [accounts EXCEPT ![a] = NewToken]
  /\ issued' = issued + 1
  /\ deleted' = deleted \ {a}
  /\ UNCHANGED <<disk, unsaved>>
storeTokens(t) ==
  LET a == arg[t] IN
  /\ Enter(t, "store")
  /\ \/ accounts[a] = Absent /\ Returns(t) /\ UNCHANGED <<accounts, issued, deleted>>
     \/ /\ accounts[a] # Absent /\ issued < MaxTokens
        /\ Keeps(t, "open")
        /\ accounts' = [accounts EXCEPT ![a] = NewToken]
        /\ issued' = issued + 1
        /\ deleted' = deleted \ {a}
  /\ UNCHANGED <<disk, unsaved>>

\* saveToken(): the file is truncated in place and then written.
SaveOpen(t) ==
  /\ Continue(t, "open", "write")
  /\ disk' = [disk EXCEPT ![arg[t]] = Torn]
  /\ UNCHANGED <<accounts, issued, deleted, unsaved>>

SaveWrite(t) ==
  /\ Leave(t, "write")
  /\ disk' = [disk EXCEPT ![arg[t]] = accounts[arg[t]]]
  /\ unsaved' = unsaved \ {arg[t]}
  /\ UNCHANGED <<accounts, issued, deleted>>

\* What cannot be opened is not saved; what cannot be written is not noticed;
\* what cannot be removed stays.  refreshToken() reports success all the same.
SaveFails(t) ==
  /\ SaveFaults
  /\ \E from \in {"open", "write", "unlink"} : Leave(t, from)
  /\ unsaved' = unsaved \cup {arg[t]}
  /\ UNCHANGED <<accounts, disk, issued, deleted>>

\* An account that is not registered keeps its file.
deleteAccount(t) ==
  LET a == arg[t] IN
  /\ Enter(t, "delete")
  /\ IF accounts[a] = Absent THEN Returns(t) ELSE Keeps(t, "unlink")
  /\ accounts' = [accounts EXCEPT ![a] = Absent]
  /\ UNCHANGED <<disk, issued, deleted, unsaved>>

deleteToken(t) ==
  /\ Leave(t, "unlink")
  /\ disk' = [disk EXCEPT ![arg[t]] = Absent]
  /\ deleted' = deleted \cup {arg[t]}
  /\ unsaved' = unsaved \ {arg[t]}
  /\ UNCHANGED <<accounts, issued>>

(***************************************************************************)
(* The environment                                                         *)
(***************************************************************************)
\* The process ends and is started again; only the files are left.
Crash ==
  /\ accounts' = [a \in Accounts |-> Absent]
  /\ pc' = [t \in Threads |-> "idle"] /\ owner' = NoThread
  /\ UNCHANGED <<disk, arg, issued, deleted, unsaved>>

Stored(x) == x \notin {Absent, Torn}
Older(x)  == IF Stored(x) /\ x.left > 0 THEN [x EXCEPT !.left = @ - 1] ELSE x

Tick ==
  /\ accounts' = [a \in Accounts |-> Older(accounts[a])]
  /\ disk' = [a \in Accounts |-> Older(disk[a])]
  /\ UNCHANGED <<owner, pc, arg, issued, deleted, unsaved>>

(***************************************************************************)
(* The specification                                                       *)
(***************************************************************************)
Init ==
  /\ accounts = [a \in Accounts |-> Absent] /\ disk = [a \in Accounts |-> Absent]
  /\ owner = NoThread /\ pc = [t \in Threads |-> "idle"]
  /\ arg \in [Threads -> Accounts]
  /\ issued = 0 /\ deleted = {} /\ unsaved = {}

\* A call that holds the mutex.
HolderStep(t) ==
  \/ RequestFails(t) \/ RequestSucceeds(t)
  \/ SaveOpen(t) \/ SaveWrite(t) \/ SaveFails(t) \/ deleteToken(t)

EntryStep(t) ==
  \/ registerAccount(t) \/ getAccessToken(t) \/ refreshToken(t) \/ storeTokens(t)
  \/ deleteAccount(t)

Next ==
  \/ \E t \in Threads : \/ \E op \in Operations, a \in Accounts : Call(t, op, a)
                        \/ EntryStep(t) \/ HolderStep(t)
  \/ Crash \/ Tick

Spec == Init /\ [][Next]_vars

\* A thread goes on when it can: requests have a timeout, writes return.  Who
\* gets a mutex that several threads wait for is not said.
FairSpec == Spec /\ \A t \in Threads : WF_vars(HolderStep(t) \/ EntryStep(t))

(***************************************************************************)
(* Properties                                                              *)
(***************************************************************************)
\* A token in use is the token on disk whenever no call is under way: what
\* several threads store, refresh and delete, and a crash at any moment, leave
\* memory and disk in agreement, unless the last save of the account failed.
Persisted ==
  \A a \in Accounts \ unsaved :
    owner = NoThread /\ accounts[a] # Absent /\ accounts[a].valid => disk[a] = accounts[a]

\* In a running process an account never falls back to an older access token,
\* not even when it is registered again, if its last token could be saved.
TokensAdvance ==
  [][\A a \in Accounts \ unsaved :
       accounts[a] # Absent /\ accounts'[a] # Absent
         => accounts'[a].access >= accounts[a].access]_vars

\* A refresh that is under way when its account is deleted does not bring the
\* file back.
DeletionIsFinal == \A a \in deleted : disk[a] = Absent

\* Every call gives the mutex back, whatever the provider answers and whatever
\* fails on the disk, except a getAccessToken() that goes on to refresh.
MutexReturned ==
  \A t \in Threads : (owner = t /\ pc[t] # "relock") ~> (owner # t)

=============================================================================
