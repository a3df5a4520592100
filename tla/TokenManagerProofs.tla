-------------------------- MODULE TokenManagerProofs --------------------------
(***************************************************************************)
(* Proofs about TokenManager, for any threads, accounts and times: what is *)
(* on disk agrees with what is in use, deletions last, and access tokens   *)
(* never go back.                                                          *)
(***************************************************************************)
EXTENDS TokenManagerRefinement, TLAPS

\* The points at which a thread has the mutex.
Holding == {"relock", "request", "open", "write", "unlink"}
Points == {"idle"} \cup Operations \cup Holding

TypeOK ==
  /\ accounts \in [Accounts -> Tokens \cup {Absent}]
  /\ disk \in [Accounts -> Tokens \cup {Absent, Torn}]
  /\ owner \in Threads \cup {NoThread}
  /\ pc \in [Threads -> Points] /\ arg \in [Threads -> Accounts]
  /\ issued \in Nat
  /\ deleted \subseteq Accounts /\ unsaved \subseteq Accounts

\* A thread inside the critical section is the owner of the mutex.
HoldersOwn == \A t \in Threads : pc[t] \in Holding <=> owner = t

Saving(a) == \E t \in Threads : arg[t] = a /\ pc[t] \in {"open", "write"}

\* Between its change in memory and the end of its save a token may differ from
\* its file, and at no other time.
SavedOrSaving ==
  \A a \in Accounts \ unsaved :
    accounts[a] # Absent /\ accounts[a].valid => disk[a] = accounts[a] \/ Saving(a)

\* A deleted account may be registered again, but then has no refresh token, so
\* that no refresh can save one for it.
DeletedStays ==
  \A a \in deleted : /\ disk[a] = Absent /\ ~Saving(a)
                     /\ accounts[a] # Absent => ~accounts[a].refresh

UnlinkedIsGone == \A t \in Threads : pc[t] = "unlink" => accounts[arg[t]] = Absent

\* Tokens are numbered as they are issued, and a record without a token has number 0.
Numbered(x) == x \in Tokens => x.access <= issued /\ (~x.valid => x.access = 0)
TokensNumbered == \A a \in Accounts : Numbered(accounts[a]) /\ Numbered(disk[a])

IInv ==
  /\ TypeOK /\ HoldersOwn /\ SavedOrSaving /\ DeletedStays /\ UnlinkedIsGone
  /\ TokensNumbered

(***************************************************************************)
(* The invariant                                                           *)
(***************************************************************************)
LEMMA InitIInv == Init => IInv
BY TokenAssumption
   DEF Init, IInv, TypeOK, HoldersOwn, SavedOrSaving, DeletedStays, UnlinkedIsGone,
       TokensNumbered, Numbered, Points, Holding, Operations

\* An account is registered while nobody holds the mutex: its file is whole or torn,
\* and a whole one is the account's last token.
LEMMA registerAccountStep ==
  ASSUME IInv, NEW t \in Threads, registerAccount(t)
  PROVE  IInv'
<1> USE TokenAssumption
        DEF IInv, TypeOK, Points, Holding, Operations, Tokens, registerAccount,
            Enter, Returns, NoToken
<1>1. TypeOK'
  OBVIOUS
<1>2. HoldersOwn'
  BY DEF HoldersOwn
<1>3. SavedOrSaving'
  BY DEF SavedOrSaving, Saving, UnlinkedIsGone, HoldersOwn, DeletedStays
<1>4. DeletedStays'
  BY DEF DeletedStays, Saving, UnlinkedIsGone, HoldersOwn
<1>5. UnlinkedIsGone'
  BY DEF UnlinkedIsGone, HoldersOwn
<1>6. TokensNumbered'
  BY DEF TokensNumbered, Numbered
<1>7. QED
  BY <1>1, <1>2, <1>3, <1>4, <1>5, <1>6 DEF IInv

\* The steps that only take the mutex, or find nothing to do.
LEMMA getAccessTokenStep ==
  ASSUME IInv, NEW t \in Threads, getAccessToken(t)
  PROVE  IInv'
<1> USE TokenAssumption
        DEF IInv, TypeOK, Points, Holding, Operations, Tokens, getAccessToken,
            Enter, Returns, Keeps
<1>1. TypeOK'
  OBVIOUS
<1>2. HoldersOwn'
  BY DEF HoldersOwn
<1>3. SavedOrSaving'
  BY DEF SavedOrSaving, Saving, UnlinkedIsGone, HoldersOwn, DeletedStays
<1>4. DeletedStays'
  BY DEF DeletedStays, Saving, UnlinkedIsGone, HoldersOwn
<1>5. UnlinkedIsGone'
  BY DEF UnlinkedIsGone, HoldersOwn
<1>6. TokensNumbered'
  BY DEF TokensNumbered, Numbered
<1>7. QED
  BY <1>1, <1>2, <1>3, <1>4, <1>5, <1>6 DEF IInv

LEMMA refreshTokenStep ==
  ASSUME IInv, NEW t \in Threads, refreshToken(t)
  PROVE  IInv'
<1> USE TokenAssumption
        DEF IInv, TypeOK, Points, Holding, Operations, Tokens, refreshToken,
            Enter, Returns, Keeps, CanRefresh
<1>1. TypeOK'
  OBVIOUS
<1>2. HoldersOwn'
  BY DEF HoldersOwn
<1>3. SavedOrSaving'
  BY DEF SavedOrSaving, Saving, UnlinkedIsGone, HoldersOwn, DeletedStays
<1>4. DeletedStays'
  BY DEF DeletedStays, Saving, UnlinkedIsGone, HoldersOwn
<1>5. UnlinkedIsGone'
  BY DEF UnlinkedIsGone, HoldersOwn
<1>6. TokensNumbered'
  BY DEF TokensNumbered, Numbered
<1>7. QED
  BY <1>1, <1>2, <1>3, <1>4, <1>5, <1>6 DEF IInv

\* The steps that change a token in memory: they keep the mutex and go on to save it.
LEMMA storeTokensStep ==
  ASSUME IInv, NEW t \in Threads, storeTokens(t)
  PROVE  IInv'
<1> USE TokenAssumption
        DEF IInv, TypeOK, Points, Holding, Operations, Tokens, storeTokens,
            Enter, Returns, Keeps, NewToken
<1>1. TypeOK'
  <2>1. accounts' = accounts \/ accounts' = [accounts EXCEPT ![arg[t]] = NewToken]
    OBVIOUS
  <2>2. NewToken \in Tokens
    OBVIOUS
  <2>3. accounts' \in [Accounts -> Tokens \cup {Absent}]
    BY <2>1, <2>2
  <2>4. QED
    BY <2>3
<1>2. HoldersOwn'
  BY DEF HoldersOwn
<1>3. SavedOrSaving'
  BY DEF SavedOrSaving, Saving, UnlinkedIsGone, HoldersOwn, DeletedStays
<1>4. DeletedStays'
  BY DEF DeletedStays, Saving, UnlinkedIsGone, HoldersOwn
<1>5. UnlinkedIsGone'
  BY DEF UnlinkedIsGone, HoldersOwn
<1>6. TokensNumbered'
  BY DEF TokensNumbered, Numbered
<1>7. QED
  BY <1>1, <1>2, <1>3, <1>4, <1>5, <1>6 DEF IInv

LEMMA deleteAccountStep ==
  ASSUME IInv, NEW t \in Threads, deleteAccount(t)
  PROVE  IInv'
<1> USE TokenAssumption
        DEF IInv, TypeOK, Points, Holding, Operations, Tokens, deleteAccount,
            Enter, Returns, Keeps
<1>1. TypeOK'
  OBVIOUS
<1>2. HoldersOwn'
  BY DEF HoldersOwn
<1>3. SavedOrSaving'
  BY DEF SavedOrSaving, Saving, UnlinkedIsGone, HoldersOwn, DeletedStays
<1>4. DeletedStays'
  BY DEF DeletedStays, Saving, UnlinkedIsGone, HoldersOwn
<1>5. UnlinkedIsGone'
  BY DEF UnlinkedIsGone, HoldersOwn
<1>6. TokensNumbered'
  BY DEF TokensNumbered, Numbered
<1>7. QED
  BY <1>1, <1>2, <1>3, <1>4, <1>5, <1>6 DEF IInv

LEMMA RequestFailsStep ==
  ASSUME IInv, NEW t \in Threads, RequestFails(t)
  PROVE  IInv'
<1> USE TokenAssumption
        DEF IInv, TypeOK, Points, Holding, Operations, Tokens, RequestFails,
            Leave
<1>1. TypeOK'
  OBVIOUS
<1>2. HoldersOwn'
  BY DEF HoldersOwn
<1>3. SavedOrSaving'
  BY DEF SavedOrSaving, Saving, UnlinkedIsGone, HoldersOwn, DeletedStays
<1>4. DeletedStays'
  BY DEF DeletedStays, Saving, UnlinkedIsGone, HoldersOwn
<1>5. UnlinkedIsGone'
  BY DEF UnlinkedIsGone, HoldersOwn
<1>6. TokensNumbered'
  BY DEF TokensNumbered, Numbered
<1>7. QED
  BY <1>1, <1>2, <1>3, <1>4, <1>5, <1>6 DEF IInv

LEMMA RequestSucceedsStep ==
  ASSUME IInv, NEW t \in Threads, RequestSucceeds(t)
  PROVE  IInv'
<1> USE TokenAssumption
        DEF IInv, TypeOK, Points, Holding, Operations, Tokens, RequestSucceeds,
            Continue, NewToken
<1>1. TypeOK'
  OBVIOUS
<1>2. HoldersOwn'
  BY DEF HoldersOwn
<1>3. SavedOrSaving'
  BY DEF SavedOrSaving, Saving, UnlinkedIsGone, HoldersOwn, DeletedStays
<1>4. DeletedStays'
  BY DEF DeletedStays, Saving, UnlinkedIsGone, HoldersOwn
<1>5. UnlinkedIsGone'
  BY DEF UnlinkedIsGone, HoldersOwn
<1>6. TokensNumbered'
  BY DEF TokensNumbered, Numbered
<1>7. QED
  BY <1>1, <1>2, <1>3, <1>4, <1>5, <1>6 DEF IInv

\* The steps on the disk.
LEMMA SaveOpenStep ==
  ASSUME IInv, NEW t \in Threads, SaveOpen(t)
  PROVE  IInv'
<1> USE TokenAssumption
        DEF IInv, TypeOK, Points, Holding, Operations, Tokens, SaveOpen,
            Continue
<1>1. TypeOK'
  OBVIOUS
<1>2. HoldersOwn'
  BY DEF HoldersOwn
<1>3. SavedOrSaving'
  BY DEF SavedOrSaving, Saving, UnlinkedIsGone, HoldersOwn, DeletedStays
<1>4. DeletedStays'
  BY DEF DeletedStays, Saving, UnlinkedIsGone, HoldersOwn
<1>5. UnlinkedIsGone'
  BY DEF UnlinkedIsGone, HoldersOwn
<1>6. TokensNumbered'
  BY DEF TokensNumbered, Numbered
<1>7. QED
  BY <1>1, <1>2, <1>3, <1>4, <1>5, <1>6 DEF IInv

LEMMA SaveWriteStep ==
  ASSUME IInv, NEW t \in Threads, SaveWrite(t)
  PROVE  IInv'
<1> USE TokenAssumption
        DEF IInv, TypeOK, Points, Holding, Operations, Tokens, SaveWrite,
            Leave
<1>1. TypeOK'
  OBVIOUS
<1>2. HoldersOwn'
  BY DEF HoldersOwn
<1>3. SavedOrSaving'
  BY DEF SavedOrSaving, Saving, UnlinkedIsGone, HoldersOwn, DeletedStays
<1>4. DeletedStays'
  BY DEF DeletedStays, Saving, UnlinkedIsGone, HoldersOwn
<1>5. UnlinkedIsGone'
  BY DEF UnlinkedIsGone, HoldersOwn
<1>6. TokensNumbered'
  BY DEF TokensNumbered, Numbered
<1>7. QED
  BY <1>1, <1>2, <1>3, <1>4, <1>5, <1>6 DEF IInv

LEMMA SaveFailsStep ==
  ASSUME IInv, NEW t \in Threads, SaveFails(t)
  PROVE  IInv'
<1> USE TokenAssumption
        DEF IInv, TypeOK, Points, Holding, Operations, Tokens, SaveFails,
            Leave
<1>1. TypeOK'
  OBVIOUS
<1>2. HoldersOwn'
  BY DEF HoldersOwn
<1>3. SavedOrSaving'
  BY DEF SavedOrSaving, Saving, UnlinkedIsGone, HoldersOwn, DeletedStays
<1>4. DeletedStays'
  BY DEF DeletedStays, Saving, UnlinkedIsGone, HoldersOwn
<1>5. UnlinkedIsGone'
  BY DEF UnlinkedIsGone, HoldersOwn
<1>6. TokensNumbered'
  BY DEF TokensNumbered, Numbered
<1>7. QED
  BY <1>1, <1>2, <1>3, <1>4, <1>5, <1>6 DEF IInv

LEMMA deleteTokenStep ==
  ASSUME IInv, NEW t \in Threads, deleteToken(t)
  PROVE  IInv'
<1> USE TokenAssumption
        DEF IInv, TypeOK, Points, Holding, Operations, Tokens, deleteToken,
            Leave
<1>1. TypeOK'
  OBVIOUS
<1>2. HoldersOwn'
  BY DEF HoldersOwn
<1>3. SavedOrSaving'
  BY DEF SavedOrSaving, Saving, UnlinkedIsGone, HoldersOwn, DeletedStays
<1>4. DeletedStays'
  BY DEF DeletedStays, Saving, UnlinkedIsGone, HoldersOwn
<1>5. UnlinkedIsGone'
  BY DEF UnlinkedIsGone, HoldersOwn
<1>6. TokensNumbered'
  BY DEF TokensNumbered, Numbered
<1>7. QED
  BY <1>1, <1>2, <1>3, <1>4, <1>5, <1>6 DEF IInv

\* A call begins, the process restarts, or time passes.
LEMMA CallStep ==
  ASSUME IInv, NEW t \in Threads, NEW op \in Operations, NEW a \in Accounts, Call(t, op, a)
  PROVE  IInv'
<1> USE TokenAssumption DEF IInv, TypeOK, Points, Holding, Operations, Tokens, Call
<1>1. TypeOK'
  OBVIOUS
<1>2. HoldersOwn'
  BY DEF HoldersOwn
<1>3. \A b \in Accounts : Saving(b)' <=> Saving(b)
  BY DEF Saving
<1>4. SavedOrSaving' /\ DeletedStays'
  BY <1>3 DEF SavedOrSaving, DeletedStays
<1>5. UnlinkedIsGone' /\ TokensNumbered'
  BY DEF UnlinkedIsGone, TokensNumbered, Numbered
<1>6. QED
  BY <1>1, <1>2, <1>4, <1>5 DEF IInv

LEMMA CrashStep == ASSUME IInv, Crash PROVE IInv'
BY TokenAssumption
   DEF IInv, TypeOK, HoldersOwn, SavedOrSaving, Saving, DeletedStays, UnlinkedIsGone,
       TokensNumbered, Numbered, Points, Holding, Operations, Crash

LEMMA OlderToken ==
  ASSUME NEW x
  PROVE  /\ x \in Tokens => /\ Older(x) \in Tokens
                            /\ Older(x).access = x.access /\ Older(x).valid = x.valid
                            /\ Older(x).refresh = x.refresh
         /\ x \in {Absent, Torn} => Older(x) = x
BY TokenAssumption DEF Older, Stored, Tokens

LEMMA TickStep == ASSUME IInv, Tick PROVE IInv'
<1>1. /\ accounts' = [a \in Accounts |-> Older(accounts[a])]
      /\ disk' = [a \in Accounts |-> Older(disk[a])]
      /\ UNCHANGED <<owner, pc, arg, issued, deleted, unsaved>>
  BY DEF Tick
<1>2. \A a \in Accounts : /\ accounts[a] \in Tokens \cup {Absent}
                          /\ disk[a] \in Tokens \cup {Absent, Torn}
  BY DEF IInv, TypeOK
<1>3. TypeOK' /\ HoldersOwn'
  BY <1>1, <1>2, OlderToken DEF IInv, TypeOK, HoldersOwn
<1>4. SavedOrSaving' /\ DeletedStays' /\ UnlinkedIsGone'
  BY <1>1, <1>2, OlderToken, TokenAssumption
     DEF IInv, TypeOK, SavedOrSaving, Saving, DeletedStays, UnlinkedIsGone
<1>5. TokensNumbered'
  BY <1>1, <1>2, OlderToken, TokenAssumption DEF IInv, TypeOK, TokensNumbered, Numbered
<1>6. QED
  BY <1>3, <1>4, <1>5 DEF IInv

LEMMA NextIInv == IInv /\ [Next]_vars => IInv'
<1> SUFFICES ASSUME IInv, [Next]_vars PROVE IInv'
  OBVIOUS
<1>1. ASSUME NEW t \in Threads, NEW op \in Operations, NEW a \in Accounts, Call(t, op, a)
      PROVE  IInv'
  BY <1>1, CallStep
<1>2. ASSUME NEW t \in Threads, EntryStep(t) PROVE IInv'
  BY <1>2, registerAccountStep, getAccessTokenStep, refreshTokenStep, storeTokensStep,
     deleteAccountStep DEF EntryStep
<1>3. ASSUME NEW t \in Threads, HolderStep(t) PROVE IInv'
  BY <1>3, RequestFailsStep, RequestSucceedsStep, SaveOpenStep, SaveWriteStep, SaveFailsStep,
     deleteTokenStep DEF HolderStep
<1>4. CASE Crash
  BY <1>4, CrashStep
<1>5. CASE Tick
  BY <1>5, TickStep
<1>6. CASE UNCHANGED vars
  BY <1>6 DEF vars, IInv, TypeOK, HoldersOwn, SavedOrSaving, Saving, DeletedStays,
     UnlinkedIsGone, TokensNumbered, Numbered
<1>7. QED
  BY <1>1, <1>2, <1>3, <1>4, <1>5, <1>6 DEF Next

LEMMA Inductive == Spec => []IInv
<1>1. Spec => Init /\ [][Next]_vars
  BY DEF Spec
<1>2. QED
  BY <1>1, InitIInv, NextIInv, PTL

(***************************************************************************)
(* The theorems                                                            *)
(***************************************************************************)
\* Whatever threads register, refresh, store and delete, and wherever the process
\* is killed, a token in use is the one on disk when no call is under way, unless
\* its save failed.
THEOREM TokensPersist == Spec => []Persisted
<1>1. IInv => Persisted
  BY TokenAssumption DEF IInv, TypeOK, SavedOrSaving, Saving, HoldersOwn, Holding, Persisted
<1>2. QED
  BY <1>1, Inductive, PTL

\* No refresh, and no save that was under way, brings the file of a deleted
\* account back.
THEOREM DeletionLasts == Spec => []DeletionIsFinal
<1>1. IInv => DeletionIsFinal
  BY DEF IInv, DeletedStays, DeletionIsFinal
<1>2. QED
  BY <1>1, Inductive, PTL

\* In a running process the access token of an account only advances.
LEMMA NeverBack ==
  ASSUME IInv, [Next]_vars, NEW a \in Accounts \ unsaved,
         accounts[a] # Absent, accounts'[a] # Absent
  PROVE  accounts'[a].access >= accounts[a].access
<1> USE TokenAssumption DEF IInv, TypeOK
<1>1. accounts[a] \in Tokens /\ accounts[a].access \in Nat /\ accounts[a].access <= issued
  BY DEF TokensNumbered, Numbered, Tokens
<1>2. CASE accounts'[a] = accounts[a]
  BY <1>1, <1>2
<1>3. CASE accounts'[a] = NewToken
  BY <1>1, <1>3 DEF NewToken
<1>4. CASE Tick
  <2>1. accounts'[a] = Older(accounts[a])
    BY <1>4 DEF Tick
  <2>2. QED
    BY <1>1, <2>1, OlderToken
<1>5. ASSUME NEW t \in Threads, registerAccount(t), arg[t] = a
      PROVE  accounts'[a].access >= accounts[a].access
  <2>1. /\ owner = NoThread
        /\ accounts'[a] = IF disk[a] \in {Absent, Torn} THEN NoToken ELSE disk[a]
    BY <1>5 DEF registerAccount, Enter
  <2>2. CASE accounts[a].valid
    <3>1. disk[a] = accounts[a]
      BY <2>1, <2>2 DEF SavedOrSaving, Saving, HoldersOwn, Holding
    <3>2. QED
      BY <1>1, <2>1, <3>1
  <2>3. CASE ~accounts[a].valid
    <3>1. accounts[a].access = 0
      BY <1>1, <2>3 DEF TokensNumbered, Numbered
    <3>2. accounts'[a].access \in Nat
      BY <2>1 DEF NoToken, Tokens
    <3>3. QED
      BY <3>1, <3>2
  <2>4. QED
    BY <2>2, <2>3
<1>6. \/ accounts'[a] = accounts[a] \/ accounts'[a] = NewToken \/ Tick
      \/ \E t \in Threads : registerAccount(t) /\ arg[t] = a
  <2>1. CASE \E t \in Threads, op \in Operations, b \in Accounts : Call(t, op, b)
    BY <2>1 DEF Call
  <2>2. CASE \E t \in Threads : EntryStep(t)
    BY <2>2 DEF EntryStep, registerAccount, getAccessToken, refreshToken, storeTokens,
                deleteAccount
  <2>3. CASE \E t \in Threads : HolderStep(t)
    BY <2>3 DEF HolderStep, RequestFails, RequestSucceeds, SaveOpen, SaveWrite, SaveFails,
                deleteToken
  <2>4. CASE Crash
    BY <2>4 DEF Crash
  <2>5. QED
    BY <2>1, <2>2, <2>3, <2>4 DEF Next, vars
<1>7. QED
  BY <1>2, <1>3, <1>4, <1>5, <1>6

\* An account never falls back to an older access token, not even when it is
\* registered again.
THEOREM TokensNeverFallBack == Spec => TokensAdvance
<1>1. IInv /\ [Next]_vars =>
        [\A a \in Accounts \ unsaved :
           accounts[a] # Absent /\ accounts'[a] # Absent
             => accounts'[a].access >= accounts[a].access]_vars
  BY NeverBack
<1>2. QED
  BY <1>1, Inductive, PTL DEF Spec, TokensAdvance

(***************************************************************************)
(* The refinement                                                          *)
(***************************************************************************)
\* Of the threads that are inside a call only the owner of the mutex can be saving,
\* so that the choice in saving is of that one; here before and after a step.
LEMMA SavingNow ==
  ASSUME IInv, NEW t \in Threads
  PROVE  /\ pc[t] \in Writing => saving = arg[t]
         /\ owner = t /\ pc[t] \notin Writing => saving = Absent
         /\ owner = NoThread => saving = Absent
<1> USE TokenAssumption DEF IInv, TypeOK, HoldersOwn, Holding, Writing
<1>1. ASSUME pc[t] \in Writing PROVE saving = arg[t]
  <2>1. \A u \in Threads : pc[u] \in Writing => u = t
    BY <1>1
  <2>2. (CHOOSE u \in Threads : pc[u] \in Writing) = t
    BY <1>1, <2>1
  <2>3. QED
    BY <1>1, <2>2 DEF saving
<1>2. ASSUME (owner = t /\ pc[t] \notin Writing) \/ owner = NoThread PROVE saving = Absent
  <2>1. \A u \in Threads : pc[u] \notin Writing
    BY <1>2
  <2>2. QED
    BY <2>1 DEF saving
<1>3. QED
  BY <1>1, <1>2

LEMMA SavingNext ==
  ASSUME IInv', NEW t \in Threads
  PROVE  /\ pc'[t] \in Writing => saving' = arg'[t]
         /\ owner' = t /\ pc'[t] \notin Writing => saving' = Absent
         /\ owner' = NoThread => saving' = Absent
<1> USE TokenAssumption DEF IInv, TypeOK, HoldersOwn, Holding, Writing
<1>1. ASSUME pc'[t] \in Writing PROVE saving' = arg'[t]
  <2>1. \A u \in Threads : pc'[u] \in Writing => u = t
    BY <1>1
  <2>2. (CHOOSE u \in Threads : pc'[u] \in Writing) = t
    BY <1>1, <2>1
  <2>3. QED
    BY <1>1, <2>2 DEF saving
<1>2. ASSUME (owner' = t /\ pc'[t] \notin Writing) \/ owner' = NoThread PROVE saving' = Absent
  <2>1. \A u \in Threads : pc'[u] \notin Writing
    BY <1>2
  <2>2. QED
    BY <2>1 DEF saving
<1>3. QED
  BY <1>1, <1>2

\* The number of a token.
LEMMA Numbers ==
  /\ Number(Absent) = Absent /\ Number(Torn) = Absent
  /\ \A x \in Tokens : Number(x) = x.access /\ Number(x) \in Nat /\ Number(x) # Absent
BY TokenAssumption DEF Number, Stored, Tokens

LEMMA InitStore == Init => Store!Init
BY TokenAssumption, Numbers DEF Init, Store!Init, inUse, saved, saving, Writing

\* A token put into memory or on disk is one number put into the store.
LEMMA UseChanges ==
  ASSUME IInv, NEW a \in Accounts, NEW x, accounts' = [accounts EXCEPT ![a] = x]
  PROVE  inUse' = [inUse EXCEPT ![a] = Number(x)]
BY DEF IInv, TypeOK, inUse

LEMMA SavedChanges ==
  ASSUME IInv, NEW a \in Accounts, NEW x, disk' = [disk EXCEPT ![a] = x]
  PROVE  saved' = [saved EXCEPT ![a] = Number(x)]
BY DEF IInv, TypeOK, saved

\* The steps of a call that takes the mutex.
LEMMA EntryImplements ==
  ASSUME IInv, IInv', NEW t \in Threads, EntryStep(t)
  PROVE  [Store!Next]_Store!vars
<1> DEFINE a == arg[t]
<1> USE DEF IInv, TypeOK, Points, Holding, Writing
<1>1. a \in Accounts
  OBVIOUS
<1>2. ASSUME registerAccount(t) PROVE Store!Register(a)
  <2>1. saving = Absent /\ saving' = Absent
    BY <1>2, SavingNow, SavingNext DEF registerAccount, Enter, Returns
  <2>2. saved' = saved
    BY <1>2 DEF registerAccount, saved
  <2>3. inUse' = [inUse EXCEPT ![a] = Number(IF disk[a] \in {Absent, Torn} THEN NoToken ELSE disk[a])]
    BY <1>2, UseChanges DEF registerAccount
  <2>4. Number(NoToken) = 0
    <3>1. NoToken \in Tokens /\ NoToken.access = 0
      BY DEF NoToken, Tokens
    <3>2. QED
      BY <3>1, Numbers
  <2>5. saved[a] = Absent <=> disk[a] \in {Absent, Torn}
    BY <1>1, Numbers DEF saved
  <2>6. saved[a] = Number(disk[a])
    BY DEF saved
  <2>7. issued' = issued
    BY <1>2 DEF registerAccount
  <2>8. QED
    BY <2>1, <2>2, <2>3, <2>4, <2>5, <2>6, <2>7 DEF Store!Register
<1>3. ASSUME getAccessToken(t) \/ refreshToken(t) \/ (storeTokens(t) /\ accounts[a] = Absent)
             \/ (deleteAccount(t) /\ accounts[a] = Absent)
      PROVE  UNCHANGED Store!vars
  <2>1. saving = Absent /\ saving' = Absent
    BY <1>3, SavingNow, SavingNext
       DEF getAccessToken, refreshToken, storeTokens, deleteAccount, Enter, Returns, Keeps
  <2>2. accounts' = accounts /\ disk' = disk /\ issued' = issued
    BY <1>3 DEF getAccessToken, refreshToken, storeTokens, deleteAccount
  <2>3. QED
    BY <2>1, <2>2 DEF Store!vars, inUse, saved
<1>4. ASSUME storeTokens(t), accounts[a] # Absent PROVE Store!Renew(a)
  <2>1. saving = Absent /\ saving' = a
    BY <1>4, SavingNow, SavingNext DEF storeTokens, Enter, Keeps
  <2>2. NewToken \in Tokens /\ NewToken.access = issued + 1
    BY TokenAssumption DEF NewToken, Tokens
  <2>3. inUse' = [inUse EXCEPT ![a] = issued + 1]
    BY <1>4, <2>2, UseChanges, Numbers DEF storeTokens
  <2>4. inUse[a] # Absent
    BY <1>1, <1>4, Numbers DEF inUse
  <2>5. saved' = saved /\ issued' = issued + 1
    BY <1>4 DEF storeTokens, saved
  <2>6. QED
    BY <2>1, <2>3, <2>4, <2>5 DEF Store!Renew, Store!Change
<1>5. ASSUME deleteAccount(t), accounts[a] # Absent PROVE Store!Delete(a)
  <2>1. saving = Absent /\ saving' = a
    BY <1>5, SavingNow, SavingNext DEF deleteAccount, Enter, Keeps
  <2>2. inUse' = [inUse EXCEPT ![a] = Absent]
    BY <1>5, UseChanges, Numbers DEF deleteAccount
  <2>3. inUse[a] # Absent
    BY <1>1, <1>5, Numbers DEF inUse
  <2>4. saved' = saved /\ issued' = issued
    BY <1>5 DEF deleteAccount, saved
  <2>5. QED
    BY <2>1, <2>2, <2>3, <2>4 DEF Store!Delete, Store!Change
<1>6. QED
  BY <1>1, <1>2, <1>3, <1>4, <1>5 DEF EntryStep, Store!Next

\* The steps of the thread that has the mutex.
LEMMA HolderImplements ==
  ASSUME IInv, IInv', NEW t \in Threads, HolderStep(t)
  PROVE  [Store!Next]_Store!vars
<1> DEFINE a == arg[t]
<1> USE DEF IInv, TypeOK, Points, Holding, Writing
<1>1. a \in Accounts /\ a # Absent /\ owner = t
  BY TokenAssumption DEF HolderStep, RequestFails, RequestSucceeds, SaveOpen, SaveWrite,
     SaveFails, deleteToken, Leave, Continue, HoldersOwn
<1>2. ASSUME RequestFails(t) PROVE UNCHANGED Store!vars
  <2>1. saving = Absent /\ saving' = Absent
    BY <1>1, <1>2, SavingNow, SavingNext DEF RequestFails, Leave
  <2>2. QED
    BY <1>2, <2>1 DEF RequestFails, Store!vars, inUse, saved
<1>3. ASSUME RequestSucceeds(t) PROVE Store!Renew(a)
  <2>1. saving = Absent /\ saving' = a
    BY <1>1, <1>3, SavingNow, SavingNext DEF RequestSucceeds, Continue
  <2>2. NewToken \in Tokens /\ NewToken.access = issued + 1
    BY TokenAssumption DEF NewToken, Tokens
  <2>3. inUse' = [inUse EXCEPT ![a] = issued + 1]
    <3>1. accounts' = [accounts EXCEPT ![a] = NewToken]
      BY <1>3 DEF RequestSucceeds
    <3>2. Number(NewToken) = issued + 1
      BY <2>2, Numbers
    <3>3. QED
      BY <1>1, <3>1, <3>2, UseChanges
  <2>4. inUse[a] # Absent
    BY <1>1, <1>3, Numbers DEF inUse, RequestSucceeds
  <2>5. saved' = saved /\ issued' = issued + 1
    BY <1>3 DEF RequestSucceeds, saved
  <2>6. QED
    BY <2>1, <2>3, <2>4, <2>5 DEF Store!Renew, Store!Change
<1>4. ASSUME SaveOpen(t) PROVE Store!Lose
  <2>1. saving = a /\ saving' = a
    BY <1>4, SavingNow, SavingNext DEF SaveOpen, Continue
  <2>2. saved' = [saved EXCEPT ![a] = Absent]
    BY <1>1, <1>4, SavedChanges, Numbers DEF SaveOpen
  <2>3. QED
    BY <1>1, <1>4, <2>1, <2>2 DEF SaveOpen, inUse, Store!Lose
<1>5. ASSUME SaveWrite(t) \/ deleteToken(t) PROVE Store!Save
  <2>1. saving = a /\ saving' = Absent
    BY <1>5, SavingNow, SavingNext DEF SaveWrite, deleteToken, Leave
  <2>2. disk' = [disk EXCEPT ![a] = accounts[a]]
    BY <1>5 DEF SaveWrite, deleteToken, Leave, UnlinkedIsGone
  <2>3. saved' = [saved EXCEPT ![a] = inUse[a]]
    BY <1>1, <2>2, SavedChanges DEF inUse
  <2>4. QED
    BY <1>1, <1>5, <2>1, <2>3 DEF SaveWrite, deleteToken, inUse, Store!Save
<1>6. ASSUME SaveFails(t) PROVE Store!GiveUp
  <2>1. saving = a /\ saving' = Absent
    BY <1>6, SavingNow, SavingNext DEF SaveFails, Leave
  <2>2. QED
    BY <1>1, <1>6, <2>1 DEF SaveFails, inUse, saved, Store!GiveUp
<1>7. QED
  BY <1>1, <1>2, <1>3, <1>4, <1>5, <1>6 DEF HolderStep, Store!Next

LEMMA StepImplements ==
  ASSUME IInv, IInv', [Next]_vars
  PROVE  [Store!Next]_Store!vars
<1>1. ASSUME NEW t \in Threads, NEW op \in Operations, NEW a \in Accounts, Call(t, op, a)
      PROVE  UNCHANGED Store!vars
  <2>1. saving' = saving
    <3>1. \A u \in Threads : /\ pc'[u] \in Writing <=> pc[u] \in Writing
                             /\ pc[u] \in Writing => arg'[u] = arg[u]
      BY <1>1 DEF Call, IInv, TypeOK, Operations, Writing
    <3>2. CASE \E u \in Threads : pc[u] \in Writing
      <4>1. PICK u \in Threads : pc[u] \in Writing
        BY <3>2
      <4>2. saving = arg[u] /\ saving' = arg'[u]
        BY <3>1, <4>1, SavingNow, SavingNext
      <4>3. QED
        BY <3>1, <4>1, <4>2
    <3>3. CASE \A u \in Threads : pc[u] \notin Writing
      BY <3>1, <3>3 DEF saving
    <3>4. QED
      BY <3>2, <3>3
  <2>2. QED
    BY <1>1, <2>1 DEF Call, Store!vars, inUse, saved
<1>2. CASE Crash
  <2>1. saving' = Absent
    BY <1>2, TokenAssumption DEF Crash, saving, Writing
  <2>2. inUse' = [a \in Accounts |-> Absent] /\ saved' = saved
    BY <1>2, Numbers DEF Crash, inUse, saved
  <2>3. QED
    BY <1>2, <2>1, <2>2 DEF Crash, Store!Restart, Store!Next
<1>3. CASE Tick
  <2>1. \A a \in Accounts : Number(accounts[a]) = Number(Older(accounts[a]))
    BY OlderToken, Numbers DEF IInv, TypeOK
  <2>2. \A a \in Accounts : Number(disk[a]) = Number(Older(disk[a]))
    BY OlderToken, Numbers DEF IInv, TypeOK
  <2>3. inUse' = inUse /\ saved' = saved
    BY <1>3, <2>1, <2>2 DEF Tick, inUse, saved
  <2>4. QED
    BY <1>3, <2>3 DEF Tick, Store!vars, saving
<1>4. CASE UNCHANGED vars
  BY <1>4 DEF vars, Store!vars, inUse, saved, saving
<1>5. QED
  BY <1>1, <1>2, <1>3, <1>4, EntryImplements, HolderImplements DEF Next

\* For all that threads, requests, failures of the disk and crashes may do, the
\* manager is a store of one token per account that changes one account at a time, and
\* saves after each change exactly what is in use.
THEOREM ManagerImplementsStore == Spec => ImplementsStore
<1>1. IInv /\ IInv' /\ [Next]_vars => [Store!Next]_Store!vars
  BY StepImplements
<1>2. QED
  BY <1>1, InitStore, Inductive, PTL DEF Spec, ImplementsStore, Store!Spec

=============================================================================
