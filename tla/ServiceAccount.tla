--------------------------- MODULE ServiceAccount ---------------------------
(***************************************************************************)
(* The access token of a Google service account.  Threads share one object, *)
(* which keeps the token and the time at which it takes it to expire, and   *)
(* has no lock.  A thread that finds the token about to expire signs a      *)
(* request, sends it, and stores what it gets: first the time, then the     *)
(* token.                                                                   *)
(*                                                                         *)
(* Time passes in ticks while the provider answers or the threads are       *)
(* elsewhere; the steps in between take none, but come in any order.  A     *)
(* token is the time at which the provider issued it.                       *)
(***************************************************************************)
EXTENDS Integers, FiniteSets

CONSTANTS
  Threads,
  NoToken,   \* the empty string
  Lifetime,  \* the life the code assumes, and the provider grants
  Buffer,    \* the last part of it in which a token counts as expired
  Timeout,   \* the longest time that the provider's answer takes
  MaxTime    \* bound on the clock

ASSUME ServiceAccountAssumption ==
  /\ Lifetime \in Nat /\ Buffer \in Nat /\ Timeout \in Nat /\ MaxTime \in Nat
  /\ Timeout < Buffer /\ Buffer < Lifetime
  /\ NoToken \notin Int

VARIABLES
  current_token,
  token_expiry,
  pc,       \* where each thread is
  got,      \* the token in the answer to each thread's request
  now,
  fetched,  \* the threads that fetched a token since the last one expired (history)
  given     \* the token each thread was given in this tick, unless another thread
            \* was between the two assignments when it was copied (history)

vars == <<current_token, token_expiry, pc, got, now, fetched, given>>

Init ==
  /\ current_token = NoToken /\ token_expiry = -Lifetime
  /\ pc = [t \in Threads |-> "idle"]
  /\ got = [t \in Threads |-> NoToken] /\ given = [t \in Threads |-> <<>>]
  /\ now = 0 /\ fetched = {}

isTokenExpired_NoBuffer == now >= token_expiry
isTokenExpired == now + Buffer >= token_expiry

Goto(t, from, to) == pc[t] = from /\ pc' = [pc EXCEPT ![t] = to]

getAccessToken(t) ==
  /\ Goto(t, "idle", IF isTokenExpired THEN "request" ELSE "copy")
  /\ given' = [given EXCEPT ![t] = <<>>]
  /\ UNCHANGED <<current_token, token_expiry, got, now, fetched>>

\* The provider issues a token, and its answer is under way.
Issue(t) ==
  /\ Goto(t, "request", "answer")
  /\ got' = [got EXCEPT ![t] = now]
  /\ fetched' = fetched \cup {t}
  /\ UNCHANGED <<current_token, token_expiry, now, given>>

\* Signing fails, or the request, or the answer has no token: an exception
\* leaves the object as it was.
GenerationFails(t) ==
  /\ \E from \in {"request", "answer"} : Goto(t, from, "idle")
  /\ fetched' = fetched \ {t}
  /\ got' = [got EXCEPT ![t] = NoToken]
  /\ UNCHANGED <<current_token, token_expiry, now, given>>

generateAccessToken_Unset(t) ==
  /\ Goto(t, "answer", "assign")
  /\ UNCHANGED <<current_token, token_expiry, got, now, fetched, given>>
generateAccessToken(t) ==
  /\ Goto(t, "answer", "assign")
  /\ token_expiry' = now + Lifetime
  /\ UNCHANGED <<current_token, got, now, fetched, given>>

Assign(t) ==
  /\ Goto(t, "assign", "copy")
  /\ current_token' = got[t]
  /\ got' = [got EXCEPT ![t] = NoToken]
  /\ UNCHANGED <<token_expiry, now, fetched, given>>

Assigning == {t \in Threads : pc[t] = "assign"}

\* The call returns a copy.
Copy(t) ==
  /\ Goto(t, "copy", "idle")
  /\ given' = [given EXCEPT ![t] = IF Assigning = {} THEN <<current_token>> ELSE <<>>]
  /\ UNCHANGED <<current_token, token_expiry, got, now, fetched>>

\* Answers arrive in time, or the request fails.
Tick ==
  /\ now < MaxTime
  /\ \A t \in Threads : \/ pc[t] \in {"idle", "request"}
                        \/ pc[t] = "answer" /\ now < got[t] + Timeout
  /\ now' = now + 1
  /\ fetched' = IF now' + Buffer >= token_expiry THEN {} ELSE fetched
  /\ given' = [t \in Threads |-> <<>>]
  /\ UNCHANGED <<current_token, token_expiry, pc, got>>

Next ==
  \/ \E t \in Threads :
       \/ getAccessToken(t) \/ Issue(t) \/ GenerationFails(t) \/ generateAccessToken(t)
       \/ Assign(t) \/ Copy(t)
  \/ Tick

Spec == Init /\ [][Next]_vars

(***************************************************************************)
(* Properties                                                              *)
(***************************************************************************)
\* However many threads call at once, and whatever requests fail or come back
\* late, a call returns a token that the provider takes for the time of the
\* buffer, less the time an answer takes; the one exception is a call that copies
\* the token between the two assignments of another thread.
GivenTokenLives ==
  \A t \in Threads : given[t] # <<>> =>
    given[t][1] # NoToken /\ given[t][1] + Lifetime - now > Buffer - Timeout

\* A token that was fetched is used: no thread fetches a second one before the
\* object takes the last one to expire, unless its first request failed.
FetchedOnce ==
  [][\A t \in Threads : pc[t] = "request" /\ pc'[t] = "answer" => t \notin fetched]_vars

=============================================================================
