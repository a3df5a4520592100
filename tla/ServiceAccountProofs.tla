------------------------ MODULE ServiceAccountProofs ------------------------
\* Proofs about ServiceAccount, for any number of threads and any times.
EXTENDS ServiceAccount, TLAPS

Points == {"idle", "request", "answer", "assign", "copy"}

TypeOK ==
  /\ current_token \in Int \cup {NoToken} /\ token_expiry \in Int
  /\ pc \in [Threads -> Points]
  /\ got \in [Threads -> Int \cup {NoToken}]
  /\ now \in Nat
  /\ fetched \subseteq Threads
  /\ given \in [Threads -> {<<>>} \cup {<<x>> : x \in Int \cup {NoToken}}]

\* A time the object holds is at most one life away.
ExpiryBound == token_expiry <= now + Lifetime

\* An answer under way is young, and so is the token that is about to be assigned;
\* the time that goes with it was set in this tick.
AnswersAreYoung ==
  \A t \in Threads : pc[t] \in {"answer", "assign"} => got[t] \in Int /\ now <= got[t] + Timeout

AssignedSoon == \A t \in Threads : pc[t] = "assign" => token_expiry = now + Lifetime

\* With no thread between the two assignments, the time fits the token.
TimeFitsToken ==
  (\A t \in Threads : pc[t] # "assign") =>
    \/ token_expiry = -Lifetime
    \/ current_token \in Int /\ token_expiry <= current_token + Timeout + Lifetime

CopiesFresh == \A t \in Threads : pc[t] = "copy" => now + Buffer < token_expiry

FetchedFresh ==
  \A t \in fetched : \/ pc[t] \in {"answer", "assign"}
                     \/ pc[t] \in {"idle", "copy"} /\ now + Buffer < token_expiry

GivenLives ==
  \A t \in Threads : given[t] # <<>> =>
    given[t][1] \in Int /\ given[t][1] + Lifetime - now > Buffer - Timeout

IInv ==
  /\ TypeOK /\ ExpiryBound /\ AnswersAreYoung /\ AssignedSoon
  /\ TimeFitsToken /\ CopiesFresh /\ FetchedFresh /\ GivenLives

\* The object starts without a token and with a time that has passed.
LEMMA InitIInv == Init => IInv
BY ServiceAccountAssumption
   DEF Init, IInv, TypeOK, ExpiryBound, AnswersAreYoung, AssignedSoon, TimeFitsToken, CopiesFresh,
       FetchedFresh, GivenLives, Points

LEMMA StepIInv == IInv /\ [Next]_vars => IInv'
<1> USE ServiceAccountAssumption
<1> SUFFICES ASSUME IInv, [Next]_vars PROVE IInv'
  OBVIOUS
<1> USE DEF IInv
<1>1. ASSUME NEW t \in Threads, getAccessToken(t) PROVE IInv'
  BY <1>1 DEF getAccessToken, Goto, isTokenExpired, TypeOK, ExpiryBound, AnswersAreYoung,
     AssignedSoon, TimeFitsToken, CopiesFresh, FetchedFresh, GivenLives, Points
<1>2. ASSUME NEW t \in Threads, Issue(t) PROVE IInv'
  BY <1>2 DEF Issue, Goto, TypeOK, ExpiryBound, AnswersAreYoung,
     AssignedSoon, TimeFitsToken, CopiesFresh, FetchedFresh, GivenLives, Points
<1>3. ASSUME NEW t \in Threads, GenerationFails(t) PROVE IInv'
  BY <1>3 DEF GenerationFails, Goto, TypeOK, ExpiryBound, AnswersAreYoung,
     AssignedSoon, TimeFitsToken, CopiesFresh, FetchedFresh, GivenLives, Points
<1>4. ASSUME NEW t \in Threads, generateAccessToken(t) PROVE IInv'
  BY <1>4 DEF generateAccessToken, Goto, TypeOK, ExpiryBound, AnswersAreYoung,
     AssignedSoon, TimeFitsToken, CopiesFresh, FetchedFresh, GivenLives, Points
<1>5. ASSUME NEW t \in Threads, Assign(t) PROVE IInv'
  BY <1>5 DEF Assign, Goto, TypeOK, ExpiryBound, AnswersAreYoung,
     AssignedSoon, TimeFitsToken, CopiesFresh, FetchedFresh, GivenLives, Points
<1>6. ASSUME NEW t \in Threads, Copy(t) PROVE IInv'
  BY <1>6 DEF Copy, Assigning, Goto, TypeOK, ExpiryBound, AnswersAreYoung,
     AssignedSoon, TimeFitsToken, CopiesFresh, FetchedFresh, GivenLives, Points
<1>7. CASE Tick
  <2>1. /\ now' = now + 1 /\ now' \in Nat /\ UNCHANGED <<current_token, token_expiry, pc, got>>
        /\ \A t \in Threads : \/ pc[t] \in {"idle", "request"}
                              \/ pc[t] = "answer" /\ now < got[t] + Timeout
    BY <1>7 DEF Tick, TypeOK
  <2>2. TypeOK'
    <3>1. fetched' \subseteq Threads  BY <1>7 DEF Tick, TypeOK
    <3>2. given' = [t \in Threads |-> <<>>]  BY <1>7 DEF Tick
    <3> QED BY <2>1, <3>1, <3>2 DEF TypeOK
  <2>3. ExpiryBound'  BY <2>1 DEF ExpiryBound, TypeOK
  <2>4. AnswersAreYoung'
    <3> SUFFICES ASSUME NEW t \in Threads, pc'[t] \in {"answer", "assign"}
                 PROVE  got'[t] \in Int /\ now' <= got'[t] + Timeout
      BY DEF AnswersAreYoung
    <3>1. pc[t] = "answer" /\ now < got[t] + Timeout  BY <2>1
    <3>2. got[t] \in Int  BY <3>1 DEF AnswersAreYoung
    <3> QED BY <2>1, <3>1, <3>2 DEF TypeOK
  <2>5. AssignedSoon' /\ CopiesFresh'  BY <2>1 DEF AssignedSoon, CopiesFresh
  <2>6. TimeFitsToken'  BY <2>1 DEF TimeFitsToken
  <2>7. FetchedFresh'
    <3>1. CASE now' + Buffer >= token_expiry  BY <1>7, <3>1 DEF Tick, FetchedFresh
    <3>2. CASE ~(now' + Buffer >= token_expiry)
      <4>1. now' + Buffer < token_expiry'  BY <2>1, <3>2 DEF TypeOK
      <4>2. fetched' = fetched  BY <1>7, <3>2 DEF Tick
      <4>3. \A t \in fetched : pc[t] \in {"answer", "assign", "idle", "copy"}
        BY DEF FetchedFresh
      <4> QED BY <2>1, <4>1, <4>2, <4>3 DEF FetchedFresh
    <3> QED BY <3>1, <3>2
  <2>8. GivenLives'  BY <1>7 DEF Tick, GivenLives
  <2> QED BY <2>2, <2>3, <2>4, <2>5, <2>6, <2>7, <2>8
<1>8. CASE UNCHANGED vars
  BY <1>8 DEF vars, TypeOK, ExpiryBound, AnswersAreYoung,
     AssignedSoon, TimeFitsToken, CopiesFresh, FetchedFresh, GivenLives, Points
<1> QED BY <1>1, <1>2, <1>3, <1>4, <1>5, <1>6, <1>7, <1>8 DEF Next

\* Every reachable state satisfies the invariant.
LEMMA Invariance == Spec => []IInv
BY InitIInv, StepIInv, PTL DEF Spec

\* A call returns a token that the provider still takes, for any number of threads,
\* unless it copies it between the two assignments of another one.
THEOREM ReturnedTokensLive == Spec => []GivenTokenLives
<1>1. IInv => GivenTokenLives
  BY ServiceAccountAssumption DEF IInv, GivenLives, GivenTokenLives
<1> QED BY <1>1, Invariance, PTL

\* No thread fetches a second token while the object takes its last one to be good.
THEOREM NoSecondFetch == Spec => FetchedOnce
<1>1. ASSUME IInv, [Next]_vars
      PROVE  [\A t \in Threads : pc[t] = "request" /\ pc'[t] = "answer" => t \notin fetched]_vars
  BY <1>1 DEF IInv, FetchedFresh
<1> QED BY <1>1, Invariance, PTL DEF Spec, FetchedOnce

=============================================================================
