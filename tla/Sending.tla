------------------------------- MODULE Sending -------------------------------
(***************************************************************************)
(* Sending an email: UnifiedMailer tries one API provider and falls back   *)
(* to SMTP; Mailer::send() and the queue's callback use SMTP directly; and *)
(* the SMTP client writes the email to a temporary file that it hands to   *)
(* curl.  Every email has a call of its own, and calls run in parallel: in *)
(* threads of one process, or in processes that share /tmp.                *)
(*                                                                         *)
(* A temporary file is named after the second in which it is created.      *)
(* content[t] is the set of emails whose text is in the file of second t;  *)
(* a text that was begun in a file truncated since counts as not in it or, *)
(* if it is completed later, as being in it; one that is not there whole   *)
(* counts as not in it.                                                    *)
(*                                                                         *)
(* A process can be killed at any point of a call.  The counters are those *)
(* of all mailers together, and keep what a killed one had counted.        *)
(***************************************************************************)
EXTENDS Providers, FiniteSets, SequencesExt

CONSTANTS
  Emails,      \* one member for each call
  Addresses,
  Mail,        \* the Email of each call
  Keys,        \* names of API configurations, in the order of the std::map
  Settings,    \* the fields that a configuration may give to each client
  Faults,      \* what may go wrong with a call: "short" writes, "kill"
  MaxTime      \* bound on the clock

ASSUME SendingAssumption ==
  /\ IsFiniteSet(Emails)
  /\ Mail \in [Emails -> Mails(Addresses)]
  /\ \A e \in Emails : Mail[e].to # <<>>
  /\ Keys \in Seq(Supported) /\ IsInjective(Keys)
  /\ Settings \in [Range(Keys) -> SUBSET ((SUBSET Fields) \ {{}})]
  /\ Faults \subseteq {"short", "kill"}
  /\ MaxTime \in Nat

VARIABLES
  smtpConfig,  \* smtp_config_ is set
  fallback,    \* enable_fallback
  clients,     \* the configured fields of each member of api_clients_
  now,         \* time(nullptr)
  files,       \* the seconds whose temporary file exists
  content,     \* what is in it
  pc,          \* where each call is
  caller,      \* through which function the call was made
  via,         \* the transport the call has got to
  temp,        \* the second in the name of its temporary file
  linked,      \* the file it has open still has that name
  second,      \* the second in which it opened that file (history)
  cut,         \* the calls that did not get their text into it whole (history)
  exit,        \* the exit status of curl
  outcome,     \* the result of the call
  copies,      \* the copies of each email that transports have taken (history)
  stats        \* stats_

configVars == <<smtpConfig, fallback, clients>>
fileVars   == <<files, content, temp, linked, second, cut>>
callVars   == <<pc, caller, via, outcome>>
vars == <<configVars, now, fileVars, callVars, exit, copies, stats>>

Unified == {"SMTP", "API", "AUTO"}
Callers == {"mailer", "queue"} \cup Unified
Counters == {"smtp_success", "smtp_failure", "api_success", "api_failure", "fallbacks"}

(***************************************************************************)
(* Helpers                                                                 *)
(***************************************************************************)
\* The Email that the SMTP client is given.
Given(e) == IF caller[e] = "queue" THEN QueueCopy(Mail[e]) ELSE Mail[e]

isProviderAvailable(p) == clients[p] # {} /\ Needs(p) \subseteq clients[p]

\* The places of the available providers in the map.
getAvailableAPIProviders == {i \in DOMAIN Keys : isProviderAvailable(Keys[i])}

Take(e, transport, body, text) ==
  copies' = [copies EXCEPT ![e] = Append(@,
    [via |-> transport, rcpt |-> body.rcpt, parts |-> body.parts, text |-> text])]

\* updateStats(), for the calls that go through the UnifiedMailer.
updateStats(how, counters) ==
  stats' = IF how \in Unified
           THEN [c \in Counters |-> stats[c] + (IF c \in counters THEN 1 ELSE 0)]
           ELSE stats

Via(e, transport) == via' = [via EXCEPT ![e] = transport]
Goto(e, to) == pc' = [pc EXCEPT ![e] = to] /\ UNCHANGED outcome
Return(e, result) == pc' = [pc EXCEPT ![e] = "done"] /\ outcome' = [outcome EXCEPT ![e] = result]

(***************************************************************************)
(* Mailer and UnifiedMailer                                                *)
(***************************************************************************)
Call(e, how) ==
  /\ pc[e] = "idle" /\ caller' = [caller EXCEPT ![e] = how]
  /\ UNCHANGED <<configVars, now, fileVars, exit, copies>>

\* Mailer::send() of an email that passes its tests, and sendEmailDirect().
Send(e) ==
  /\ \E how \in {"mailer", "queue"} : Call(e, how)
  /\ Via(e, "smtp") /\ Goto(e, "smtp") /\ UNCHANGED stats

\* Without a configuration the result is a failure that no counter shows.
sendViaSMTP(e) ==
  /\ Via(e, "smtp")
  /\ IF smtpConfig THEN Goto(e, "smtp") ELSE Return(e, "failed")

SendSMTP(e) == Call(e, "SMTP") /\ sendViaSMTP(e) /\ UNCHANGED stats

\* What sendAuto() and sendViaAPI() do with a failure, counted or not.
ApiFailed_AlwaysFallsBack(e, how, counted) ==
  sendViaSMTP(e) /\ updateStats(how, counted \cup {"fallbacks"})
ApiFailed(e, how, counted) ==
  IF how = "AUTO" /\ fallback
  THEN sendViaSMTP(e) /\ updateStats(how, counted \cup {"fallbacks"})
  ELSE Return(e, "failed") /\ updateStats(how, counted) /\ UNCHANGED via

Request(e, how, p) == Call(e, how) /\ Via(e, p) /\ Goto(e, "http") /\ UNCHANGED stats

\* The first provider that is available, if there is one.
selectBestProvider(e, how) ==
  \E i \in getAvailableAPIProviders :
    (\A j \in getAvailableAPIProviders : i <= j) /\ Request(e, how, Keys[i])

NoProvider(e, how) ==
  getAvailableAPIProviders = {} /\ Call(e, how) /\ ApiFailed(e, how, {})

\* sendViaAPI() with a provider that the caller names: whatever its client lacks,
\* if there is one.
sendViaAPI(e, p) ==
  IF clients[p] # {} THEN Request(e, "API", p)
  ELSE Call(e, "API") /\ ApiFailed(e, "API", {})

\* sendEmail() of the client.  The provider may take an email whose answer is
\* lost, late or unreadable.
ApiReply_Uncaught(e, reply) ==
  /\ pc[e] = "http"
  /\ IF reply.taken THEN Take(e, via[e], Body(via[e], Mail[e]), {e}) ELSE UNCHANGED copies
  /\ IF Succeeds(via[e], reply)
     THEN Return(e, "ok") /\ updateStats(caller[e], {"api_success"}) /\ UNCHANGED via
     ELSE ApiFailed(e, caller[e], {"api_success"})
  /\ UNCHANGED <<configVars, now, fileVars, caller, exit>>
ApiReply(e, reply) ==
  /\ pc[e] = "http"
  /\ IF reply.taken THEN Take(e, via[e], Body(via[e], Mail[e]), {e}) ELSE UNCHANGED copies
  /\ IF Succeeds(via[e], reply)
     THEN Return(e, "ok") /\ updateStats(caller[e], {"api_success"}) /\ UNCHANGED via
     ELSE ApiFailed(e, caller[e], {"api_failure"})
  /\ UNCHANGED <<configVars, now, fileVars, caller, exit>>

\* The owner of the mailer changes a client while no request is under way:
\* api_clients_ has no lock.  A configuration is not tested when it is set.
Reconfigure(p, fields) ==
  /\ \A e \in Emails : pc[e] # "http"
  /\ clients' = [clients EXCEPT ![p] = fields]
  /\ UNCHANGED <<smtpConfig, fallback, now, fileVars, callVars, exit, copies, stats>>

setAPIConfig(p) == \E fields \in Settings[p] : Reconfigure(p, fields)
removeAPIConfig(p) == Reconfigure(p, {})

(***************************************************************************)
(* SMTPClient::send() and sendViaCurl()                                    *)
(***************************************************************************)
\* A failed result of the SMTP client reaches every caller.
SmtpFails(e) ==
  /\ Return(e, "failed") /\ updateStats(caller[e], {"smtp_failure"})
  /\ UNCHANGED <<configVars, now, caller, via, exit, copies>>

\* The sender's domain has a configuration or has none.
NoDomain(e) == pc[e] = "smtp" /\ SmtpFails(e) /\ UNCHANGED fileVars

SmtpGo(e, from, to) ==
  pc[e] = from /\ Goto(e, to) /\ UNCHANGED <<configVars, now, caller, via, stats>>

FindDomain(e) == SmtpGo(e, "smtp", "open") /\ UNCHANGED <<fileVars, exit, copies>>

\* Opening creates the file, or truncates the one that has the name.
TempName_Fixed == 0
TempName == now

OpenTemp(e) ==
  /\ SmtpGo(e, "open", "write")
  /\ temp' = [temp EXCEPT ![e] = TempName]
  /\ files' = files \cup {TempName}
  /\ content' = [content EXCEPT ![TempName] = {}]
  /\ linked' = [linked EXCEPT ![e] = TRUE] /\ second' = [second EXCEPT ![e] = now]
  /\ UNCHANGED <<cut, exit, copies>>

OpenTempFails(e) == pc[e] = "open" /\ SmtpFails(e) /\ UNCHANGED fileVars

\* The text replaces, or is mixed with, what another call wrote meanwhile.
WriteTemp(e) ==
  LET t == temp[e] IN
  /\ SmtpGo(e, "write", "curl")
  /\ IF linked[e]
     THEN \E mixed \in {{e}, content[t] \cup {e}} : content' = [content EXCEPT ![t] = mixed]
     ELSE UNCHANGED content
  /\ UNCHANGED <<files, temp, linked, second, cut, exit, copies>>

\* What there is of a text that is not written whole spoils what was there, or
\* it is nothing.
CutText(e) ==
  /\ content' = content \/ (linked[e] /\ content' = [content EXCEPT ![temp[e]] = {}])
  /\ UNCHANGED <<files, temp, linked, second, copies>>

\* The state of the stream is not looked at, and the call goes on.
WriteTempFails(e) ==
  /\ "short" \in Faults /\ SmtpGo(e, "write", "curl") /\ CutText(e)
  /\ cut' = cut \cup {e}
  /\ UNCHANGED exit

\* curl sends the file of that name, if there is one.  The server takes the
\* email or not, and a server that took it may not get to say so.
Curl_IgnoresMissing(e) ==
  /\ SmtpGo(e, "curl", "unlink")
  /\ exit' = [exit EXCEPT ![e] = 0] /\ UNCHANGED copies
  /\ UNCHANGED fileVars
Curl(e) ==
  /\ SmtpGo(e, "curl", "unlink")
  /\ \E taken, zero \in BOOLEAN :
       /\ zero => taken
       /\ taken => temp[e] \in files
       /\ exit' = [exit EXCEPT ![e] = IF zero THEN 0 ELSE 1]
       /\ IF taken THEN Take(e, "smtp", SmtpBody(Given(e)), content[temp[e]])
          ELSE UNCHANGED copies
  /\ UNCHANGED fileVars

Unlink(t) ==
  /\ files' = files \ {t}
  /\ linked' = [f \in Emails |-> linked[f] /\ temp[f] # t]
  /\ UNCHANGED <<content, temp, second, cut>>

UnlinkTemp_OnSuccess(e) ==
  /\ pc[e] = "unlink"
  /\ IF exit[e] = 0 THEN Unlink(temp[e]) ELSE UNCHANGED fileVars
  /\ Return(e, IF exit[e] = 0 THEN "ok" ELSE "failed")
  /\ updateStats(caller[e], IF exit[e] = 0 THEN {"smtp_success"} ELSE {"smtp_failure"})
  /\ UNCHANGED <<configVars, now, caller, via, exit, copies>>
UnlinkTemp(e) ==
  /\ pc[e] = "unlink"
  /\ Unlink(temp[e])
  /\ Return(e, IF exit[e] = 0 THEN "ok" ELSE "failed")
  /\ updateStats(caller[e], IF exit[e] = 0 THEN {"smtp_success"} ELSE {"smtp_failure"})
  /\ UNCHANGED <<configVars, now, caller, via, exit, copies>>

(***************************************************************************)
(* The process is killed                                                   *)
(***************************************************************************)
\* No result is returned and nothing is counted or removed.  Where a call leaves
\* nothing behind, one that is killed is one that takes no further step; curl is a
\* process of its own, which goes on without the one that waits for it.
Dies(e, from) ==
  /\ "kill" \in Faults /\ pc[e] = from /\ Goto(e, "killed")
  /\ UNCHANGED <<configVars, now, caller, via, exit, stats>>

\* The provider has taken the request that was on its way.
KillInRequest(e) ==
  Dies(e, "http") /\ Take(e, via[e], Body(via[e], Mail[e]), {e}) /\ UNCHANGED fileVars

KillInWrite(e) == Dies(e, "write") /\ CutText(e) /\ UNCHANGED cut

KillInCurl(e) ==
  /\ Dies(e, "curl") /\ UNCHANGED fileVars
  /\ \/ UNCHANGED copies
     \/ temp[e] \in files /\ Take(e, "smtp", SmtpBody(Given(e)), content[temp[e]])

NextSecond ==
  /\ now < MaxTime /\ now' = now + 1
  /\ UNCHANGED <<configVars, fileVars, callVars, exit, copies, stats>>

(***************************************************************************)
(* The specification                                                       *)
(***************************************************************************)
Init ==
  /\ smtpConfig \in BOOLEAN /\ fallback \in BOOLEAN
  /\ clients = [p \in Supported |-> IF p \in Range(Keys) THEN Needs(p) ELSE {}]
  /\ now = 0
  /\ files = {} /\ content = [t \in 0..MaxTime |-> {}]
  /\ pc = [e \in Emails |-> "idle"]
  /\ caller = [e \in Emails |-> "mailer"] /\ via = [e \in Emails |-> "none"]
  /\ temp = [e \in Emails |-> 0] /\ second = [e \in Emails |-> MaxTime + 1]
  /\ linked = [e \in Emails |-> FALSE] /\ cut = {}
  /\ exit = [e \in Emails |-> 1]
  /\ outcome = [e \in Emails |-> "none"]
  /\ copies = [e \in Emails |-> <<>>]
  /\ stats = [c \in Counters |-> 0]

\* A call through the UnifiedMailer before it reaches the SMTP client.
UnifiedStep(e) ==
  \/ SendSMTP(e)
  \/ \E how \in {"API", "AUTO"} : selectBestProvider(e, how) \/ NoProvider(e, how)
  \/ \E p \in Range(Keys) : sendViaAPI(e, p)
  \/ \E reply \in Replies : ApiReply(e, reply)

SmtpStep(e) ==
  \/ NoDomain(e) \/ FindDomain(e)
  \/ OpenTemp(e) \/ OpenTempFails(e) \/ WriteTemp(e) \/ WriteTempFails(e)
  \/ Curl(e) \/ UnlinkTemp(e)

KillStep(e) == KillInRequest(e) \/ KillInWrite(e) \/ KillInCurl(e)

Next ==
  \/ \E e \in Emails : Send(e) \/ UnifiedStep(e) \/ SmtpStep(e) \/ KillStep(e)
  \/ \E p \in Range(Keys) : setAPIConfig(p) \/ removeAPIConfig(p)
  \/ NextSecond

Spec == Init /\ [][Next]_vars

(***************************************************************************)
(* Properties                                                              *)
(***************************************************************************)
\* A call hands over at most two copies of its email, and two only if it is an
\* AUTO call whose API provider took one and that then fell back to SMTP.
OneCopyPerTransport ==
  \A e \in Emails :
    /\ Len(copies[e]) <= 2
    /\ Len(copies[e]) = 2 =>
         /\ caller[e] = "AUTO" /\ fallback
         /\ copies[e][1].via # "smtp" /\ copies[e][2].via = "smtp"

\* A call reports a success only if the transport it names has taken a copy,
\* also when another call has removed its temporary file or the API answer is
\* of an unexpected shape.
SuccessIsTaken ==
  \A e \in Emails :
    outcome[e] = "ok" => copies[e] # <<>> /\ Last(copies[e]).via = via[e]

\* No copy goes to anyone but the email's recipients, and all of them get one
\* of each copy that an API other than Postmark's and SparkPost's has taken.
\* The other three transports reach at least the first recipient.
CopiesReachRecipients ==
  \A e \in Emails : \A i \in DOMAIN copies[e] :
    LET copy == copies[e][i] IN
    /\ copy.rcpt \subseteq getAllRecipients(Mail[e])
    /\ Mail[e].to[1] \in copy.rcpt
    /\ copy.via \notin {"smtp", "postmark", "sparkpost"}
         => copy.rcpt = getAllRecipients(Mail[e])

\* A copy has the text of another email only if the two calls created their
\* temporary files within the same second, and lacks its own only in that case or
\* if it could not be written whole; a file that a killed call left behind gets
\* into no other email.
TextWithinSecond ==
  \A e \in Emails : \A i \in DOMAIN copies[e] :
    LET text == copies[e][i].text IN
    /\ \A f \in text : f = e \/ second[f] = second[e]
    /\ e \notin text => e \in cut \/ \E f \in Emails \ {e} : second[f] = second[e]

\* Every temporary file is still that of a call that has not returned: whatever
\* the outcome, and however calls share and remove each other's files, only a call
\* that is killed leaves one behind.
NoTempFileLeft ==
  \A t \in files : \E e \in Emails :
    /\ linked[e] /\ temp[e] = t
    /\ pc[e] \in {"write", "curl", "unlink", "killed"}

\* The statistics agree with the results of the UnifiedMailer: each success is
\* counted once, under the transport that is named in the result, each call
\* that fell back is counted as one, and no failure is counted more than once.
StatisticsAgree ==
  LET Ended(S, result) == {e \in Emails : caller[e] \in Unified /\ via[e] \in S /\ outcome[e] = result}
      FellBack == {e \in Emails : caller[e] = "AUTO" /\ via[e] = "smtp" /\ pc[e] # "idle"}
  IN
  /\ stats["smtp_success"] = Cardinality(Ended({"smtp"}, "ok"))
  /\ stats["api_success"] = Cardinality(Ended(Supported, "ok"))
  /\ stats["smtp_failure"] <= Cardinality(Ended({"smtp"}, "failed"))
  /\ fallback => stats["fallbacks"] = Cardinality(FellBack)
  /\ stats["api_failure"] <= Cardinality(FellBack \cup Ended(Supported, "failed"))

\* The log and the result of the SMTP client: "Email sent successfully via
\* SMTP" is said of an email whose text the server has been given.
SuccessSendsText ==
  \A e \in Emails :
    outcome[e] = "ok" /\ via[e] = "smtp" => Last(copies[e]).text = {e}

=============================================================================
