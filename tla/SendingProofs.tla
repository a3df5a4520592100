---------------------------- MODULE SendingProofs ----------------------------
(***************************************************************************)
(* Proofs about Sending, for any emails, recipients, providers and times:  *)
(* what transports have taken when a call ends, whom it reaches, whose     *)
(* text it is, which temporary files there are, and what was counted.      *)
(***************************************************************************)
EXTENDS Sending, SequenceTheorems, FiniteSetTheorems, TLAPS

Points == {"idle", "http", "smtp", "open", "write", "curl", "unlink", "done", "killed"}
Copies == [via : Supported \cup {"smtp"}, rcpt : SUBSET Addresses, parts : SUBSET PartNames,
           text : SUBSET Emails]

TypeOK ==
  /\ smtpConfig \in BOOLEAN /\ fallback \in BOOLEAN
  /\ now \in 0..MaxTime
  /\ files \subseteq 0..MaxTime /\ content \in [0..MaxTime -> SUBSET Emails]
  /\ pc \in [Emails -> Points] /\ caller \in [Emails -> Callers]
  /\ via \in [Emails -> {"none", "smtp"} \cup Supported]
  /\ temp \in [Emails -> 0..MaxTime] /\ linked \in [Emails -> BOOLEAN]
  /\ second \in [Emails -> 0..(MaxTime + 1)]
  /\ cut \subseteq Emails /\ exit \in [Emails -> {0, 1}]
  /\ outcome \in [Emails -> {"none", "ok", "failed"}]
  /\ copies \in [Emails -> Seq(Copies)]
  /\ stats \in [Counters -> Nat]

(***************************************************************************)
(* Requests and recipients                                                 *)
(***************************************************************************)
\* Whichever client builds it, a body names no one but the recipients, among them
\* the first To address, and all of them unless it is Postmark's or SparkPost's.
LEMMA BodyRecipients ==
  ASSUME NEW m \in Mails(Addresses), m.to # <<>>, NEW p \in Supported
  PROVE  /\ Body(p, m) \in Bodies(Addresses)
         /\ Body(p, m).rcpt \subseteq getAllRecipients(m)
         /\ m.to[1] \in Body(p, m).rcpt
         /\ p \notin {"postmark", "sparkpost"} => Body(p, m).rcpt = getAllRecipients(m)
<1>1. /\ Range(m.to) \subseteq Addresses /\ Range(m.cc) \subseteq Addresses
      /\ Range(m.bcc) \subseteq Addresses /\ m.to[1] \in Range(m.to)
  BY DEF Mails, Range
<1>2. AllParts(m) \subseteq PartNames /\ Written(m) \subseteq PartNames
  BY DEF AllParts, Written, PartNames
<1>3. QED
  BY <1>1, <1>2
     DEF Body, Bodies, Supported, getAllRecipients, SendGridBody, MailgunBody, AmazonSESBody,
         MailjetBody, FastmailBody, ZohoMailBody, ProtonMailBody, PostmarkBody, SparkPostBody

\* So does the text that curl is given, of an email or of the queue's copy of it.
LEMMA SmtpRecipients ==
  ASSUME TypeOK, NEW e \in Emails
  PROVE  /\ SmtpBody(Given(e)) \in Bodies(Addresses)
         /\ SmtpBody(Given(e)).rcpt \subseteq getAllRecipients(Mail[e])
         /\ Mail[e].to[1] \in SmtpBody(Given(e)).rcpt
<1>1. Mail[e] \in Mails(Addresses) /\ Mail[e].to # <<>>
  BY SendingAssumption
<1>2. /\ Given(e) \in Mails(Addresses) /\ Given(e).to = Mail[e].to
  <2>1. /\ QueueCopy(Mail[e]) \in Mails(Addresses)
        /\ QueueCopy(Mail[e]).to = Mail[e].to
    <3>1. PICK m \in Mails(Addresses) : m = Mail[e]
      BY <1>1
    <3>2. <<>> \in Seq(Addresses)
      OBVIOUS
    <3>3. QED
      BY <3>1, <3>2 DEF QueueCopy, Mails
  <2>2. QED
    BY <1>1, <2>1 DEF Given
<1>3. Range(Mail[e].to) \subseteq Addresses /\ Mail[e].to[1] \in Range(Mail[e].to)
  BY <1>1 DEF Mails, Range
<1>4. Written(Given(e)) \subseteq PartNames
  BY DEF Written, PartNames
<1>5. QED
  BY <1>2, <1>3, <1>4 DEF SmtpBody, Bodies, getAllRecipients

LEMMA CopySequences ==
  /\ <<>> \in Seq(Copies) /\ Len(<<>>) = 0 /\ Len(<<>>) <= 1
  /\ \A s \in Seq(Copies) : /\ Len(s) \in Nat
                            /\ Len(s) = 0 <=> s = <<>>
                            /\ Len(s) <= 1 <=> s = <<>> \/ Len(s) = 1
                            /\ Len(s) \in {1, 2} => s # <<>>
<1> SUFFICES ASSUME NEW s \in Seq(Copies)
             PROVE  /\ Len(s) \in Nat
                    /\ Len(s) = 0 <=> s = <<>>
                    /\ Len(s) <= 1 <=> s = <<>> \/ Len(s) = 1
                    /\ Len(s) \in {1, 2} => s # <<>>
  BY EmptySeq
<1>1. Len(s) \in Nat /\ (Len(s) = 0 <=> s = <<>>)
  OBVIOUS
<1>2. \A n \in Nat : (n <= 1 <=> n = 0 \/ n = 1) /\ (n \in {1, 2} => n # 0)
  OBVIOUS
<1>3. QED
  BY <1>1, <1>2

\* What a step adds to the copies of an email.
LEMMA TakenCopy ==
  ASSUME TypeOK, NEW e \in Emails, NEW transport \in Supported \cup {"smtp"},
         NEW body \in Bodies(Addresses), NEW text \in SUBSET Emails,
         Take(e, transport, body, text)
  PROVE  /\ copies' \in [Emails -> Seq(Copies)]
         /\ \A f \in Emails \ {e} : copies'[f] = copies[f]
         /\ Len(copies'[e]) = Len(copies[e]) + 1
         /\ \A i \in DOMAIN copies[e] : copies'[e][i] = copies[e][i]
         /\ copies'[e][Len(copies[e]) + 1]
              = [via |-> transport, rcpt |-> body.rcpt, parts |-> body.parts, text |-> text]
         /\ Last(copies'[e]).via = transport
<1> DEFINE copy == [via |-> transport, rcpt |-> body.rcpt, parts |-> body.parts, text |-> text]
<1>1. copies[e] \in Seq(Copies) /\ copy \in Copies
  BY DEF TypeOK, Bodies, Copies
<1>2. copies' = [copies EXCEPT ![e] = Append(copies[e], copy)]
  BY DEF Take
<1> HIDE DEF copy
<1>3. copies'[e] = Append(copies[e], copy)
  BY <1>2 DEF TypeOK
<1>4. QED
  BY <1>1, <1>2, <1>3 DEF TypeOK, Last, copy

(***************************************************************************)
(* Where a call is and what its email's copies are                         *)
(***************************************************************************)
ApiThenSmtp(e) == caller[e] = "AUTO" /\ fallback /\ copies[e][1].via # "smtp"

\* Before curl has run, and when the server has taken the text.
BeforeSmtp(e) == copies[e] = <<>> \/ (Len(copies[e]) = 1 /\ ApiThenSmtp(e))
AfterSmtp(e) ==
  /\ copies[e] # <<>> /\ Last(copies[e]).via = "smtp"
  /\ Len(copies[e]) = 1 \/ (Len(copies[e]) = 2 /\ ApiThenSmtp(e))

\* When the call has ended, whichever way it went, and when it was killed.
Over(e) == Len(copies[e]) <= 1 \/ AfterSmtp(e)
Ended(e) ==
  /\ Over(e)
  /\ outcome[e] = "ok" => copies[e] # <<>> /\ Last(copies[e]).via = via[e]

Stage(e) ==
  CASE pc[e] = "idle" -> via[e] = "none" /\ copies[e] = <<>>
    [] pc[e] = "http" -> via[e] \in Supported /\ copies[e] = <<>> /\ caller[e] \in {"API", "AUTO"}
    [] pc[e] = "unlink" -> /\ via[e] = "smtp"
                           /\ AfterSmtp(e) \/ (BeforeSmtp(e) /\ exit[e] # 0)
    [] pc[e] = "done" -> Ended(e)
    [] pc[e] = "killed" -> Over(e)
    [] OTHER -> via[e] = "smtp" /\ BeforeSmtp(e)

StageInv == \A e \in Emails : Stage(e) /\ (pc[e] # "done" => outcome[e] = "none")

\* A step of one call leaves the others where they are.
LEMMA StageFrame ==
  ASSUME TypeOK, StageInv, NEW e \in Emails, UNCHANGED fallback,
         \A f \in Emails \ {e} : /\ pc'[f] = pc[f] /\ via'[f] = via[f] /\ caller'[f] = caller[f]
                                 /\ copies'[f] = copies[f] /\ outcome'[f] = outcome[f]
                                 /\ exit'[f] = exit[f],
         Stage(e)', pc'[e] # "done" => outcome'[e] = "none"
  PROVE  StageInv'
BY DEF StageInv, Stage, BeforeSmtp, AfterSmtp, ApiThenSmtp, Ended, Over

\* The types of what a step that counts has changed.
LEMMA StatsType ==
  ASSUME TypeOK, NEW how, NEW counters, updateStats(how, counters)
  PROVE  stats' \in [Counters -> Nat]
BY DEF TypeOK, updateStats

LEMMA ProviderTypes ==
  /\ \A i \in DOMAIN Keys : Keys[i] \in Supported
  /\ "smtp" \notin Supported /\ "none" \notin Supported
BY SendingAssumption DEF Supported

\* The steps of a call before it reaches the SMTP client.
LEMMA SendStep ==
  ASSUME TypeOK, StageInv, NEW e \in Emails, Send(e)
  PROVE  TypeOK' /\ StageInv'
<1> USE DEF Send, Call, Via, Goto, configVars, fileVars
<1>1. TypeOK'
  BY DEF TypeOK, Callers, Unified, Points
<1>2. Stage(e)'
  BY DEF TypeOK, StageInv, Stage, BeforeSmtp
<1>3. outcome'[e] = "none"
  BY DEF StageInv
<1>4. QED
  BY <1>1, <1>2, <1>3, StageFrame DEF TypeOK

LEMMA sendViaSMTPStep ==
  ASSUME TypeOK, StageInv, NEW e \in Emails, sendViaSMTP(e), pc[e] # "done",
         BeforeSmtp(e)', copies'[e] \in Seq(Copies)
  PROVE  /\ pc' \in [Emails -> Points] /\ via' \in [Emails -> {"none", "smtp"} \cup Supported]
         /\ outcome' \in [Emails -> {"none", "ok", "failed"}]
         /\ \A f \in Emails \ {e} : pc'[f] = pc[f] /\ via'[f] = via[f] /\ outcome'[f] = outcome[f]
         /\ Stage(e)' /\ (pc'[e] # "done" => outcome'[e] = "none")
<1> USE DEF sendViaSMTP, Via, Goto, Return, TypeOK, Points
<1>1. via'[e] = "smtp" /\ (pc'[e] = "smtp" \/ (pc'[e] = "done" /\ outcome'[e] = "failed"))
  OBVIOUS
<1>2. copies'[e] = <<>> \/ Len(copies'[e]) = 1
  BY DEF BeforeSmtp
<1>3. Stage(e)'
  <2>1. CASE pc'[e] = "smtp"
    BY <1>1, <2>1 DEF Stage
  <2>2. CASE pc'[e] = "done" /\ outcome'[e] = "failed"
    <3>1. Ended(e)'
      BY <1>2, <2>2, CopySequences DEF Ended, Over
    <3>2. QED
      BY <2>2, <3>1 DEF Stage
  <2>3. QED
    BY <1>1, <2>1, <2>2
<1>4. pc'[e] # "done" => outcome'[e] = "none"
  BY DEF StageInv
<1>5. /\ pc' \in [Emails -> Points] /\ via' \in [Emails -> {"none", "smtp"} \cup Supported]
      /\ outcome' \in [Emails -> {"none", "ok", "failed"}]
      /\ \A f \in Emails \ {e} : pc'[f] = pc[f] /\ via'[f] = via[f] /\ outcome'[f] = outcome[f]
  OBVIOUS
<1>6. QED
  BY <1>3, <1>4, <1>5

LEMMA SendSMTPStep ==
  ASSUME TypeOK, StageInv, NEW e \in Emails, SendSMTP(e)
  PROVE  TypeOK' /\ StageInv'
<1>1. /\ sendViaSMTP(e) /\ pc[e] = "idle" /\ caller' = [caller EXCEPT ![e] = "SMTP"]
      /\ UNCHANGED <<configVars, now, fileVars, exit, copies, stats>>
  BY DEF SendSMTP, Call
<1>2. BeforeSmtp(e)' /\ copies'[e] \in Seq(Copies)
  BY <1>1 DEF TypeOK, StageInv, Stage, BeforeSmtp
<1>3. TypeOK'
  BY <1>1, <1>2, sendViaSMTPStep DEF TypeOK, Callers, Unified, configVars, fileVars
<1>4. QED
  BY <1>1, <1>2, <1>3, sendViaSMTPStep, StageFrame DEF TypeOK, configVars

LEMMA ApiFailedStep ==
  ASSUME TypeOK, StageInv, NEW e \in Emails, NEW how \in {"API", "AUTO"}, NEW counted,
         ApiFailed(e, how, counted), pc[e] # "done",
         how = caller'[e], UNCHANGED fallback, Len(copies'[e]) <= 1,
         copies'[e] # <<>> => copies'[e][1].via # "smtp", copies'[e] \in Seq(Copies)
  PROVE  /\ pc' \in [Emails -> Points] /\ via' \in [Emails -> {"none", "smtp"} \cup Supported]
         /\ outcome' \in [Emails -> {"none", "ok", "failed"}]
         /\ stats' \in [Counters -> Nat]
         /\ \A f \in Emails \ {e} : pc'[f] = pc[f] /\ via'[f] = via[f] /\ outcome'[f] = outcome[f]
         /\ Stage(e)' /\ (pc'[e] # "done" => outcome'[e] = "none")
<1>1. stats' \in [Counters -> Nat]
  BY StatsType DEF ApiFailed
<1>2. CASE how = "AUTO" /\ fallback
  <2>1. BeforeSmtp(e)'
    <3>1. copies'[e] = <<>> \/ Len(copies'[e]) = 1
      BY CopySequences
    <3>2. QED
      BY <1>2, <3>1 DEF BeforeSmtp, ApiThenSmtp
  <2>2. QED
    BY <1>1, <1>2, <2>1, sendViaSMTPStep DEF ApiFailed
<1>3. CASE ~(how = "AUTO" /\ fallback)
  <2>1. Return(e, "failed") /\ UNCHANGED via
    BY <1>3 DEF ApiFailed
  <2>2. Stage(e)'
    BY <2>1 DEF Return, TypeOK, Stage, Ended, Over
  <2>3. QED
    BY <1>1, <2>1, <2>2 DEF Return, TypeOK, Points
<1>4. QED
  BY <1>2, <1>3

LEMMA RequestStep ==
  ASSUME TypeOK, StageInv, NEW e \in Emails, NEW how \in {"API", "AUTO"},
         NEW p \in Supported, Request(e, how, p)
  PROVE  TypeOK' /\ StageInv'
<1>2. /\ pc[e] = "idle" /\ pc' = [pc EXCEPT ![e] = "http"]
      /\ caller' = [caller EXCEPT ![e] = how] /\ via' = [via EXCEPT ![e] = p]
      /\ UNCHANGED <<configVars, now, fileVars, exit, copies, outcome, stats>>
  BY DEF Request, Call, Via, Goto
<1>3. TypeOK'
  BY <1>2 DEF TypeOK, Callers, Unified, Points, configVars, fileVars
<1>4. Stage(e)' /\ outcome'[e] = "none"
  BY <1>2 DEF TypeOK, StageInv, Stage
<1>5. QED
  BY <1>2, <1>3, <1>4, StageFrame DEF TypeOK, configVars

LEMMA NoRequestStep ==
  ASSUME TypeOK, StageInv, NEW e \in Emails, NEW how \in {"API", "AUTO"},
         Call(e, how), ApiFailed(e, how, {})
  PROVE  TypeOK' /\ StageInv'
<1>1. /\ pc[e] = "idle" /\ caller' = [caller EXCEPT ![e] = how] /\ ApiFailed(e, how, {})
      /\ UNCHANGED <<configVars, now, fileVars, exit, copies>>
  BY DEF Call
<1>2. caller' \in [Emails -> Callers] /\ caller'[e] = how
  BY <1>1 DEF TypeOK, Callers, Unified
<1>3. copies'[e] = <<>> /\ Len(copies'[e]) <= 1 /\ copies'[e] \in Seq(Copies) /\ pc[e] # "done"
  BY <1>1, CopySequences DEF StageInv, Stage
<1>4. UNCHANGED fallback
  BY <1>1 DEF configVars
<1>5. /\ pc' \in [Emails -> Points] /\ via' \in [Emails -> {"none", "smtp"} \cup Supported]
      /\ outcome' \in [Emails -> {"none", "ok", "failed"}]
      /\ stats' \in [Counters -> Nat]
      /\ \A f \in Emails \ {e} : pc'[f] = pc[f] /\ via'[f] = via[f] /\ outcome'[f] = outcome[f]
      /\ Stage(e)' /\ (pc'[e] # "done" => outcome'[e] = "none")
  BY <1>1, <1>2, <1>3, <1>4, ApiFailedStep
<1>6. TypeOK'
  BY <1>1, <1>2, <1>5 DEF TypeOK, configVars, fileVars
<1>7. QED
  BY <1>1, <1>4, <1>5, <1>6, StageFrame DEF TypeOK

\* With the provider that is selected or named, or without one.
LEMMA CallKind ==
  ASSUME NEW e \in Emails,
         \/ \E how \in {"API", "AUTO"} : selectBestProvider(e, how) \/ NoProvider(e, how)
         \/ \E p \in Range(Keys) : sendViaAPI(e, p)
  PROVE  \E how \in {"API", "AUTO"} :
           \/ \E p \in Supported : Request(e, how, p)
           \/ Call(e, how) /\ ApiFailed(e, how, {})
<1>1. ASSUME NEW how \in {"API", "AUTO"}, selectBestProvider(e, how)
      PROVE  \E p \in Supported : Request(e, how, p)
  BY <1>1, ProviderTypes DEF selectBestProvider, getAvailableAPIProviders
<1>2. ASSUME NEW how \in {"API", "AUTO"}, NoProvider(e, how)
      PROVE  Call(e, how) /\ ApiFailed(e, how, {})
  BY <1>2 DEF NoProvider
<1>3. ASSUME NEW p \in Range(Keys), sendViaAPI(e, p)
      PROVE  \/ p \in Supported /\ Request(e, "API", p)
             \/ Call(e, "API") /\ ApiFailed(e, "API", {})
  BY <1>3, ProviderTypes DEF sendViaAPI, Range
<1>4. QED
  BY <1>1, <1>2, <1>3

\* No client reports a success of an email that its provider has not taken.
LEMMA SuccessfulReply ==
  ASSUME NEW p \in Supported, NEW reply \in Replies, Succeeds(p, reply)
  PROVE  reply.taken
BY DEF Succeeds, Replies, Supported, SendGridSucceeds, MailgunSucceeds, AmazonSESSucceeds,
       MailjetSucceeds, PostmarkSucceeds, SparkPostSucceeds, FastmailSucceeds,
       ZohoMailSucceeds, ProtonMailSucceeds

LEMMA ApiReplyStep ==
  ASSUME TypeOK, StageInv, NEW e \in Emails, NEW reply \in Replies, ApiReply(e, reply)
  PROVE  TypeOK' /\ StageInv'
<1>1. /\ pc[e] = "http" /\ via[e] \in Supported /\ copies[e] = <<>>
      /\ caller[e] \in {"API", "AUTO"} /\ outcome[e] = "none"
      /\ UNCHANGED <<configVars, now, fileVars, caller, exit>>
  BY DEF ApiReply, StageInv, Stage
<1>2. /\ copies' \in [Emails -> Seq(Copies)]
      /\ \A f \in Emails \ {e} : copies'[f] = copies[f]
      /\ \/ copies'[e] = <<>> /\ ~reply.taken
         \/ Len(copies'[e]) = 1 /\ copies'[e][1].via = via[e]
  <2>1. CASE reply.taken
    <3>1. Body(via[e], Mail[e]) \in Bodies(Addresses)
      BY <1>1, BodyRecipients, SendingAssumption
    <3>2. Take(e, via[e], Body(via[e], Mail[e]), {e}) /\ {e} \in SUBSET Emails
      BY <2>1 DEF ApiReply
    <3>3. /\ copies' \in [Emails -> Seq(Copies)]
          /\ \A f \in Emails \ {e} : copies'[f] = copies[f]
          /\ Len(copies'[e]) = Len(copies[e]) + 1
          /\ Last(copies'[e]).via = via[e]
      BY <1>1, <3>1, <3>2, TakenCopy
    <3>4. QED
      BY <1>1, <3>3, CopySequences DEF Last
  <2>2. CASE ~reply.taken
    BY <1>1, <2>2 DEF ApiReply, TypeOK
  <2>3. QED
    BY <2>1, <2>2
<1>3. /\ pc' \in [Emails -> Points] /\ via' \in [Emails -> {"none", "smtp"} \cup Supported]
      /\ outcome' \in [Emails -> {"none", "ok", "failed"}]
      /\ stats' \in [Counters -> Nat]
      /\ \A f \in Emails \ {e} : pc'[f] = pc[f] /\ via'[f] = via[f] /\ outcome'[f] = outcome[f]
      /\ Stage(e)' /\ (pc'[e] # "done" => outcome'[e] = "none")
  <2>1. CASE Succeeds(via[e], reply)
    <3>1. reply.taken
      BY <1>1, <2>1, SuccessfulReply
    <3>2. Return(e, "ok") /\ updateStats(caller[e], {"api_success"}) /\ UNCHANGED via
      BY <2>1 DEF ApiReply
    <3>3. Len(copies'[e]) = 1 /\ Last(copies'[e]).via = via'[e]
      BY <1>2, <3>1, <3>2 DEF Last
    <3>4. pc'[e] = "done" /\ copies'[e] # <<>>
      BY <3>2, <3>3, CopySequences DEF Return, TypeOK
    <3>5. Stage(e)'
      BY <3>3, <3>4 DEF Stage, Ended, Over
    <3>6. QED
      BY <3>2, <3>4, <3>5, StatsType DEF Return, TypeOK, Points
  <2>2. CASE ~Succeeds(via[e], reply)
    <3>1. ApiFailed(e, caller[e], {"api_failure"})
      BY <2>2 DEF ApiReply
    <3>2. /\ Len(copies'[e]) <= 1 /\ copies'[e] \in Seq(Copies)
          /\ copies'[e] # <<>> => copies'[e][1].via # "smtp"
          /\ caller[e] = caller'[e] /\ UNCHANGED fallback
      BY <1>1, <1>2, ProviderTypes, CopySequences DEF configVars
    <3>3. QED
      BY <1>1, <3>1, <3>2, ApiFailedStep
  <2>3. QED
    BY <2>1, <2>2
<1>4. TypeOK'
  BY <1>1, <1>2, <1>3 DEF TypeOK, configVars, fileVars
<1>5. QED
  BY <1>1, <1>2, <1>3, <1>4, StageFrame DEF configVars

\* The steps of the SMTP client.
LEMMA SmtpFailsStep ==
  ASSUME TypeOK, StageInv, NEW e \in Emails, NoDomain(e) \/ OpenTempFails(e)
  PROVE  TypeOK' /\ StageInv'
<1>1. /\ pc[e] \in {"smtp", "open"}
      /\ pc' = [pc EXCEPT ![e] = "done"] /\ outcome' = [outcome EXCEPT ![e] = "failed"]
      /\ UNCHANGED <<configVars, now, fileVars, caller, via, exit, copies>>
  BY DEF NoDomain, OpenTempFails, SmtpFails, Return
<1>2. stats' \in [Counters -> Nat]
  BY StatsType DEF NoDomain, OpenTempFails, SmtpFails
<1>3. TypeOK'
  BY <1>1, <1>2 DEF TypeOK, Points, configVars, fileVars
<1>4. Stage(e)'
  <2>1. BeforeSmtp(e) /\ copies[e] \in Seq(Copies)
    BY <1>1 DEF TypeOK, StageInv, Stage
  <2>2. Len(copies[e]) <= 1
    BY <2>1, CopySequences DEF BeforeSmtp
  <2>3. QED
    BY <1>1, <2>2 DEF TypeOK, Stage, Ended, Over
<1>5. QED
  BY <1>1, <1>3, <1>4, StageFrame DEF TypeOK, configVars

\* A text that is not written whole changes nothing, or takes what was in the file.
LEMMA CutTextType ==
  ASSUME TypeOK, NEW e \in Emails, CutText(e)
  PROVE  content' \in [0..MaxTime -> SUBSET Emails]
BY DEF CutText, TypeOK

LEMMA SmtpGoStep ==
  ASSUME TypeOK, StageInv, NEW e \in Emails,
         FindDomain(e) \/ OpenTemp(e) \/ WriteTemp(e) \/ WriteTempFails(e)
  PROVE  TypeOK' /\ StageInv'
<1>1. /\ \E from \in {"smtp", "open", "write"}, to \in {"open", "write", "curl"} :
           pc[e] = from /\ pc' = [pc EXCEPT ![e] = to]
      /\ UNCHANGED <<configVars, now, caller, via, stats, outcome, exit, copies>>
  BY DEF FindDomain, OpenTemp, WriteTemp, WriteTempFails, CutText, SmtpGo, Goto
<1>2. /\ files' \subseteq 0..MaxTime /\ content' \in [0..MaxTime -> SUBSET Emails]
      /\ temp' \in [Emails -> 0..MaxTime] /\ linked' \in [Emails -> BOOLEAN]
      /\ second' \in [Emails -> 0..(MaxTime + 1)] /\ cut' \subseteq Emails
  <2>1. CASE FindDomain(e)
    BY <2>1 DEF FindDomain, TypeOK, fileVars
  <2>2. CASE OpenTemp(e)
    <3>1. cut' \subseteq Emails /\ linked' \in [Emails -> BOOLEAN]
      BY <2>2 DEF OpenTemp, TypeOK
    <3>2. now \in 0..MaxTime /\ now \in 0..(MaxTime + 1)
      BY SendingAssumption DEF TypeOK
    <3>3. QED
      BY <2>2, <3>1, <3>2 DEF OpenTemp, TempName, TypeOK
  <2>3. CASE WriteTemp(e)
    <3>1. content[temp[e]] \in SUBSET Emails
      BY DEF TypeOK
    <3>2. content' \in [0..MaxTime -> SUBSET Emails]
      <4>1. CASE linked[e]
        <5>1. PICK mixed \in {{e}, content[temp[e]] \cup {e}} :
                content' = [content EXCEPT ![temp[e]] = mixed]
          BY <2>3, <4>1 DEF WriteTemp
        <5>2. mixed \in SUBSET Emails
          BY <3>1
        <5>3. QED
          BY <5>1, <5>2 DEF TypeOK
      <4>2. CASE ~linked[e]
        BY <2>3, <4>2 DEF WriteTemp, TypeOK
      <4>3. QED
        BY <4>1, <4>2
    <3>3. QED
      BY <2>3, <3>2 DEF WriteTemp, TypeOK
  <2>4. CASE WriteTempFails(e)
    <3>1. content' \in [0..MaxTime -> SUBSET Emails]
      BY <2>4, CutTextType DEF WriteTempFails
    <3>2. QED
      BY <2>4, <3>1 DEF WriteTempFails, CutText, TypeOK
  <2>5. QED
    BY <2>1, <2>2, <2>3, <2>4
<1>3. TypeOK'
  BY <1>1, <1>2, ZenonT(30) DEF TypeOK, Points, configVars
<1>4. Stage(e)' /\ outcome'[e] = "none"
  BY <1>1 DEF TypeOK, StageInv, Stage, BeforeSmtp, ApiThenSmtp, configVars
<1>5. QED
  BY <1>1, <1>3, <1>4, StageFrame DEF TypeOK, configVars

CurlTakes(e) == pc[e] = "curl" /\ Take(e, "smtp", SmtpBody(Given(e)), content[temp[e]])

\* A copy that curl hands over comes after one of an API at most.
LEMMA CurlTaken ==
  ASSUME TypeOK, StageInv, NEW e \in Emails, CurlTakes(e), UNCHANGED <<configVars, caller>>
  PROVE  /\ copies' \in [Emails -> Seq(Copies)]
         /\ \A f \in Emails \ {e} : copies'[f] = copies[f]
         /\ AfterSmtp(e)'
<1>1. BeforeSmtp(e) /\ copies[e] \in Seq(Copies)
  BY DEF TypeOK, StageInv, Stage, CurlTakes
<1>2. SmtpBody(Given(e)) \in Bodies(Addresses) /\ content[temp[e]] \in SUBSET Emails
  BY SmtpRecipients DEF TypeOK
<1>3. /\ copies' \in [Emails -> Seq(Copies)]
      /\ \A f \in Emails \ {e} : copies'[f] = copies[f]
      /\ Len(copies'[e]) = Len(copies[e]) + 1
      /\ \A i \in DOMAIN copies[e] : copies'[e][i] = copies[e][i]
      /\ Last(copies'[e]).via = "smtp"
  BY <1>2, TakenCopy DEF CurlTakes
<1>4. \/ Len(copies'[e]) = 1
      \/ Len(copies'[e]) = 2 /\ copies'[e][1] = copies[e][1] /\ ApiThenSmtp(e)
  <2>1. CASE copies[e] = <<>>
    BY <1>3, <2>1, CopySequences
  <2>2. CASE Len(copies[e]) = 1 /\ ApiThenSmtp(e)
    <3>1. 1 \in DOMAIN copies[e]
      BY <1>1, <2>2, LenProperties
    <3>2. QED
      BY <1>3, <2>2, <3>1
  <2>3. QED
    BY <1>1, <2>1, <2>2 DEF BeforeSmtp
<1>5. copies'[e] # <<>>
  BY <1>3, <1>4, CopySequences
<1>6. QED
  BY <1>3, <1>4, <1>5 DEF AfterSmtp, ApiThenSmtp, configVars

LEMMA CurlStep ==
  ASSUME TypeOK, StageInv, NEW e \in Emails, Curl(e)
  PROVE  TypeOK' /\ StageInv'
<1>1. /\ pc[e] = "curl" /\ pc' = [pc EXCEPT ![e] = "unlink"]
      /\ UNCHANGED <<configVars, now, fileVars, caller, via, stats, outcome>>
  BY DEF Curl, SmtpGo, Goto
<1>2. via[e] = "smtp" /\ BeforeSmtp(e) /\ outcome[e] = "none" /\ copies[e] \in Seq(Copies)
  BY <1>1 DEF TypeOK, StageInv, Stage
<1>3. PICK taken \in BOOLEAN, zero \in BOOLEAN :
        /\ zero => taken
        /\ exit' = [exit EXCEPT ![e] = IF zero THEN 0 ELSE 1]
        /\ IF taken THEN Take(e, "smtp", SmtpBody(Given(e)), content[temp[e]])
           ELSE UNCHANGED copies
  BY DEF Curl
<1>4. CASE taken
  <2>2. /\ copies' \in [Emails -> Seq(Copies)]
        /\ \A f \in Emails \ {e} : copies'[f] = copies[f]
        /\ AfterSmtp(e)'
    BY <1>1, <1>3, <1>4, CurlTaken DEF CurlTakes
  <2>6. TypeOK'
    BY <1>1, <1>3, <2>2 DEF TypeOK, Points, configVars, fileVars
  <2>7. Stage(e)' /\ outcome'[e] = "none"
    BY <1>1, <1>2, <2>2 DEF TypeOK, Stage
  <2>8. QED
    BY <1>1, <1>3, <2>2, <2>6, <2>7, StageFrame DEF TypeOK, configVars
<1>5. CASE ~taken
  <2>1. UNCHANGED copies /\ exit' = [exit EXCEPT ![e] = 1]
    BY <1>3, <1>5
  <2>2. TypeOK'
    BY <1>1, <2>1 DEF TypeOK, Points, configVars, fileVars
  <2>3. BeforeSmtp(e)'
    BY <1>1, <1>2, <2>1 DEF BeforeSmtp, ApiThenSmtp, configVars
  <2>4. Stage(e)' /\ outcome'[e] = "none"
    BY <1>1, <1>2, <2>1, <2>3 DEF TypeOK, Stage
  <2>5. QED
    BY <1>1, <2>1, <2>2, <2>4, StageFrame DEF TypeOK, configVars
<1>6. QED
  BY <1>4, <1>5

LEMMA UnlinkTempStep ==
  ASSUME TypeOK, StageInv, NEW e \in Emails, UnlinkTemp(e)
  PROVE  TypeOK' /\ StageInv'
<1>1. /\ pc[e] = "unlink" /\ pc' = [pc EXCEPT ![e] = "done"]
      /\ outcome' = [outcome EXCEPT ![e] = IF exit[e] = 0 THEN "ok" ELSE "failed"]
      /\ UNCHANGED <<configVars, now, caller, via, exit, copies, content, temp, second, cut>>
      /\ files' = files \ {temp[e]}
      /\ linked' = [f \in Emails |-> linked[f] /\ temp[f] # temp[e]]
  BY DEF UnlinkTemp, Unlink, Return
<1>2. stats' \in [Counters -> Nat]
  BY StatsType DEF UnlinkTemp
<1>3. TypeOK'
  BY <1>1, <1>2 DEF TypeOK, Points, configVars
<1>4. via[e] = "smtp" /\ (AfterSmtp(e) \/ (BeforeSmtp(e) /\ exit[e] # 0))
  BY <1>1 DEF StageInv, Stage
<1>5. Stage(e)'
  <2>1. CASE AfterSmtp(e)
    BY <1>1, <1>4, <2>1 DEF TypeOK, Stage, Ended, Over, AfterSmtp, ApiThenSmtp, configVars
  <2>2. CASE BeforeSmtp(e) /\ exit[e] # 0
    <3>1. Len(copies[e]) <= 1
      BY <2>2, CopySequences DEF TypeOK, BeforeSmtp
    <3>2. QED
      BY <1>1, <2>2, <3>1 DEF TypeOK, Stage, Ended, Over
  <2>3. QED
    BY <1>4, <2>1, <2>2
<1>6. QED
  BY <1>1, <1>3, <1>5, StageFrame DEF TypeOK, configVars

\* What a kill leaves behind.
LEMMA KillKind ==
  ASSUME TypeOK, StageInv, NEW e \in Emails, KillStep(e)
  PROVE  /\ pc[e] \in {"http", "write", "curl"} /\ pc' = [pc EXCEPT ![e] = "killed"]
         /\ UNCHANGED <<configVars, now, caller, via, exit, stats, outcome>>
         /\ UNCHANGED <<files, temp, linked, second, cut>>
         /\ \/ UNCHANGED content
            \/ pc[e] = "write" /\ CutText(e)
         /\ \/ UNCHANGED copies
            \/ via[e] \in Supported /\ copies[e] = <<>> /\ UNCHANGED content
                 /\ Take(e, via[e], Body(via[e], Mail[e]), {e})
            \/ CurlTakes(e) /\ UNCHANGED content
<1> USE DEF Dies, Goto, fileVars, CurlTakes
<1>1. CASE KillInRequest(e)
  BY <1>1 DEF KillInRequest, StageInv, Stage
<1>2. CASE KillInWrite(e)
  BY <1>2 DEF KillInWrite, CutText
<1>3. CASE KillInCurl(e)
  BY <1>3 DEF KillInCurl
<1>4. QED
  BY <1>1, <1>2, <1>3 DEF KillStep

LEMMA KillStepStage ==
  ASSUME TypeOK, StageInv, NEW e \in Emails, KillStep(e)
  PROVE  TypeOK' /\ StageInv'
<1>1. /\ pc[e] \in {"http", "write", "curl"} /\ pc' = [pc EXCEPT ![e] = "killed"]
      /\ UNCHANGED <<configVars, now, caller, via, exit, stats, outcome>>
      /\ UNCHANGED <<files, temp, linked, second, cut>>
  BY KillKind
<1>2. content' \in [0..MaxTime -> SUBSET Emails]
  BY KillKind, CutTextType DEF TypeOK
<1>3. /\ copies' \in [Emails -> Seq(Copies)]
      /\ \A f \in Emails \ {e} : copies'[f] = copies[f]
      /\ Over(e)'
  <2>1. CASE UNCHANGED copies
    <3>1. BeforeSmtp(e) \/ copies[e] = <<>>
      BY <1>1 DEF StageInv, Stage
    <3>2. Len(copies[e]) <= 1
      BY <3>1, CopySequences DEF TypeOK, BeforeSmtp
    <3>3. QED
      BY <2>1, <3>2 DEF TypeOK, Over
  <2>2. CASE via[e] \in Supported /\ copies[e] = <<>>
               /\ Take(e, via[e], Body(via[e], Mail[e]), {e})
    <3>1. Body(via[e], Mail[e]) \in Bodies(Addresses) /\ {e} \in SUBSET Emails
      BY <2>2, BodyRecipients, SendingAssumption
    <3>2. /\ copies' \in [Emails -> Seq(Copies)]
          /\ \A f \in Emails \ {e} : copies'[f] = copies[f]
          /\ Len(copies'[e]) = Len(copies[e]) + 1
      BY <2>2, <3>1, TakenCopy
    <3>3. QED
      BY <2>2, <3>2, CopySequences DEF Over
  <2>3. CASE CurlTakes(e)
    BY <1>1, <2>3, CurlTaken DEF Over
  <2>4. QED
    BY <2>1, <2>2, <2>3, KillKind
<1>4. TypeOK'
  BY <1>1, <1>2, <1>3 DEF TypeOK, Points, configVars
<1>5. Stage(e)' /\ outcome'[e] = "none"
  BY <1>1, <1>3 DEF TypeOK, StageInv, Stage
<1>6. QED
  BY <1>1, <1>3, <1>4, <1>5, StageFrame DEF TypeOK, configVars

\* Steps of the owner and of the clock.
LEMMA OtherSteps ==
  ASSUME TypeOK, StageInv,
         (\E p \in Range(Keys) : setAPIConfig(p) \/ removeAPIConfig(p)) \/ NextSecond
           \/ UNCHANGED vars
  PROVE  TypeOK' /\ StageInv'
<1>1. /\ UNCHANGED <<smtpConfig, fallback, fileVars, callVars, exit, copies, stats>>
      /\ now' = now \/ (now < MaxTime /\ now' = now + 1)
  BY DEF setAPIConfig, removeAPIConfig, Reconfigure, NextSecond, vars, configVars
<1>2. now' \in 0..MaxTime
  BY <1>1, SendingAssumption DEF TypeOK
<1>3. TypeOK'
  BY <1>1, <1>2 DEF TypeOK, fileVars, callVars
<1>4. StageInv'
  BY <1>1 DEF StageInv, Stage, BeforeSmtp, AfterSmtp, ApiThenSmtp, Ended, Over, callVars
<1>5. QED
  BY <1>3, <1>4

LEMMA InitStage == Init => TypeOK /\ StageInv
<1> SUFFICES ASSUME Init PROVE TypeOK /\ StageInv
  OBVIOUS
<1>1. \A e \in Emails : pc[e] = "idle" /\ copies[e] = <<>>
  BY DEF Init
<1>2. TypeOK
  BY SendingAssumption, CopySequences DEF Init, TypeOK, Points, Callers
<1>3. StageInv
  BY DEF Init, StageInv, Stage
<1>4. QED
  BY <1>2, <1>3

LEMMA NextStage == TypeOK /\ StageInv /\ [Next]_vars => TypeOK' /\ StageInv'
<1> SUFFICES ASSUME TypeOK, StageInv, [Next]_vars PROVE TypeOK' /\ StageInv'
  OBVIOUS
<1>1. ASSUME NEW e \in Emails, Send(e) PROVE TypeOK' /\ StageInv'
  BY <1>1, SendStep
<1>2. ASSUME NEW e \in Emails, UnifiedStep(e) PROVE TypeOK' /\ StageInv'
  BY <1>2, SendSMTPStep, CallKind, RequestStep, NoRequestStep, ApiReplyStep DEF UnifiedStep
<1>3. ASSUME NEW e \in Emails, SmtpStep(e) PROVE TypeOK' /\ StageInv'
  BY <1>3, SmtpFailsStep, SmtpGoStep, CurlStep, UnlinkTempStep DEF SmtpStep
<1>4. QED
  BY <1>1, <1>2, <1>3, KillStepStage, OtherSteps DEF Next

LEMMA StageAlways == Spec => [](TypeOK /\ StageInv)
BY InitStage, NextStage, PTL DEF Spec

\* At any point of a call its email has at most one copy with an API provider and
\* one with the SMTP server, and both only if the call is AUTO and fell back.
THEOREM TwoCopiesAtMost == Spec => []OneCopyPerTransport
<1>1. TypeOK /\ StageInv => OneCopyPerTransport
  <2> SUFFICES ASSUME TypeOK, StageInv, NEW e \in Emails
               PROVE  /\ Len(copies[e]) <= 2
                      /\ Len(copies[e]) = 2 => /\ ApiThenSmtp(e)
                                              /\ copies[e][2].via = "smtp"
    BY DEF OneCopyPerTransport, ApiThenSmtp
  <2>1. copies[e] = <<>> \/ Len(copies[e]) = 1 \/ AfterSmtp(e)
    BY CopySequences DEF TypeOK, StageInv, Stage, BeforeSmtp, Ended, Over
  <2>2. \/ Len(copies[e]) = 0 \/ Len(copies[e]) = 1
        \/ Len(copies[e]) = 2 /\ ApiThenSmtp(e) /\ copies[e][Len(copies[e])].via = "smtp"
    BY <2>1, CopySequences DEF AfterSmtp, Last
  <2>3. CASE Len(copies[e]) \in {0, 1}
    BY <2>3
  <2>4. CASE Len(copies[e]) = 2 /\ ApiThenSmtp(e) /\ copies[e][Len(copies[e])].via = "smtp"
    <3>1. copies[e][2].via = "smtp"
      BY <2>4
    <3>2. QED
      BY <2>4, <3>1
  <2>5. QED
    BY <2>2, <2>3, <2>4
<1>2. QED
  BY <1>1, StageAlways, PTL

\* Whatever is reported as sent has been taken by the transport the result names.
THEOREM NothingSentIsLost == Spec => []SuccessIsTaken
<1>1. TypeOK /\ StageInv => SuccessIsTaken
  <2> SUFFICES ASSUME StageInv, NEW e \in Emails, outcome[e] = "ok"
               PROVE  copies[e] # <<>> /\ Last(copies[e]).via = via[e]
    BY DEF SuccessIsTaken
  <2>1. pc[e] = "done"
    BY DEF StageInv
  <2>2. QED
    BY <2>1 DEF StageInv, Stage, Ended
<1>2. QED
  BY <1>1, StageAlways, PTL

(***************************************************************************)
(* Recipients                                                              *)
(***************************************************************************)
\* After a step that takes a copy each copy is an old one or the new one.
LEMMA OldOrNewCopy ==
  ASSUME TypeOK, NEW e \in Emails, NEW transport \in Supported \cup {"smtp"},
         NEW body \in Bodies(Addresses), NEW text \in SUBSET Emails,
         Take(e, transport, body, text),
         NEW f \in Emails, NEW i \in DOMAIN copies'[f]
  PROVE  \/ i \in DOMAIN copies[f] /\ copies'[f][i] = copies[f][i]
         \/ /\ f = e
            /\ copies'[f][i].via = transport /\ copies'[f][i].rcpt = body.rcpt
            /\ copies'[f][i].text = text
<1>1. CASE f # e
  <2>1. copies'[f] = copies[f]
    BY <1>1, TakenCopy
  <2>2. QED
    BY <2>1
<1>2. CASE f = e
  <2>1. copies[e] \in Seq(Copies) /\ copies'[e] \in Seq(Copies)
    BY TakenCopy DEF TypeOK
  <2>2. Len(copies'[e]) = Len(copies[e]) + 1
    BY TakenCopy
  <2>3. i \in 1..Len(copies[e]) \/ i = Len(copies[e]) + 1
    BY <1>2, <2>1, <2>2
  <2>4. DOMAIN copies[e] = 1..Len(copies[e])
    BY <2>1
  <2>5. CASE i \in DOMAIN copies[e]
    BY <1>2, <2>5, TakenCopy
  <2>6. CASE i = Len(copies[e]) + 1
    <3>1. copies'[e][Len(copies[e]) + 1]
            = [via |-> transport, rcpt |-> body.rcpt, parts |-> body.parts, text |-> text]
      BY TakenCopy
    <3>2. QED
      BY <1>2, <2>6, <3>1
  <2>7. QED
    BY <2>3, <2>4, <2>5, <2>6
<1>3. QED
  BY <1>1, <1>2

\* What the steps before the SMTP client have in common.
LEMMA UnifiedKind ==
  ASSUME TypeOK, StageInv, NEW e \in Emails, Send(e) \/ UnifiedStep(e)
  PROVE  /\ pc[e] \in {"idle", "http"}
         /\ \E to \in {"http", "smtp", "done"} : pc' = [pc EXCEPT ![e] = to]
         /\ UNCHANGED <<configVars, now, fileVars>>
         /\ \/ UNCHANGED copies
            \/ /\ via[e] \in Supported
               /\ Take(e, via[e], Body(via[e], Mail[e]), {e})
<1> USE DEF Call, Goto, Return, sendViaSMTP
<1>1. CASE Send(e)
  BY <1>1 DEF Send
<1>2. CASE SendSMTP(e)
  BY <1>2 DEF SendSMTP
<1>3. ASSUME NEW how \in {"API", "AUTO"},
             (\E p \in Supported : Request(e, how, p)) \/ (Call(e, how) /\ ApiFailed(e, how, {}))
      PROVE  /\ pc[e] = "idle"
             /\ \E to \in {"http", "smtp", "done"} : pc' = [pc EXCEPT ![e] = to]
             /\ UNCHANGED <<configVars, now, fileVars, copies>>
  BY <1>3 DEF Request, ApiFailed
<1>4. ASSUME NEW reply \in Replies, ApiReply(e, reply)
      PROVE  /\ pc[e] = "http" /\ via[e] \in Supported
             /\ \E to \in {"http", "smtp", "done"} : pc' = [pc EXCEPT ![e] = to]
             /\ UNCHANGED <<configVars, now, fileVars>>
             /\ UNCHANGED copies \/ Take(e, via[e], Body(via[e], Mail[e]), {e})
  BY <1>4 DEF ApiReply, ApiFailed, StageInv, Stage
<1>5. QED
  BY <1>1, <1>2, <1>3, <1>4, CallKind DEF UnifiedStep

\* Copies are taken by a client of an API and by curl, and by no other step.
LEMMA CopiesFrame ==
  ASSUME [Next]_vars, TypeOK, StageInv
  PROVE  \/ UNCHANGED copies
         \/ \E e \in Emails : \/ /\ via[e] \in Supported
                                /\ Take(e, via[e], Body(via[e], Mail[e]), {e})
                             \/ (CurlTakes(e) /\ UNCHANGED <<content, temp, second, cut>>)
<1>1. ASSUME NEW e \in Emails, SmtpStep(e)
      PROVE  UNCHANGED copies \/ (CurlTakes(e) /\ UNCHANGED <<content, temp, second, cut>>)
  <2>1. CASE Curl(e)
    BY <2>1 DEF Curl, CurlTakes, SmtpGo, fileVars
  <2>2. QED
    BY <1>1, <2>1 DEF SmtpStep, NoDomain, FindDomain, OpenTemp, OpenTempFails, WriteTemp,
              WriteTempFails, CutText, UnlinkTemp, SmtpFails
<1>2. ASSUME (\E p \in Range(Keys) : setAPIConfig(p) \/ removeAPIConfig(p)) \/ NextSecond
               \/ UNCHANGED vars
      PROVE  UNCHANGED copies
  BY <1>2 DEF setAPIConfig, removeAPIConfig, Reconfigure, NextSecond, vars
<1>3. ASSUME NEW e \in Emails, KillStep(e)
      PROVE  \/ UNCHANGED copies
             \/ via[e] \in Supported /\ Take(e, via[e], Body(via[e], Mail[e]), {e})
             \/ (CurlTakes(e) /\ UNCHANGED <<content, temp, second, cut>>)
  BY <1>3, KillKind
<1>4. ASSUME NEW e \in Emails, Send(e) \/ UnifiedStep(e)
      PROVE  \/ UNCHANGED copies
             \/ via[e] \in Supported /\ Take(e, via[e], Body(via[e], Mail[e]), {e})
  BY <1>4, UnifiedKind
<1>5. QED
  BY <1>1, <1>2, <1>3, <1>4 DEF Next

\* Every copy, by whichever transport, goes to recipients of its email only, and to
\* all of them where the request carries Cc and Bcc.
THEOREM RecipientsReached == Spec => []CopiesReachRecipients
<1>1. Init => CopiesReachRecipients
  <2>1. ASSUME Init, NEW e \in Emails PROVE DOMAIN copies[e] = {}
    BY <2>1 DEF Init
  <2>2. QED
    BY <2>1 DEF CopiesReachRecipients
<1>2. TypeOK /\ StageInv /\ CopiesReachRecipients /\ [Next]_vars => CopiesReachRecipients'
  <2> SUFFICES ASSUME TypeOK, StageInv, CopiesReachRecipients, [Next]_vars,
                      NEW f \in Emails, NEW i \in DOMAIN copies'[f]
               PROVE  LET copy == copies'[f][i] IN
                      /\ copy.rcpt \subseteq getAllRecipients(Mail[f])
                      /\ Mail[f].to[1] \in copy.rcpt
                      /\ copy.via \notin {"smtp", "postmark", "sparkpost"}
                           => copy.rcpt = getAllRecipients(Mail[f])
    BY DEF CopiesReachRecipients
  <2>1. CASE i \in DOMAIN copies[f] /\ copies'[f][i] = copies[f][i]
    BY <2>1 DEF CopiesReachRecipients
  <2>2. CASE UNCHANGED copies
    BY <2>1, <2>2
  <2>3. ASSUME NEW e \in Emails, via[e] \in Supported,
               Take(e, via[e], Body(via[e], Mail[e]), {e})
        PROVE  \/ i \in DOMAIN copies[f] /\ copies'[f][i] = copies[f][i]
               \/ /\ copies'[f][i].via = via[f] /\ via[f] \in Supported
                  /\ copies'[f][i].rcpt = Body(via[f], Mail[f]).rcpt
    <3>1. Body(via[e], Mail[e]) \in Bodies(Addresses)
      BY <2>3, BodyRecipients, SendingAssumption
    <3>2. {e} \in SUBSET Emails /\ via[e] \in Supported \cup {"smtp"}
      BY <2>3
    <3>3. QED
      BY <2>3, <3>1, <3>2, OldOrNewCopy
  <2>4. ASSUME NEW e \in Emails, CurlTakes(e)
        PROVE  \/ i \in DOMAIN copies[f] /\ copies'[f][i] = copies[f][i]
               \/ /\ copies'[f][i].via = "smtp"
                  /\ copies'[f][i].rcpt = SmtpBody(Given(f)).rcpt
    <3>1. Take(e, "smtp", SmtpBody(Given(e)), content[temp[e]])
      BY <2>4 DEF CurlTakes
    <3>2. SmtpBody(Given(e)) \in Bodies(Addresses) /\ content[temp[e]] \in SUBSET Emails
      BY SmtpRecipients DEF TypeOK
    <3>3. QED
      BY <3>1, <3>2, OldOrNewCopy
  <2>5. CASE copies'[f][i].via = via[f] /\ via[f] \in Supported
               /\ copies'[f][i].rcpt = Body(via[f], Mail[f]).rcpt
    BY <2>5, BodyRecipients, SendingAssumption
  <2>6. CASE copies'[f][i].via = "smtp" /\ copies'[f][i].rcpt = SmtpBody(Given(f)).rcpt
    BY <2>6, SmtpRecipients
  <2>7. QED
    BY <2>1, <2>2, <2>3, <2>4, <2>5, <2>6, CopiesFrame
<1>3. QED
  BY <1>1, <1>2, StageAlways, PTL DEF Spec

(***************************************************************************)
(* Temporary files                                                         *)
(***************************************************************************)
BeforeFile(e) == pc[e] \in {"idle", "http", "smtp", "open"}
HasFile(e) == pc[e] \in {"write", "curl", "unlink"}

\* What the steps do to the files, and when.
LEMMA FileKind ==
  ASSUME TypeOK, StageInv, [Next]_vars
  PROVE  \/ UNCHANGED <<pc, fileVars>>
         \/ \E e \in Emails, to \in Points :
              /\ BeforeFile(e) /\ to \notin {"write", "curl", "unlink", "killed"}
              /\ pc' = [pc EXCEPT ![e] = to]
              /\ UNCHANGED fileVars
         \/ \E e \in Emails : \/ OpenTemp(e) \/ WriteTemp(e) \/ WriteTempFails(e)
                             \/ Curl(e) \/ UnlinkTemp(e) \/ KillStep(e)
<1>1. ASSUME NEW e \in Emails, Send(e) \/ UnifiedStep(e)
      PROVE  \E to \in Points :
               /\ BeforeFile(e) /\ to \notin {"write", "curl", "unlink", "killed"}
               /\ pc' = [pc EXCEPT ![e] = to]
               /\ UNCHANGED fileVars
  BY <1>1, UnifiedKind DEF BeforeFile, Points
<1>2. ASSUME NEW e \in Emails, NoDomain(e) \/ FindDomain(e) \/ OpenTempFails(e)
      PROVE  \E to \in Points :
               /\ BeforeFile(e) /\ to \notin {"write", "curl", "unlink", "killed"}
               /\ pc' = [pc EXCEPT ![e] = to]
               /\ UNCHANGED fileVars
  BY <1>2 DEF NoDomain, FindDomain, OpenTempFails, SmtpFails, SmtpGo, Goto, Return, BeforeFile, Points
<1>3. ASSUME (\E p \in Range(Keys) : setAPIConfig(p) \/ removeAPIConfig(p)) \/ NextSecond
               \/ UNCHANGED vars
      PROVE  UNCHANGED <<pc, fileVars>>
  BY <1>3 DEF setAPIConfig, removeAPIConfig, Reconfigure, NextSecond, vars, callVars
<1>4. QED
  BY <1>1, <1>2, <1>3 DEF Next, SmtpStep

\* A temporary file always belongs to a call that has not returned and that will
\* remove it, unless it is killed.
Keeps(e) == linked[e] /\ (HasFile(e) \/ pc[e] = "killed")

THEOREM FilesHaveOwners == Spec => []NoTempFileLeft
<1>1. Init => NoTempFileLeft
  BY DEF Init, NoTempFileLeft
<1>2. TypeOK /\ StageInv /\ NoTempFileLeft /\ [Next]_vars => NoTempFileLeft'
  <2> SUFFICES ASSUME TypeOK, StageInv, NoTempFileLeft, [Next]_vars, NEW t \in files'
               PROVE  \E e \in Emails : Keeps(e)' /\ temp'[e] = t
    BY DEF NoTempFileLeft, Keeps, HasFile
  <2>1. t \in files => \E e \in Emails : Keeps(e) /\ temp[e] = t
    BY DEF NoTempFileLeft, Keeps, HasFile
  <2>2. CASE UNCHANGED <<pc, fileVars>>
    BY <2>1, <2>2 DEF fileVars, Keeps, HasFile
  <2>3. ASSUME NEW e \in Emails, NEW to \in Points, BeforeFile(e),
               pc' = [pc EXCEPT ![e] = to], UNCHANGED fileVars
        PROVE  \E f \in Emails : Keeps(f)' /\ temp'[f] = t
    BY <2>1, <2>3 DEF fileVars, Keeps, HasFile, BeforeFile, TypeOK
  <2>4. ASSUME NEW e \in Emails, OpenTemp(e)
        PROVE  \E f \in Emails : Keeps(f)' /\ temp'[f] = t
    <3>1. /\ pc[e] = "open" /\ pc' = [pc EXCEPT ![e] = "write"]
          /\ temp' = [temp EXCEPT ![e] = now] /\ files' = files \cup {now}
          /\ linked' = [linked EXCEPT ![e] = TRUE]
      BY <2>4 DEF OpenTemp, SmtpGo, Goto, TempName
    <3>2. CASE t = now
      BY <3>1, <3>2 DEF Keeps, HasFile, TypeOK
    <3>3. CASE t \in files
      BY <2>1, <3>1, <3>3 DEF Keeps, HasFile, TypeOK
    <3>4. QED
      BY <3>1, <3>2, <3>3
  <2>5. ASSUME NEW e \in Emails, WriteTemp(e) \/ WriteTempFails(e) \/ Curl(e)
        PROVE  \E f \in Emails : Keeps(f)' /\ temp'[f] = t
    <3>1. /\ pc' = [pc EXCEPT ![e] = "curl"] \/ pc' = [pc EXCEPT ![e] = "unlink"]
          /\ UNCHANGED <<temp, files, linked>>
      BY <2>5 DEF WriteTemp, WriteTempFails, CutText, Curl, SmtpGo, Goto, fileVars
    <3>2. QED
      BY <2>1, <3>1 DEF Keeps, HasFile, TypeOK
  <2>6. ASSUME NEW e \in Emails, UnlinkTemp(e)
        PROVE  \E f \in Emails : Keeps(f)' /\ temp'[f] = t
    <3>1. /\ pc' = [pc EXCEPT ![e] = "done"]
          /\ files' = files \ {temp[e]} /\ UNCHANGED temp
          /\ linked' = [f \in Emails |-> linked[f] /\ temp[f] # temp[e]]
      BY <2>6 DEF UnlinkTemp, Unlink, Return
    <3>2. QED
      BY <2>1, <3>1 DEF Keeps, HasFile, TypeOK
  <2>7. ASSUME NEW e \in Emails, KillStep(e)
        PROVE  \E f \in Emails : Keeps(f)' /\ temp'[f] = t
    <3>1. /\ pc' = [pc EXCEPT ![e] = "killed"]
          /\ UNCHANGED <<temp, files, linked>>
      BY <2>7, KillKind
    <3>2. QED
      BY <2>1, <3>1 DEF Keeps, HasFile, TypeOK
  <2>8. QED
    BY <2>2, <2>3, <2>4, <2>5, <2>6, <2>7, FileKind
<1>3. QED
  BY <1>1, <1>2, StageAlways, PTL DEF Spec

(***************************************************************************)
(* Whose text a copy has                                                   *)
(***************************************************************************)
\* Another call created its file in the same second.
Shared(e) == \E f \in Emails \ {e} : second[f] = second[e]

\* second says when a call opened its file, and the texts in a file are of calls
\* that opened it; who has lost the name of its file, or its whole text in it,
\* shares the second with another call.
FileInv ==
  /\ \A e \in Emails : /\ BeforeFile(e) => second[e] = MaxTime + 1
                       /\ HasFile(e) => second[e] = temp[e]
                       /\ HasFile(e) /\ ~linked[e] => Shared(e)
                       /\ pc[e] = "curl" /\ e \notin content[temp[e]] => e \in cut \/ Shared(e)
  /\ \A t \in 0..MaxTime : \A f \in content[t] : second[f] = t

TextFits(e, text) ==
  \/ text = {e}
  \/ /\ second[e] # MaxTime + 1
     /\ \A f \in text : f = e \/ second[f] = second[e]
     /\ e \notin text => e \in cut \/ Shared(e)

TextInv == \A e \in Emails : \A i \in DOMAIN copies[e] : TextFits(e, copies[e][i].text)

\* A file is opened once in a call, and only then does second change.
LEMMA SecondKind ==
  ASSUME TypeOK, StageInv, FileInv, [Next]_vars
  PROVE  \/ UNCHANGED second
         \/ \E e \in Emails : /\ second[e] = MaxTime + 1 /\ now # MaxTime + 1
                             /\ second' = [second EXCEPT ![e] = now]
<1>1. ASSUME NEW e \in Emails, OpenTemp(e)
      PROVE  /\ second[e] = MaxTime + 1 /\ now # MaxTime + 1
             /\ second' = [second EXCEPT ![e] = now]
  <2>1. pc[e] = "open"
    BY <1>1 DEF OpenTemp, SmtpGo
  <2>2. second[e] = MaxTime + 1
    BY <2>1 DEF FileInv, BeforeFile
  <2>3. now # MaxTime + 1
    BY SendingAssumption DEF TypeOK
  <2>4. QED
    BY <1>1, <2>2, <2>3 DEF OpenTemp
<1>2. ASSUME NEW e \in Emails,
             WriteTemp(e) \/ WriteTempFails(e) \/ Curl(e) \/ UnlinkTemp(e) \/ KillStep(e)
      PROVE  UNCHANGED second
  BY <1>2, KillKind DEF WriteTemp, WriteTempFails, CutText, Curl, UnlinkTemp, Unlink, fileVars
<1>3. UNCHANGED fileVars => UNCHANGED second
  BY DEF fileVars
<1>4. QED
  BY <1>1, <1>2, <1>3, FileKind

LEMMA CutStays ==
  ASSUME TypeOK, StageInv, [Next]_vars
  PROVE  cut \subseteq cut'
<1>1. ASSUME NEW e \in Emails,
             \/ OpenTemp(e) \/ WriteTemp(e) \/ WriteTempFails(e)
             \/ Curl(e) \/ UnlinkTemp(e) \/ KillStep(e)
      PROVE  cut \subseteq cut'
  BY <1>1, KillKind DEF OpenTemp, WriteTemp, WriteTempFails, Curl, UnlinkTemp, Unlink, fileVars
<1>2. UNCHANGED fileVars => cut \subseteq cut'
  BY DEF fileVars
<1>3. QED
  BY <1>1, <1>2, FileKind

\* What fits a call goes on fitting it, and seconds once shared stay shared.
LEMMA FitsStays ==
  ASSUME TypeOK, StageInv, FileInv, [Next]_vars, NEW e \in Emails
  PROVE  /\ second[e] # MaxTime + 1 => second'[e] = second[e]
         /\ second[e] # MaxTime + 1 /\ Shared(e) => Shared(e)'
         /\ \A text \in SUBSET Emails : TextFits(e, text) => TextFits(e, text)'
<1>1. \A f \in Emails : second[f] # MaxTime + 1 => second'[f] = second[f]
  BY SecondKind DEF TypeOK
<1>2. second[e] # MaxTime + 1 /\ Shared(e) => Shared(e)'
  BY <1>1 DEF Shared
<1>3. ASSUME NEW text \in SUBSET Emails, TextFits(e, text) PROVE TextFits(e, text)'
  BY <1>1, <1>2, <1>3, CutStays DEF TextFits
<1>4. QED
  BY <1>1, <1>2, <1>3

LEMMA OpenTempFiles ==
  ASSUME TypeOK, StageInv, FileInv, [Next]_vars, NEW e \in Emails, OpenTemp(e)
  PROVE  FileInv'
<1>1. /\ pc[e] = "open" /\ pc' = [pc EXCEPT ![e] = "write"]
      /\ temp' = [temp EXCEPT ![e] = now] /\ content' = [content EXCEPT ![now] = {}]
      /\ linked' = [linked EXCEPT ![e] = TRUE] /\ second' = [second EXCEPT ![e] = now]
  BY DEF OpenTemp, SmtpGo, Goto, TempName
<1>2. second[e] = MaxTime + 1 /\ now \in 0..MaxTime /\ \A t \in 0..MaxTime : t # MaxTime + 1
  BY <1>1, SendingAssumption DEF FileInv, BeforeFile, TypeOK
<1>3. ASSUME NEW f \in Emails
      PROVE  /\ BeforeFile(f)' => second'[f] = MaxTime + 1
             /\ HasFile(f)' => second'[f] = temp'[f]
             /\ HasFile(f)' /\ ~linked'[f] => Shared(f)'
             /\ pc'[f] = "curl" /\ f \notin content'[temp'[f]] => f \in cut' \/ Shared(f)'
  <2>1. CASE f = e
    BY <1>1, <2>1 DEF BeforeFile, HasFile, TypeOK
  <2>2. CASE f # e
    <3>1. /\ pc'[f] = pc[f] /\ second'[f] = second[f] /\ temp'[f] = temp[f]
          /\ linked'[f] = linked[f] /\ temp[f] \in 0..MaxTime
      BY <1>1, <2>2 DEF TypeOK
    <3>2. /\ BeforeFile(f)' => second'[f] = MaxTime + 1
          /\ HasFile(f)' => second'[f] = temp'[f]
      BY <3>1 DEF FileInv, BeforeFile, HasFile
    <3>3. HasFile(f) /\ Shared(f) => Shared(f)'
      BY <1>2, <3>1, FitsStays DEF FileInv
    <3>4. HasFile(f)' /\ ~linked'[f] => Shared(f)'
      BY <3>1, <3>3 DEF FileInv, HasFile
    <3>5. pc'[f] = "curl" /\ f \notin content'[temp'[f]] => f \in cut' \/ Shared(f)'
      <4>1. CASE temp[f] = now
        <5>1. pc[f] = "curl" => second[f] = now
          BY <4>1 DEF FileInv, HasFile
        <5>2. second'[e] = now
          BY <1>1 DEF TypeOK
        <5>3. QED
          BY <2>2, <3>1, <5>1, <5>2 DEF Shared
      <4>2. CASE temp[f] # now
        BY <1>1, <3>1, <3>3, <4>2, CutStays DEF FileInv, HasFile, TypeOK
      <4>3. QED
        BY <4>1, <4>2
    <3>6. QED
      BY <3>2, <3>4, <3>5
  <2>3. QED
    BY <2>1, <2>2
<1>4. ASSUME NEW t \in 0..MaxTime, NEW f \in content'[t] PROVE second'[f] = t
  <2>1. t # now /\ f \in content[t]
    BY <1>1, <1>4 DEF TypeOK
  <2>2. f \in Emails /\ second[f] = t
    BY <2>1 DEF FileInv, TypeOK
  <2>3. QED
    BY <1>2, <2>2, FitsStays
<1>5. QED
  BY <1>3, <1>4 DEF FileInv

LEMMA WriteTempFiles ==
  ASSUME TypeOK, StageInv, FileInv, [Next]_vars, NEW e \in Emails, WriteTemp(e)
  PROVE  FileInv'
<1>1. /\ pc[e] = "write" /\ pc' = [pc EXCEPT ![e] = "curl"]
      /\ UNCHANGED <<temp, linked, second, cut>>
  BY DEF WriteTemp, SmtpGo, Goto
<1>2. second[e] = temp[e] /\ temp[e] \in 0..MaxTime /\ second[e] # MaxTime + 1
  <2>1. second[e] = temp[e] /\ temp[e] \in 0..MaxTime
    BY <1>1 DEF FileInv, HasFile, TypeOK
  <2>2. QED
    BY <2>1, SendingAssumption
<1>3. \/ linked[e] /\ \E mixed \in {{e}, content[temp[e]] \cup {e}} :
                         content' = [content EXCEPT ![temp[e]] = mixed]
      \/ Shared(e) /\ UNCHANGED content
  BY <1>1 DEF WriteTemp, FileInv, HasFile
<1>4. /\ e \in content'[temp[e]] \/ Shared(e)
      /\ \A t \in 0..MaxTime : t # temp[e] => content'[t] = content[t]
      /\ content'[temp[e]] \subseteq content[temp[e]] \cup {e}
  <2>1. CASE Shared(e) /\ UNCHANGED content
    BY <2>1
  <2>2. ASSUME NEW mixed \in {{e}, content[temp[e]] \cup {e}},
               content' = [content EXCEPT ![temp[e]] = mixed]
        PROVE  /\ content'[temp[e]] = mixed
               /\ \A t \in 0..MaxTime : t # temp[e] => content'[t] = content[t]
    BY <1>2, <2>2 DEF TypeOK
  <2>3. QED
    BY <1>3, <2>1, <2>2
<1>5. ASSUME NEW f \in Emails PROVE Shared(f)' <=> Shared(f)
  BY <1>1 DEF Shared
<1>6. ASSUME NEW t \in 0..MaxTime, NEW f \in content'[t] PROVE second'[f] = t
  <2>1. f \in content[t] \/ (f = e /\ t = temp[e])
    BY <1>4, <1>6
  <2>2. QED
    BY <1>1, <1>2, <2>1 DEF FileInv
<1>7. ASSUME NEW f \in Emails, pc'[f] = "curl", f \notin content'[temp'[f]]
      PROVE  f \in cut \/ Shared(f)
  <2>1. CASE f = e
    BY <1>1, <1>4, <1>7, <2>1
  <2>2. CASE f # e
    <3>1. pc[f] = "curl" /\ second[f] = temp[f] /\ temp[f] \in 0..MaxTime
      BY <1>1, <1>7, <2>2 DEF FileInv, HasFile, TypeOK
    <3>2. CASE f \notin content[temp[f]]
      BY <3>1, <3>2 DEF FileInv
    <3>3. CASE f \in content[temp[f]]
      <4>1. temp[f] = temp[e]
        BY <1>1, <1>4, <1>7, <3>1, <3>3
      <4>2. QED
        BY <1>2, <2>2, <3>1, <4>1 DEF Shared
    <3>4. QED
      BY <3>2, <3>3
  <2>3. QED
    BY <2>1, <2>2
<1>8. ASSUME NEW f \in Emails
      PROVE  /\ BeforeFile(f)' => BeforeFile(f)
             /\ HasFile(f)' => HasFile(f)
  BY <1>1 DEF BeforeFile, HasFile, TypeOK
<1>9. QED
  BY <1>1, <1>5, <1>6, <1>7, <1>8 DEF FileInv

\* A text that is not written whole spoils those of calls of the same second only.
LEMMA CutTextFiles ==
  ASSUME TypeOK, FileInv, NEW e \in Emails, NEW to \in {"curl", "killed"},
         pc[e] = "write", pc' = [pc EXCEPT ![e] = to], CutText(e),
         cut \subseteq cut', to = "curl" => e \in cut'
  PROVE  FileInv'
<1>1. /\ second[e] = temp[e] /\ temp[e] \in 0..MaxTime /\ UNCHANGED <<temp, linked, second>>
      /\ content' = content \/ content' = [content EXCEPT ![temp[e]] = {}]
  BY DEF FileInv, HasFile, TypeOK, CutText
<1>2. ASSUME NEW f \in Emails
      PROVE  /\ BeforeFile(f)' => BeforeFile(f)
             /\ HasFile(f)' => HasFile(f)
             /\ Shared(f)' <=> Shared(f)
  BY <1>1 DEF BeforeFile, HasFile, Shared, TypeOK
<1>3. \A t \in 0..MaxTime : content'[t] = content[t] \/ (t = temp[e] /\ content'[t] = {})
  BY <1>1 DEF TypeOK
<1>4. ASSUME NEW f \in Emails, pc'[f] = "curl", f \notin content'[temp'[f]]
      PROVE  f \in cut' \/ Shared(f)
  <2>1. CASE f = e
    BY <1>4, <2>1 DEF TypeOK
  <2>2. CASE f # e
    <3>1. pc[f] = "curl" /\ second[f] = temp[f] /\ temp[f] \in 0..MaxTime
      BY <1>4, <2>2 DEF FileInv, HasFile, TypeOK
    <3>2. CASE f \notin content[temp[f]]
      BY <3>1, <3>2 DEF FileInv
    <3>3. CASE temp[f] = temp[e]
      BY <1>1, <2>2, <3>1, <3>3 DEF Shared
    <3>4. QED
      BY <1>1, <1>3, <1>4, <3>1, <3>2, <3>3
  <2>3. QED
    BY <2>1, <2>2
<1>5. QED
  BY <1>1, <1>2, <1>3, <1>4 DEF FileInv

LEMMA UnlinkTempFiles ==
  ASSUME TypeOK, StageInv, FileInv, [Next]_vars, NEW e \in Emails, UnlinkTemp(e)
  PROVE  FileInv'
<1>1. /\ pc[e] = "unlink" /\ pc' = [pc EXCEPT ![e] = "done"]
      /\ UNCHANGED <<content, temp, second, cut>>
      /\ linked' = [f \in Emails |-> linked[f] /\ temp[f] # temp[e]]
  BY DEF UnlinkTemp, Unlink, Return
<1>2. second[e] = temp[e]
  BY <1>1 DEF FileInv, HasFile
<1>3. ASSUME NEW f \in Emails
      PROVE  /\ Shared(f)' <=> Shared(f)
             /\ BeforeFile(f)' => BeforeFile(f)
             /\ HasFile(f)' => HasFile(f) /\ f # e
             /\ pc'[f] = "curl" => pc[f] = "curl"
  BY <1>1 DEF Shared, BeforeFile, HasFile, TypeOK
<1>4. ASSUME NEW f \in Emails, HasFile(f)', ~linked'[f] PROVE Shared(f)
  <2>1. CASE ~linked[f]
    BY <1>3, <1>4, <2>1 DEF FileInv
  <2>2. CASE temp[f] = temp[e]
    BY <1>2, <1>3, <1>4, <2>2 DEF FileInv, Shared
  <2>3. QED
    BY <1>1, <1>4, <2>1, <2>2
<1>5. QED
  BY <1>1, <1>3, <1>4 DEF FileInv

LEMMA FileStep ==
  ASSUME TypeOK, StageInv, FileInv, [Next]_vars
  PROVE  FileInv'
<1>1. CASE UNCHANGED <<pc, fileVars>>
  BY <1>1 DEF FileInv, BeforeFile, HasFile, Shared, fileVars
<1>2. ASSUME NEW e \in Emails, NEW to \in Points,
             BeforeFile(e), to \notin {"write", "curl", "unlink", "killed"},
             pc' = [pc EXCEPT ![e] = to], UNCHANGED fileVars
      PROVE  FileInv'
  <2>1. ASSUME NEW f \in Emails
        PROVE  /\ BeforeFile(f)' => BeforeFile(f)
               /\ HasFile(f)' => HasFile(f)
               /\ pc'[f] = "curl" => pc[f] = "curl"
               /\ Shared(f)' <=> Shared(f)
    BY <1>2 DEF BeforeFile, HasFile, Shared, TypeOK, fileVars
  <2>2. QED
    BY <1>2, <2>1 DEF FileInv, fileVars
<1>3. ASSUME NEW e \in Emails, Curl(e) PROVE FileInv'
  <2>1. pc[e] = "curl" /\ pc' = [pc EXCEPT ![e] = "unlink"] /\ UNCHANGED fileVars
    BY <1>3 DEF Curl, SmtpGo, Goto
  <2>2. ASSUME NEW f \in Emails
        PROVE  /\ BeforeFile(f)' => BeforeFile(f)
               /\ HasFile(f)' => HasFile(f)
               /\ pc'[f] = "curl" => pc[f] = "curl"
               /\ Shared(f)' <=> Shared(f)
    BY <2>1 DEF BeforeFile, HasFile, Shared, TypeOK, fileVars
  <2>3. QED
    BY <2>1, <2>2 DEF FileInv, fileVars
<1>4. ASSUME NEW e \in Emails, WriteTempFails(e) PROVE FileInv'
  <2>1. /\ pc[e] = "write" /\ pc' = [pc EXCEPT ![e] = "curl"] /\ CutText(e)
        /\ cut \subseteq cut' /\ e \in cut'
    BY <1>4 DEF WriteTempFails, SmtpGo, Goto
  <2>2. QED
    BY <2>1, CutTextFiles
<1>5. ASSUME NEW e \in Emails, KillStep(e) PROVE FileInv'
  <2>1. /\ pc[e] \in {"http", "write", "curl"} /\ pc' = [pc EXCEPT ![e] = "killed"]
        /\ UNCHANGED <<temp, linked, second, cut>>
        /\ UNCHANGED content \/ (pc[e] = "write" /\ CutText(e))
    BY <1>5, KillKind
  <2>2. CASE UNCHANGED content
    <3>1. ASSUME NEW f \in Emails
          PROVE  /\ BeforeFile(f)' => BeforeFile(f)
                 /\ HasFile(f)' => HasFile(f)
                 /\ pc'[f] = "curl" => pc[f] = "curl"
                 /\ Shared(f)' <=> Shared(f)
      BY <2>1 DEF BeforeFile, HasFile, Shared, TypeOK
    <3>2. QED
      BY <2>1, <2>2, <3>1 DEF FileInv
  <2>3. CASE pc[e] = "write" /\ CutText(e)
    BY <2>1, <2>3, CutTextFiles
  <2>4. QED
    BY <2>1, <2>2, <2>3
<1>6. QED
  BY <1>1, <1>2, <1>3, <1>4, <1>5, OpenTempFiles, WriteTempFiles, UnlinkTempFiles, FileKind

LEMMA TextStep ==
  ASSUME TypeOK, StageInv, FileInv, TextInv, [Next]_vars
  PROVE  TextInv'
<1> SUFFICES ASSUME NEW f \in Emails, NEW i \in DOMAIN copies'[f]
             PROVE  TextFits(f, copies[f][i].text)'
  BY DEF TextInv
<1>1. CASE i \in DOMAIN copies[f] /\ copies'[f][i] = copies[f][i]
  <2>1. copies[f] \in Seq(Copies)
    BY DEF TypeOK
  <2>2. copies[f][i] \in Copies
    BY <1>1, <2>1
  <2>3. PICK text \in SUBSET Emails : text = copies[f][i].text
    BY <2>2 DEF Copies
  <2>4. TextFits(f, text)
    BY <1>1, <2>3 DEF TextInv
  <2>5. TextFits(f, text)'
    BY <2>4, FitsStays
  <2>6. QED
    BY <1>1, <2>3, <2>5 DEF TextFits
<1>2. ASSUME NEW e \in Emails, via[e] \in Supported,
             Take(e, via[e], Body(via[e], Mail[e]), {e})
      PROVE  \/ i \in DOMAIN copies[f] /\ copies'[f][i] = copies[f][i]
             \/ copies'[f][i].text = {f}
  <2>1. Body(via[e], Mail[e]) \in Bodies(Addresses)
    BY <1>2, BodyRecipients, SendingAssumption
  <2>2. {e} \in SUBSET Emails /\ via[e] \in Supported \cup {"smtp"}
    BY <1>2
  <2>3. QED
    BY <1>2, <2>1, <2>2, OldOrNewCopy
<1>3. CASE copies'[f][i].text = {f}
  BY <1>3 DEF TextFits
<1>4. ASSUME NEW e \in Emails, CurlTakes(e), UNCHANGED <<content, temp, second, cut>>
      PROVE  \/ i \in DOMAIN copies[f] /\ copies'[f][i] = copies[f][i]
             \/ TextFits(f, copies[f][i].text)'
  <2>1. /\ pc[e] = "curl" /\ UNCHANGED <<content, temp, second, cut>>
        /\ Take(e, "smtp", SmtpBody(Given(e)), content[temp[e]])
    BY <1>4 DEF CurlTakes
  <2>2. SmtpBody(Given(e)) \in Bodies(Addresses) /\ content[temp[e]] \in SUBSET Emails
    BY SmtpRecipients DEF TypeOK
  <2>3. \/ i \in DOMAIN copies[f] /\ copies'[f][i] = copies[f][i]
        \/ f = e /\ copies'[f][i].text = content[temp[e]]
    BY <2>1, <2>2, OldOrNewCopy
  <2>4. second[e] = temp[e] /\ temp[e] \in 0..MaxTime /\ second[e] # MaxTime + 1
    <3>1. second[e] = temp[e] /\ temp[e] \in 0..MaxTime
      BY <2>1 DEF FileInv, HasFile, TypeOK
    <3>2. QED
      BY <3>1, SendingAssumption
  <2>5. TextFits(e, content[temp[e]])
    BY <2>1, <2>4 DEF TextFits, FileInv
  <2>6. TextFits(e, content[temp[e]])'
    BY <2>1, <2>5 DEF TextFits, Shared
  <2>7. QED
    BY <2>1, <2>3, <2>6 DEF TextFits, Shared
<1>5. UNCHANGED copies => i \in DOMAIN copies[f] /\ copies'[f][i] = copies[f][i]
  OBVIOUS
<1>6. QED
  BY <1>1, <1>2, <1>3, <1>4, <1>5, CopiesFrame

\* A copy has the text of another email only if both calls created their temporary
\* files within the same second, and lacks its own only then or if the text could
\* not be written whole.
THEOREM TextsMixWithinSecond == Spec => []TextWithinSecond
<1>1. Init => FileInv /\ TextInv
  <2> SUFFICES ASSUME Init PROVE FileInv /\ TextInv
    OBVIOUS
  <2>1. FileInv
    BY DEF Init, FileInv, BeforeFile, HasFile
  <2>2. \A e \in Emails : DOMAIN copies[e] = {}
    BY DEF Init
  <2>3. QED
    BY <2>1, <2>2 DEF TextInv
<1>2. TypeOK /\ StageInv /\ FileInv /\ TextInv /\ [Next]_vars => FileInv' /\ TextInv'
  BY FileStep, TextStep
<1>3. FileInv /\ TextInv => TextWithinSecond
  BY DEF TextInv, TextFits, Shared, TextWithinSecond
<1>4. QED
  BY <1>1, <1>2, <1>3, StageAlways, PTL DEF Spec

(***************************************************************************)
(* Statistics                                                              *)
(***************************************************************************)
\* The calls that the counters stand for.
SmtpOk(e) == caller[e] \in Unified /\ via[e] = "smtp" /\ outcome[e] = "ok"
ApiOk(e) == caller[e] \in Unified /\ via[e] \in Supported /\ outcome[e] = "ok"
SmtpFailed(e) == caller[e] \in Unified /\ via[e] = "smtp" /\ outcome[e] = "failed"
FellBack(e) == caller[e] = "AUTO" /\ via[e] = "smtp" /\ pc[e] # "idle"
ApiMissed(e) ==
  FellBack(e) \/ (caller[e] \in Unified /\ via[e] \in Supported /\ outcome[e] = "failed")

StatsInv ==
  /\ stats["smtp_success"] = Cardinality({e \in Emails : SmtpOk(e)})
  /\ stats["api_success"] = Cardinality({e \in Emails : ApiOk(e)})
  /\ stats["smtp_failure"] <= Cardinality({e \in Emails : SmtpFailed(e)})
  /\ fallback => stats["fallbacks"] = Cardinality({e \in Emails : FellBack(e)})
  /\ stats["api_failure"] <= Cardinality({e \in Emails : ApiMissed(e)})

\* What a step of the call of e has to do to the counters.
Counted(e) ==
  /\ \A f \in Emails \ {e} : /\ pc'[f] = pc[f] /\ caller'[f] = caller[f]
                             /\ via'[f] = via[f] /\ outcome'[f] = outcome[f]
  /\ UNCHANGED fallback /\ stats' \in [Counters -> Nat]
  /\ SmtpOk(e) => SmtpOk(e)'
  /\ ApiOk(e) => ApiOk(e)'
  /\ SmtpFailed(e) => SmtpFailed(e)'
  /\ FellBack(e) => FellBack(e)'
  /\ ApiMissed(e) => ApiMissed(e)'
  /\ stats'["smtp_success"] = stats["smtp_success"] + (IF SmtpOk(e)' /\ ~SmtpOk(e) THEN 1 ELSE 0)
  /\ stats'["api_success"] = stats["api_success"] + (IF ApiOk(e)' /\ ~ApiOk(e) THEN 1 ELSE 0)
  /\ stats'["smtp_failure"] <= stats["smtp_failure"]
                                 + (IF SmtpFailed(e)' /\ ~SmtpFailed(e) THEN 1 ELSE 0)
  /\ fallback => stats'["fallbacks"] = stats["fallbacks"]
                                         + (IF FellBack(e)' /\ ~FellBack(e) THEN 1 ELSE 0)
  /\ stats'["api_failure"] <= stats["api_failure"]
                                + (IF ApiMissed(e)' /\ ~ApiMissed(e) THEN 1 ELSE 0)

\* The size of a set that at most one given member joins.
LEMMA OneJoins ==
  ASSUME NEW A \in SUBSET Emails, NEW B \in SUBSET Emails, NEW e \in Emails,
         \A f \in Emails \ {e} : f \in B <=> f \in A, e \in A => e \in B
  PROVE  /\ Cardinality(A) \in Nat
         /\ Cardinality(B) = Cardinality(A) + (IF e \in B /\ e \notin A THEN 1 ELSE 0)
<1>1. IsFiniteSet(A)
  BY SendingAssumption, FS_Subset
<1>2. Cardinality(A) \in Nat
  BY <1>1, FS_CardinalityType
<1>3. CASE e \in B /\ e \notin A
  <2>1. B = A \cup {e}
    BY <1>3
  <2>2. QED
    BY <1>1, <1>2, <1>3, <2>1, FS_AddElement
<1>4. CASE ~(e \in B /\ e \notin A)
  <2>1. B = A
    BY <1>4
  <2>2. QED
    BY <1>2, <1>4, <2>1
<1>5. QED
  BY <1>3, <1>4

LEMMA CountedStep ==
  ASSUME TypeOK, StatsInv, NEW e \in Emails, Counted(e)
  PROVE  StatsInv'
<1> DEFINE A1 == {f \in Emails : SmtpOk(f)}
           A2 == {f \in Emails : ApiOk(f)}
           A3 == {f \in Emails : SmtpFailed(f)}
           A4 == {f \in Emails : FellBack(f)}
           A5 == {f \in Emails : ApiMissed(f)}
<1>1. \A f \in Emails \ {e} : /\ SmtpOk(f)' <=> SmtpOk(f)
                              /\ ApiOk(f)' <=> ApiOk(f)
                              /\ SmtpFailed(f)' <=> SmtpFailed(f)
                              /\ FellBack(f)' <=> FellBack(f)
                              /\ ApiMissed(f)' <=> ApiMissed(f)
  BY DEF Counted, SmtpOk, ApiOk, SmtpFailed, FellBack, ApiMissed
<1>2. \A c \in Counters : stats[c] \in Nat /\ stats'[c] \in Nat
  BY DEF TypeOK, Counted
<1>3. /\ Cardinality(A1) \in Nat
      /\ Cardinality(A1') = Cardinality(A1) + (IF SmtpOk(e)' /\ ~SmtpOk(e) THEN 1 ELSE 0)
  <2>1. A1 \in SUBSET Emails /\ A1' \in SUBSET Emails
    OBVIOUS
  <2>2. e \in A1 => e \in A1'
    BY DEF Counted
  <2>3. \A f \in Emails \ {e} : f \in A1' <=> f \in A1
    BY <1>1
  <2>4. QED
    BY <2>1, <2>2, <2>3, OneJoins
<1>4. /\ Cardinality(A2) \in Nat
      /\ Cardinality(A2') = Cardinality(A2) + (IF ApiOk(e)' /\ ~ApiOk(e) THEN 1 ELSE 0)
  <2>1. A2 \in SUBSET Emails /\ A2' \in SUBSET Emails
    OBVIOUS
  <2>2. e \in A2 => e \in A2'
    BY DEF Counted
  <2>3. \A f \in Emails \ {e} : f \in A2' <=> f \in A2
    BY <1>1
  <2>4. QED
    BY <2>1, <2>2, <2>3, OneJoins
<1>5. /\ Cardinality(A3) \in Nat
      /\ Cardinality(A3') = Cardinality(A3) + (IF SmtpFailed(e)' /\ ~SmtpFailed(e) THEN 1 ELSE 0)
  <2>1. A3 \in SUBSET Emails /\ A3' \in SUBSET Emails
    OBVIOUS
  <2>2. e \in A3 => e \in A3'
    BY DEF Counted
  <2>3. \A f \in Emails \ {e} : f \in A3' <=> f \in A3
    BY <1>1
  <2>4. QED
    BY <2>1, <2>2, <2>3, OneJoins
<1>6. /\ Cardinality(A4) \in Nat
      /\ Cardinality(A4') = Cardinality(A4) + (IF FellBack(e)' /\ ~FellBack(e) THEN 1 ELSE 0)
  <2>1. A4 \in SUBSET Emails /\ A4' \in SUBSET Emails
    OBVIOUS
  <2>2. e \in A4 => e \in A4'
    BY DEF Counted
  <2>3. \A f \in Emails \ {e} : f \in A4' <=> f \in A4
    BY <1>1
  <2>4. QED
    BY <2>1, <2>2, <2>3, OneJoins
<1>7. /\ Cardinality(A5) \in Nat
      /\ Cardinality(A5') = Cardinality(A5) + (IF ApiMissed(e)' /\ ~ApiMissed(e) THEN 1 ELSE 0)
  <2>1. A5 \in SUBSET Emails /\ A5' \in SUBSET Emails
    OBVIOUS
  <2>2. e \in A5 => e \in A5'
    BY DEF Counted
  <2>3. \A f \in Emails \ {e} : f \in A5' <=> f \in A5
    BY <1>1
  <2>4. QED
    BY <2>1, <2>2, <2>3, OneJoins
<1>8. /\ stats["smtp_success"] = Cardinality(A1)
      /\ stats["api_success"] = Cardinality(A2)
      /\ stats["smtp_failure"] <= Cardinality(A3)
      /\ fallback => stats["fallbacks"] = Cardinality(A4)
      /\ stats["api_failure"] <= Cardinality(A5)
  BY DEF StatsInv
<1> HIDE DEF A1, A2, A3, A4, A5
<1>9. stats'["smtp_success"] = Cardinality(A1')
  BY <1>3, <1>8 DEF Counted
<1>10. stats'["api_success"] = Cardinality(A2')
  BY <1>4, <1>8 DEF Counted
<1>11. stats'["smtp_failure"] <= Cardinality(A3')
  BY <1>2, <1>5, <1>8 DEF Counted, Counters
<1>12. fallback' => stats'["fallbacks"] = Cardinality(A4')
  BY <1>6, <1>8 DEF Counted
<1>13. stats'["api_failure"] <= Cardinality(A5')
  BY <1>2, <1>7, <1>8 DEF Counted, Counters
<1>14. QED
  BY <1>9, <1>10, <1>11, <1>12, <1>13 DEF StatsInv, A1, A2, A3, A4, A5

\* A call that has not ended is in no count, but for its having fallen back.
LEMMA NotYetCounted ==
  ASSUME TypeOK, StageInv, NEW e \in Emails, pc[e] # "done"
  PROVE  /\ ~SmtpOk(e) /\ ~ApiOk(e) /\ ~SmtpFailed(e)
         /\ ApiMissed(e) <=> FellBack(e)
         /\ pc[e] \in {"idle", "http"} => ~FellBack(e)
<1>1. outcome[e] = "none"
  BY DEF StageInv
<1>2. pc[e] = "http" => via[e] # "smtp"
  BY ProviderTypes DEF StageInv, Stage
<1>3. QED
  BY <1>1, <1>2 DEF SmtpOk, ApiOk, SmtpFailed, ApiMissed, FellBack

\* What updateStats() does to each counter.
LEMMA Increments ==
  ASSUME TypeOK, NEW how, NEW counters, updateStats(how, counters)
  PROVE  /\ stats' \in [Counters -> Nat]
         /\ \A c \in Counters : /\ stats[c] \in Nat
                               /\ stats'[c] = stats[c]
                                    + (IF how \in Unified /\ c \in counters THEN 1 ELSE 0)
<1>1. \A c \in Counters : stats[c] \in Nat
  BY DEF TypeOK
<1>2. CASE how \in Unified
  BY <1>1, <1>2 DEF updateStats
<1>3. CASE how \notin Unified
  BY <1>1, <1>3 DEF updateStats, TypeOK
<1>4. QED
  BY <1>1, <1>2, <1>3

\* The conditions on the counters when the call has not been counted yet, in terms
\* of what the step makes of it.
LEMMA CountedFromFacts ==
  ASSUME TypeOK, StageInv, NEW e \in Emails, pc[e] # "done",
         \A f \in Emails \ {e} : /\ pc'[f] = pc[f] /\ caller'[f] = caller[f]
                                /\ via'[f] = via[f] /\ outcome'[f] = outcome[f],
         UNCHANGED fallback, stats' \in [Counters -> Nat],
         FellBack(e) => FellBack(e)',
         stats'["smtp_success"] = stats["smtp_success"] + (IF SmtpOk(e)' THEN 1 ELSE 0),
         stats'["api_success"] = stats["api_success"] + (IF ApiOk(e)' THEN 1 ELSE 0),
         stats'["smtp_failure"] <= stats["smtp_failure"] + (IF SmtpFailed(e)' THEN 1 ELSE 0),
         fallback => stats'["fallbacks"] = stats["fallbacks"]
                       + (IF FellBack(e)' /\ ~FellBack(e) THEN 1 ELSE 0),
         stats'["api_failure"] <= stats["api_failure"]
           + (IF ApiMissed(e)' /\ ~FellBack(e) THEN 1 ELSE 0)
  PROVE  Counted(e)
<1>1. /\ ~SmtpOk(e) /\ ~ApiOk(e) /\ ~SmtpFailed(e)
      /\ ApiMissed(e) <=> FellBack(e)
  BY NotYetCounted
<1>2. FellBack(e)' => ApiMissed(e)'
  BY DEF ApiMissed
<1>3. QED
  BY <1>1, <1>2 DEF Counted

\* Before the SMTP client.
LEMMA StartCounted ==
  ASSUME TypeOK, StageInv, NEW e \in Emails, NEW how \in {"API", "AUTO"},
         Send(e) \/ SendSMTP(e) \/ \E p \in Supported : Request(e, how, p)
  PROVE  Counted(e)
<1>1. /\ pc[e] = "idle" /\ outcome[e] = "none"
      /\ pc' = [pc EXCEPT ![e] = "http"] \/ pc' = [pc EXCEPT ![e] = "smtp"]
           \/ pc' = [pc EXCEPT ![e] = "done"]
      /\ UNCHANGED fallback /\ UNCHANGED stats
  BY DEF Send, SendSMTP, Request, Call, sendViaSMTP, Goto, Return, configVars,
         StageInv
<1>2. \E c \in Callers, v \in {"smtp"} \cup Supported, o \in {"none", "failed"} :
        /\ caller' = [caller EXCEPT ![e] = c] /\ via' = [via EXCEPT ![e] = v]
        /\ outcome' = [outcome EXCEPT ![e] = o]
        /\ c = "AUTO" => v \in Supported
        /\ v \in Supported => o = "none"
  <2>1. outcome = [outcome EXCEPT ![e] = "none"]
    BY <1>1 DEF TypeOK
  <2>2. CASE Send(e)
    BY <2>1, <2>2, ProviderTypes DEF Send, Call, Via, Goto, Callers
  <2>3. CASE SendSMTP(e)
    BY <2>1, <2>3, ProviderTypes DEF SendSMTP, sendViaSMTP, Call, Via, Goto, Return, Callers, Unified
  <2>4. CASE \E p \in Supported : Request(e, how, p)
    BY <2>1, <2>4 DEF Request, Call, Via, Goto, Callers, Unified
  <2>5. QED
    BY <2>2, <2>3, <2>4
<1>3. /\ \A f \in Emails \ {e} : /\ pc'[f] = pc[f] /\ caller'[f] = caller[f]
                                /\ via'[f] = via[f] /\ outcome'[f] = outcome[f]
      /\ ~SmtpOk(e)' /\ ~ApiOk(e)' /\ ~FellBack(e)' /\ ~ApiMissed(e)'
  BY <1>1, <1>2, ProviderTypes DEF TypeOK, SmtpOk, ApiOk, FellBack, ApiMissed
<1>4. ~FellBack(e)
  BY <1>1, NotYetCounted
<1>5. \A c \in Counters : stats[c] \in Nat
  BY DEF TypeOK
<1>6. stats' \in [Counters -> Nat]
  BY <1>1 DEF TypeOK
<1>7. QED
  BY <1>1, <1>3, <1>4, <1>5, <1>6, CountedFromFacts DEF Counters

LEMMA ApiFailedCounted ==
  ASSUME TypeOK, StageInv, NEW e \in Emails, NEW how \in {"API", "AUTO"},
         NEW counted \in SUBSET {"api_failure"}, ApiFailed(e, how, counted),
         pc[e] \in {"idle", "http"}, pc[e] = "idle" => counted = {},
         \A f \in Emails \ {e} : caller'[f] = caller[f], caller'[e] = how,
         UNCHANGED fallback
  PROVE  Counted(e)
<1>1. ~FellBack(e)
  BY NotYetCounted
<1>2. pc[e] = "http" => via[e] \in Supported
  BY DEF StageInv, Stage
<1>3. outcome[e] = "none" /\ (pc[e] = "idle" => via[e] = "none")
  BY DEF StageInv, Stage
<1>4. CASE how = "AUTO" /\ fallback
  <2>1. sendViaSMTP(e) /\ updateStats(how, counted \cup {"fallbacks"})
    BY <1>4 DEF ApiFailed
  <2>2. /\ \A f \in Emails \ {e} : pc'[f] = pc[f] /\ via'[f] = via[f] /\ outcome'[f] = outcome[f]
        /\ via'[e] = "smtp" /\ pc'[e] # "idle" /\ outcome'[e] # "ok"
    BY <1>3, <2>1 DEF sendViaSMTP, Via, Goto, Return, TypeOK
  <2>3. FellBack(e)' /\ ~SmtpOk(e)' /\ ~ApiOk(e)' /\ ApiMissed(e)'
    BY <1>4, <2>2 DEF FellBack, SmtpOk, ApiOk, ApiMissed
  <2>4. how \in Unified
    BY DEF Unified
  <2>5. /\ stats' \in [Counters -> Nat]
        /\ \A c \in Counters : stats[c] \in Nat
        /\ stats'["smtp_success"] = stats["smtp_success"]
        /\ stats'["api_success"] = stats["api_success"]
        /\ stats'["smtp_failure"] = stats["smtp_failure"]
        /\ stats'["fallbacks"] = stats["fallbacks"] + 1
        /\ stats'["api_failure"] <= stats["api_failure"] + 1
    BY <2>1, <2>4, Increments DEF Counters
  <2>6. QED
    BY <1>1, <2>2, <2>3, <2>5, CountedFromFacts DEF Counters
<1>5. CASE ~(how = "AUTO" /\ fallback)
  <2>1. Return(e, "failed") /\ updateStats(how, counted) /\ UNCHANGED via
    BY <1>5 DEF ApiFailed
  <2>2. /\ \A f \in Emails \ {e} : pc'[f] = pc[f] /\ via'[f] = via[f] /\ outcome'[f] = outcome[f]
        /\ via'[e] = via[e] /\ outcome'[e] = "failed"
    BY <2>1 DEF Return, TypeOK
  <2>3. ~SmtpOk(e)' /\ ~ApiOk(e)'
    BY <2>2 DEF SmtpOk, ApiOk
  <2>4. ~FellBack(e)' /\ (counted # {} => ApiMissed(e)')
    BY <1>2, <1>3, <2>2, ProviderTypes DEF FellBack, ApiMissed, Unified
  <2>5. /\ stats' \in [Counters -> Nat]
        /\ \A c \in Counters : stats[c] \in Nat
        /\ stats'["smtp_success"] = stats["smtp_success"]
        /\ stats'["api_success"] = stats["api_success"]
        /\ stats'["smtp_failure"] = stats["smtp_failure"]
        /\ stats'["fallbacks"] = stats["fallbacks"]
        /\ stats'["api_failure"] <= stats["api_failure"] + (IF counted # {} THEN 1 ELSE 0)
    BY <2>1, Increments DEF Counters
  <2>6. QED
    BY <1>1, <2>2, <2>3, <2>4, <2>5, CountedFromFacts DEF Counters
<1>6. QED
  BY <1>4, <1>5

LEMMA UnifiedCounted ==
  ASSUME TypeOK, StageInv, NEW e \in Emails, UnifiedStep(e)
  PROVE  Counted(e)
<1>1. ASSUME NEW how \in {"API", "AUTO"}, Call(e, how), ApiFailed(e, how, {})
      PROVE  Counted(e)
  <2>1. /\ ApiFailed(e, how, {}) /\ pc[e] = "idle" /\ UNCHANGED fallback
        /\ caller' = [caller EXCEPT ![e] = how]
    BY <1>1 DEF Call, configVars
  <2>2. QED
    BY <2>1, ApiFailedCounted DEF TypeOK
<1>2. ASSUME NEW reply \in Replies, ApiReply(e, reply) PROVE Counted(e)
  <2>1. /\ pc[e] = "http" /\ UNCHANGED <<fallback, caller>>
        /\ via[e] \in Supported /\ caller[e] \in {"API", "AUTO"}
    BY <1>2 DEF ApiReply, configVars, StageInv, Stage
  <2>2. CASE Succeeds(via[e], reply)
    <3>1. Return(e, "ok") /\ updateStats(caller[e], {"api_success"}) /\ UNCHANGED via
      BY <1>2, <2>2 DEF ApiReply
    <3>2. /\ \A f \in Emails \ {e} : pc'[f] = pc[f] /\ outcome'[f] = outcome[f]
          /\ via'[e] = via[e] /\ outcome'[e] = "ok" /\ caller[e] \in Unified
      BY <2>1, <3>1 DEF Return, TypeOK, Unified
    <3>3. ApiOk(e)' /\ ~SmtpOk(e)' /\ ~FellBack(e)'
      BY <2>1, <3>1, <3>2, ProviderTypes DEF ApiOk, SmtpOk, FellBack
    <3>4. ~FellBack(e)
      BY <2>1, NotYetCounted
    <3>5. /\ stats' \in [Counters -> Nat]
          /\ \A c \in Counters : stats[c] \in Nat
          /\ stats'["smtp_success"] = stats["smtp_success"]
          /\ stats'["api_success"] = stats["api_success"] + 1
          /\ stats'["smtp_failure"] = stats["smtp_failure"]
          /\ stats'["fallbacks"] = stats["fallbacks"]
          /\ stats'["api_failure"] = stats["api_failure"]
      BY <3>1, <3>2, Increments DEF Counters
    <3>6. QED
      BY <2>1, <3>1, <3>2, <3>3, <3>4, <3>5, CountedFromFacts DEF Counters
  <2>3. CASE ~Succeeds(via[e], reply)
    <3>1. ApiFailed(e, caller[e], {"api_failure"})
      BY <1>2, <2>3 DEF ApiReply
    <3>2. QED
      BY <2>1, <3>1, ApiFailedCounted
  <2>4. QED
    BY <2>2, <2>3
<1>3. QED
  BY <1>1, <1>2, CallKind, StartCounted DEF UnifiedStep

\* In the SMTP client, and when the process is killed.
LEMMA SmtpCounted ==
  ASSUME TypeOK, StageInv, NEW e \in Emails, SmtpStep(e) \/ KillStep(e)
  PROVE  Counted(e)
<1>1. CASE \/ FindDomain(e) \/ OpenTemp(e) \/ WriteTemp(e) \/ WriteTempFails(e) \/ Curl(e)
           \/ KillStep(e)
  <2>1. /\ pc[e] \in {"smtp", "open", "write", "curl", "http"}
        /\ \E to \in {"open", "write", "curl", "unlink", "killed"} : pc' = [pc EXCEPT ![e] = to]
        /\ UNCHANGED <<fallback, caller, via, outcome, stats>>
    BY <1>1, KillKind DEF FindDomain, OpenTemp, WriteTemp, WriteTempFails, Curl, SmtpGo, Goto, configVars
  <2>2. /\ \A f \in Emails \ {e} : pc'[f] = pc[f]
        /\ FellBack(e)' <=> FellBack(e)
        /\ SmtpOk(e)' <=> SmtpOk(e)
        /\ ApiOk(e)' <=> ApiOk(e)
        /\ pc[e] # "done"
    BY <2>1 DEF FellBack, SmtpOk, ApiOk, TypeOK
  <2>3. ~SmtpOk(e)' /\ ~ApiOk(e)'
    BY <2>2, NotYetCounted
  <2>4. \A c \in Counters : stats[c] \in Nat
    BY DEF TypeOK
  <2>5. stats' \in [Counters -> Nat]
    BY <2>1 DEF TypeOK
  <2>6. QED
    BY <2>1, <2>2, <2>3, <2>4, <2>5, CountedFromFacts DEF Counters
<1>2. ASSUME NEW result \in {"ok", "failed"}, Return(e, result),
             updateStats(caller[e], IF result = "ok" THEN {"smtp_success"} ELSE {"smtp_failure"}),
             UNCHANGED <<configVars, caller, via>>,
             pc[e] \in {"smtp", "open", "unlink"}
      PROVE  Counted(e)
  <2>1. via[e] = "smtp"
    BY <1>2 DEF StageInv, Stage
  <2>2. /\ \A f \in Emails \ {e} : pc'[f] = pc[f] /\ outcome'[f] = outcome[f]
        /\ pc'[e] = "done" /\ outcome'[e] = result
    BY <1>2 DEF Return, TypeOK
  <2>3. /\ FellBack(e)' <=> FellBack(e)
        /\ SmtpOk(e)' <=> caller[e] \in Unified /\ result = "ok"
        /\ SmtpFailed(e)' <=> caller[e] \in Unified /\ result = "failed"
        /\ ~ApiOk(e)'
    BY <1>2, <2>1, <2>2, ProviderTypes DEF FellBack, SmtpOk, SmtpFailed, ApiOk
  <2>4. /\ stats' \in [Counters -> Nat]
        /\ \A c \in Counters : stats[c] \in Nat
        /\ stats'["smtp_success"] = stats["smtp_success"]
              + (IF caller[e] \in Unified /\ result = "ok" THEN 1 ELSE 0)
        /\ stats'["api_success"] = stats["api_success"]
        /\ stats'["smtp_failure"] = stats["smtp_failure"]
              + (IF caller[e] \in Unified /\ result = "failed" THEN 1 ELSE 0)
        /\ stats'["fallbacks"] = stats["fallbacks"]
        /\ stats'["api_failure"] = stats["api_failure"]
    BY <1>2, Increments DEF Counters
  <2>5. UNCHANGED <<fallback, caller, via>> /\ pc[e] # "done"
    BY <1>2 DEF configVars
  <2>6. QED
    BY <2>2, <2>3, <2>4, <2>5, CountedFromFacts DEF Counters
<1>3. CASE NoDomain(e) \/ OpenTempFails(e)
  BY <1>2, <1>3 DEF NoDomain, OpenTempFails, SmtpFails
<1>4. CASE UnlinkTemp(e)
  BY <1>2, <1>4 DEF UnlinkTemp
<1>5. QED
  BY <1>1, <1>3, <1>4 DEF SmtpStep

\* Every success is counted once, with its transport, and so is each fallback; no
\* failure is counted twice.
THEOREM CountsMatchResults == Spec => []StatisticsAgree
<1>1. Init => StatsInv
  <2> SUFFICES ASSUME Init PROVE StatsInv
    OBVIOUS
  <2>1. /\ {e \in Emails : SmtpOk(e)} = {} /\ {e \in Emails : ApiOk(e)} = {}
        /\ {e \in Emails : SmtpFailed(e)} = {} /\ {e \in Emails : FellBack(e)} = {}
        /\ {e \in Emails : ApiMissed(e)} = {}
    BY DEF Init, SmtpOk, ApiOk, SmtpFailed, FellBack, ApiMissed
  <2>2. Cardinality({}) = 0 /\ \A c \in Counters : stats[c] = 0
    BY FS_EmptySet DEF Init
  <2>3. QED
    BY <2>1, <2>2 DEF StatsInv, Counters
<1>2. TypeOK /\ StageInv /\ StatsInv /\ [Next]_vars => StatsInv'
  <2> SUFFICES ASSUME TypeOK, StageInv, StatsInv, [Next]_vars PROVE StatsInv'
    OBVIOUS
  <2>1. ASSUME NEW e \in Emails, Send(e) \/ UnifiedStep(e) \/ SmtpStep(e) \/ KillStep(e)
        PROVE  StatsInv'
    BY <2>1, StartCounted, UnifiedCounted, SmtpCounted, CountedStep
  <2>2. ASSUME (\E p \in Range(Keys) : setAPIConfig(p) \/ removeAPIConfig(p)) \/ NextSecond
                 \/ UNCHANGED vars
        PROVE  StatsInv'
    <3>1. UNCHANGED <<fallback, pc, caller, via, outcome, stats>>
      BY <2>2 DEF setAPIConfig, removeAPIConfig, Reconfigure, NextSecond, vars, callVars, configVars
    <3>2. QED
      BY <3>1 DEF StatsInv, SmtpOk, ApiOk, SmtpFailed, FellBack, ApiMissed
  <2>3. QED
    BY <2>1, <2>2 DEF Next
<1>3. StatsInv => StatisticsAgree
  <2> SUFFICES ASSUME StatsInv PROVE StatisticsAgree
    OBVIOUS
  <2>1. {e \in Emails : SmtpOk(e)}
          = {e \in Emails : caller[e] \in Unified /\ via[e] \in {"smtp"} /\ outcome[e] = "ok"}
    BY DEF SmtpOk
  <2>2. {e \in Emails : SmtpFailed(e)}
          = {e \in Emails : caller[e] \in Unified /\ via[e] \in {"smtp"} /\ outcome[e] = "failed"}
    BY DEF SmtpFailed
  <2>3. {e \in Emails : ApiMissed(e)}
          = {e \in Emails : caller[e] = "AUTO" /\ via[e] = "smtp" /\ pc[e] # "idle"}
            \cup {e \in Emails : caller[e] \in Unified /\ via[e] \in Supported /\ outcome[e] = "failed"}
    BY DEF ApiMissed, FellBack
  <2>4. QED
    BY <2>1, <2>2, <2>3 DEF StatsInv, StatisticsAgree, ApiOk, FellBack
<1>4. QED
  BY <1>1, <1>2, <1>3, StageAlways, PTL DEF Spec

=============================================================================
