------------------------------ MODULE Providers ------------------------------
(***************************************************************************)
(* The email as the transports see it: what the request body of each API   *)
(* provider, the curl command of the SMTP client and the queue's copy take *)
(* from an Email, which configuration each API client needs, and how it    *)
(* turns the answer of the provider into a result.                         *)
(*                                                                         *)
(* A body is abstracted to the addresses it names as recipients and to the *)
(* parts it carries; an attachment is carried by its name in every body.   *)
(***************************************************************************)
EXTENDS Naturals, Sequences, Functions

Fields == {"api_key", "api_secret", "base_url", "oauth2_token", "sender_email"}
PartNames == {"text", "html", "files"}

\* struct Email, without its sender and subject.
Mails(addresses) == [to : Seq(addresses), cc : Seq(addresses), bcc : Seq(addresses),
                     html : BOOLEAN, files : BOOLEAN]
Bodies(addresses) == [rcpt : SUBSET addresses, parts : SUBSET PartNames]

\* Email::getAllRecipients().
getAllRecipients(m) == Range(m.to) \cup Range(m.cc) \cup Range(m.bcc)

Written(m) == {"text"} \cup (IF m.html THEN {"html"} ELSE {})
AllParts(m) == Written(m) \cup (IF m.files THEN {"files"} ELSE {})

(***************************************************************************)
(* buildRequestBody() of the API clients                                   *)
(***************************************************************************)
SendGridBody(m)   == [rcpt |-> getAllRecipients(m), parts |-> AllParts(m)]
MailgunBody_NoBcc(m) == [rcpt |-> Range(m.to) \cup Range(m.cc), parts |-> Written(m)]
MailgunBody(m)    == [rcpt |-> getAllRecipients(m), parts |-> Written(m)]
AmazonSESBody(m)  == [rcpt |-> getAllRecipients(m), parts |-> Written(m)]
MailjetBody(m)    == [rcpt |-> getAllRecipients(m), parts |-> AllParts(m)]
FastmailBody(m)   == [rcpt |-> getAllRecipients(m), parts |-> AllParts(m)]
ZohoMailBody(m)   == [rcpt |-> getAllRecipients(m), parts |-> AllParts(m)]
ProtonMailBody(m) == [rcpt |-> getAllRecipients(m), parts |-> AllParts(m)]

\* The first To address, and all of Cc and Bcc.
PostmarkBody(m) ==
  [rcpt |-> {m.to[1]} \cup Range(m.cc) \cup Range(m.bcc), parts |-> AllParts(m)]

\* The first To address and nobody else.
SparkPostBody(m) == [rcpt |-> {m.to[1]}, parts |-> Written(m)]

(***************************************************************************)
(* isValid() of the API clients: the fields that must be configured and    *)
(* have no default (a sender address contains the domain Mailgun needs)    *)
(***************************************************************************)
SendGridNeeds   == {"api_key", "sender_email"}
MailgunNeeds    == {"api_key", "sender_email"}
AmazonSESNeeds  == {"api_key", "api_secret", "sender_email"}
MailjetNeeds    == {"api_key", "api_secret"}
PostmarkNeeds   == {"api_key"}
SparkPostNeeds  == {"api_key"}
FastmailNeeds   == {"base_url", "oauth2_token", "sender_email"}
ZohoMailNeeds   == {"base_url", "oauth2_token", "sender_email"}
ProtonMailNeeds == {"base_url", "oauth2_token", "sender_email"}

(***************************************************************************)
(* sendEmail() of the API clients, once the request has been made          *)
(***************************************************************************)
\* What becomes of a request: the provider has taken the email, the client
\* has seen a 2xx status (sendRequest() found no transport error), and the
\* body of the answer is JSON of a shape the client does not expect.
Replies == {r \in [taken : BOOLEAN, ok : BOOLEAN, odd : BOOLEAN] :
              (r.ok => r.taken) /\ (r.odd => r.ok)}

\* These search the text of the answer for an id.
SendGridSucceeds(r)  == r.ok
MailgunSucceeds(r)   == r.ok
AmazonSESSucceeds(r) == r.ok

\* These parse it after they have noted the success, and an exception of the
\* JSON library takes the success back.
MailjetSucceeds(r)    == r.ok /\ ~r.odd
PostmarkSucceeds(r)   == r.ok /\ ~r.odd
SparkPostSucceeds(r)  == r.ok /\ ~r.odd
FastmailSucceeds(r)   == r.ok /\ ~r.odd
ZohoMailSucceeds(r)   == r.ok /\ ~r.odd
ProtonMailSucceeds(r) == r.ok /\ ~r.odd

(***************************************************************************)
(* APIClientFactory::createClient()                                        *)
(***************************************************************************)
Supported == {"sendgrid", "mailgun", "amazon_ses", "mailjet", "postmark",
              "sparkpost", "fastmail", "zoho_mail", "protonmail"}

Body(p, m) ==
  CASE p = "sendgrid"   -> SendGridBody(m)
    [] p = "mailgun"    -> MailgunBody(m)
    [] p = "amazon_ses" -> AmazonSESBody(m)
    [] p = "mailjet"    -> MailjetBody(m)
    [] p = "postmark"   -> PostmarkBody(m)
    [] p = "sparkpost"  -> SparkPostBody(m)
    [] p = "fastmail"   -> FastmailBody(m)
    [] p = "zoho_mail"  -> ZohoMailBody(m)
    [] p = "protonmail" -> ProtonMailBody(m)

Needs(p) ==
  CASE p = "sendgrid"   -> SendGridNeeds
    [] p = "mailgun"    -> MailgunNeeds
    [] p = "amazon_ses" -> AmazonSESNeeds
    [] p = "mailjet"    -> MailjetNeeds
    [] p = "postmark"   -> PostmarkNeeds
    [] p = "sparkpost"  -> SparkPostNeeds
    [] p = "fastmail"   -> FastmailNeeds
    [] p = "zoho_mail"  -> ZohoMailNeeds
    [] p = "protonmail" -> ProtonMailNeeds

Succeeds(p, r) ==
  CASE p = "sendgrid"   -> SendGridSucceeds(r)
    [] p = "mailgun"    -> MailgunSucceeds(r)
    [] p = "amazon_ses" -> AmazonSESSucceeds(r)
    [] p = "mailjet"    -> MailjetSucceeds(r)
    [] p = "postmark"   -> PostmarkSucceeds(r)
    [] p = "sparkpost"  -> SparkPostSucceeds(r)
    [] p = "fastmail"   -> FastmailSucceeds(r)
    [] p = "zoho_mail"  -> ZohoMailSucceeds(r)
    [] p = "protonmail" -> ProtonMailSucceeds(r)

(***************************************************************************)
(* The SMTP client and the queue                                           *)
(***************************************************************************)
\* The curl command names the To addresses only; the text has no attachment.
SmtpBody(m) == [rcpt |-> Range(m.to), parts |-> Written(m)]

\* A QueueItem has no Cc and no Bcc, so its callback sees none.
QueueCopy(m) == [m EXCEPT !.cc = <<>>, !.bcc = <<>>]

=============================================================================
