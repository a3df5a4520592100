------------------------------ MODULE MCSending ------------------------------
\* An instance of Sending for TLC: two emails with different recipients and
\* parts, and two providers whose requests and replies differ.
EXTENDS Sending

CONSTANTS e1, e2, ann, bob, cat

MCMail == [e \in Emails |->
  IF e = e1 THEN [to |-> <<ann, bob>>, cc |-> <<cat>>, bcc |-> <<>>, html |-> TRUE, files |-> TRUE]
  ELSE [to |-> <<ann>>, cc |-> <<>>, bcc |-> <<bob>>, html |-> FALSE, files |-> FALSE]]

MCKeys == <<"mailgun", "postmark">>

\* The first provider may be set without its secrets.
MCSettings == [p \in Range(MCKeys) |->
  {Needs(p)} \cup (IF p = MCKeys[1] THEN {{"base_url", "sender_email"}} ELSE {})]

=============================================================================
