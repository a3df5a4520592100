------------------------------ MODULE MCWebhooks ------------------------------
\* An instance of Webhooks for TLC: requests of each provider, with arrays,
\* objects, unknown events and signatures of every kind.
EXTENDS Webhooks

MCRequests == {
  [provider |-> "sendgrid", signature |-> "right", form |-> "array", items |-> <<"delivered", "bounce">>],
  [provider |-> "sendgrid", signature |-> "absent", form |-> "array", items |-> <<"open", "object", "click">>],
  [provider |-> "sendgrid", signature |-> "wrong", form |-> "array", items |-> <<"delivered">>],
  [provider |-> "mailgun", signature |-> "wrong", form |-> "object", items |-> <<"failed">>],
  [provider |-> "mailgun", signature |-> "absent", form |-> "object", items |-> <<"object">>],
  [provider |-> "amazon ses", signature |-> "absent", form |-> "array", items |-> <<"Delivery">>],
  [provider |-> "another", signature |-> "absent", form |-> "array", items |-> <<"delivered">>]}

MCRegistrations == {<<"DELIVERED", "notes">>, <<"BOUNCED", "notes">>,
                    <<"BOUNCED", "fails">>, <<"BOUNCED", "reenters">>}

===============================================================================
