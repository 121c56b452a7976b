SPECIFICATION FairSpec
CONSTANTS
    user = user
    discarded = discarded
    refused = refused
    mbU = mbU
    mbD = mbD
    mbX = mbX
    None = None
    Sender = {s1, s2}
    Recipient = {user, discarded, refused}
    AcceptedOrigins = {s1}
    Accepts = {user, discarded}
    Stores = {user, refused}
    MailboxOf <- Mailboxes
    Overrides <- Redirects
    MaxRecipients = 2
    TLSEnabled = TRUE
    ForceTLS = FALSE
CHECK_DEADLOCK FALSE
INVARIANTS
    EnvelopeSound
    AnswerIsTrue
PROPERTY
    SessionEnds
