SPECIFICATION Spec
CONSTANTS
    Client = {c1, c2}
    Mailbox = {mb1, mb2}
    Size = {1}
    Cap = 1
    MaxSize = 2
    MaxIndex = 2
    Idle = Idle
CHECK_DEADLOCK FALSE
INVARIANT
    MailboxesSound
PROPERTY
    ImplementsMailStore
