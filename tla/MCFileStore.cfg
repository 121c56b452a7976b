SPECIFICATION Spec
CONSTANTS
    None = None
    Torn = Torn
    Mailbox = {mb1, mb2}
    Parent <- Directories
    Cap = 2
    Width = 2
    MaxAdds = 3
    MaxTime = 1
    CanFail = TRUE
    CanCrash = TRUE
SYMMETRY Renaming
INVARIANTS
    DiskSound
    MailIsKept
    ScanComplete
PROPERTY
    ImplementsMailStore
