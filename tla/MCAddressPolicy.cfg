SPECIFICATION TextSpec
CONSTANTS
    Char <- MCChar
    Letter <- MCLetter
    Digit = {}
    Special <- MCSpecial
    NonAscii <- MCNonAscii
    Lower <- MCLower
    IPs <- MCIPs
    Domains <- MCDomains
    Patterns <- MCPatterns
    TextLen = 5
    MaxAddress = 10
    MaxLocal = 6
    MaxDomain = 4
    MaxLabel = 2
    DefaultAccept = TRUE
    AcceptDomains = {}
    RejectDomains <- Listed
    DefaultStore = FALSE
    StoreDomains <- Listed
    DiscardDomains = {}
CHECK_DEADLOCK FALSE
INVARIANTS
    QuotingSound
    MailIsFound
    DomainsJudged
