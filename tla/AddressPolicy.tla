---------------------------- MODULE AddressPolicy ----------------------------
(***************************************************************************)
(* Address policy, pkg/policy/address.go: how an address is split and      *)
(* unescaped, which domains pass, and which mailbox a message goes to, and *)
(* is looked up in, under each naming.  Pure functions: the state is the   *)
(* text a client types, one character at a time.  A text is a sequence of  *)
(* characters; the limits of the code are constants, so that small texts   *)
(* reach them.                                                             *)
(***************************************************************************)
EXTENDS Integers, Sequences, FiniteSets, SequencesExt

CONSTANTS
    Char,                  \* characters typed
    Letter, Digit,         \* a-z and A-Z, 0-9
    Special,               \* the characters !#$%&'*+-/=?^_`{|}~
    NonAscii,              \* bytes above 127
    Lower,                 \* strings.ToLower of one character
    IPs,                   \* texts that net.ParseIP takes
    Domains,               \* domain parts put behind the text
    Patterns,              \* patterns for sender domains, one configured at a time
    TextLen,               \* bound on what is typed
    MaxAddress, MaxLocal,  \* 320 and 128
    MaxDomain, MaxLabel,   \* 255 and 63
    DefaultAccept, AcceptDomains, RejectDomains, \* config.SMTP, as configured
    DefaultStore, StoreDomains, DiscardDomains

ASSUME PolicyAssumption ==
    /\ Letter \cup Digit \cup Special \cup NonAscii \subseteq Char
    /\ \A c \in {".", "\\", "\"", "@", "["} : c \notin Letter \cup Digit \cup Special \cup NonAscii
    /\ {"+", "-", "_"} \subseteq Special
    /\ \A c \in Special \cup {"*"} : c \notin Letter \cup Digit \cup NonAscii
    /\ NonAscii \cap (Letter \cup Digit) = {}
    /\ Char \cup {".", "\\", "\"", "@"} \subseteq DOMAIN Lower
    /\ \A c \in Letter : Lower[c] \in Letter
    /\ \A c \in DOMAIN Lower :
          /\ Lower[c] \in DOMAIN Lower /\ Lower[Lower[c]] = Lower[c]
          /\ Lower[c] # c => {c, Lower[c]} \subseteq Letter \cup NonAscii
    /\ IPs \subseteq Seq(Letter \cup Digit \cup {".", ":"})
    /\ Domains \subseteq Seq(Char \ {"@"})
    /\ Patterns \cup AcceptDomains \cup RejectDomains \cup StoreDomains \cup DiscardDomains
          \subseteq Seq(DOMAIN Lower)
    /\ {MaxAddress, MaxLocal, MaxDomain, MaxLabel, TextLen} \subseteq Nat
    /\ {DefaultAccept, DefaultStore} \subseteq BOOLEAN

Naming == {"local", "full", "domain"}

VARIABLE text

Err == [ok |-> FALSE]
ToLower(s) == [k \in DOMAIN s |-> Lower[s[k]]]

(* The first position of c in s, 0 when there is none.                     *)
IndexOf(s, c) ==
    IF \E k \in DOMAIN s : s[k] = c
    THEN CHOOSE k \in DOMAIN s : s[k] = c /\ \A j \in 1 .. k - 1 : s[j] # c
    ELSE 0

-----------------------------------------------------------------------------
(* Domains *)

(* What the loop over the characters of a domain knows.                    *)
LabelStart == [ok |-> TRUE, prev |-> ".", len |-> 0, alnum |-> FALSE]

(* Mutant: the length goes on counting behind a period.                    *)
LabelStep_LengthKept(s, c) ==
    CASE c \in Letter \cup Digit \cup {"_"} ->
            [s EXCEPT !.alnum = TRUE, !.len = @ + 1, !.prev = c]
      [] c = "-" -> [s EXCEPT !.ok = @ /\ s.prev \notin {".", "-"}, !.prev = c]
      [] c = "." -> [s EXCEPT !.ok = @ /\ s.prev \notin {".", "-"} /\ s.len <= MaxLabel /\ s.alnum,
                              !.alnum = FALSE, !.prev = c]
      [] OTHER -> [s EXCEPT !.ok = FALSE]

LabelStep(s, c) ==
    CASE c \in Letter \cup Digit \cup {"_"} ->
            [s EXCEPT !.alnum = TRUE, !.len = @ + 1, !.prev = c]
      [] c = "-" -> [s EXCEPT !.ok = @ /\ s.prev \notin {".", "-"}, !.prev = c]
      [] c = "." -> [LabelStart EXCEPT !.ok = s.ok /\ s.prev \notin {".", "-"}
                                              /\ s.len <= MaxLabel /\ s.alnum]
      [] OTHER -> [s EXCEPT !.ok = FALSE]

ValidateDomainPart(domain) ==
    LET n == Len(domain)
        prefix == <<"I", "P", "v", "6", ":">>
        body == IF n > 6 /\ SubSeq(domain, 2, 6) = prefix THEN SubSeq(domain, 7, n - 1)
                ELSE SubSeq(domain, 2, n - 1)
        dotted == IF domain[n] = "." THEN domain ELSE Append(domain, ".")
        seen[k \in 0 .. Len(dotted)] ==
            IF k = 0 THEN LabelStart ELSE LabelStep(seen[k - 1], dotted[k])
    IN  /\ n \in 1 .. MaxDomain
        /\ IF n >= 4 /\ domain[1] = "[" /\ domain[n] = "]"
           THEN body \in IPs
           ELSE seen[Len(dotted)].ok

-----------------------------------------------------------------------------
(* Splitting and unescaping an address *)

(* The loop's variables: what is written, the character before, whether a  *)
(* backslash or a quotation mark is open, and where the domain's @ is.     *)
ScanStart == [ok |-> TRUE, local |-> <<>>, prev |-> ".", char |-> FALSE, str |-> FALSE, at |-> 0]

(* Mutant: a backslash stays open behind the character it quotes.          *)
Write_StaysOpen(s, c) == [s EXCEPT !.local = Append(@, c), !.prev = c]

Write(s, c) == [s EXCEPT !.local = Append(@, c), !.char = FALSE, !.prev = c]

Fail(s) == [s EXCEPT !.ok = FALSE]

(* Mutant: a quoted string may begin anywhere.                             *)
QuoteMark_Anywhere(s, i) ==
    IF s.char THEN Write(s, "\"") ELSE [s EXCEPT !.str = ~@, !.prev = "\""]

(* A quotation mark: quoted itself, closing, or opening at the very start. *)
QuoteMark(s, i) ==
    CASE s.char  -> Write(s, "\"")
      [] ~s.char /\ s.str -> [s EXCEPT !.str = FALSE, !.prev = "\""]
      [] OTHER   -> IF i = 1 THEN [s EXCEPT !.str = TRUE, !.prev = "\""] ELSE Fail(s)

(* An unquoted @ ends the local part.                                      *)
AtSign(s, i) ==
    CASE s.char \/ s.str -> Write(s, "@")
      [] OTHER -> IF i - 1 > MaxLocal \/ s.prev = "." THEN Fail(s) ELSE [s EXCEPT !.at = i]

Other(s, c) == IF s.char \/ s.str THEN Write(s, c) ELSE Fail(s)

ScanStep(s, c, i) ==
    CASE c \in Letter \cup Digit \cup Special -> Write(s, c)
      [] c = "."  -> IF s.prev = "." THEN Fail(s) ELSE Write(s, c)
      [] c = "\\" -> [s EXCEPT !.char = TRUE, !.prev = c]
      [] c = "\"" -> QuoteMark(s, i)
      [] c = "@"  -> AtSign(s, i)
      [] c \in NonAscii -> Fail(s)
      [] OTHER    -> Other(s, c)

(* A turn of the loop, unless it has been left.                            *)
ScanTurn(s, c, i) == IF ~s.ok \/ s.at > 0 THEN s ELSE ScanStep(s, c, i)

(* The loop, and the checks behind it.                                     *)
ScanLocal(a) ==
    LET scan[k \in 0 .. Len(a)] ==
            IF k = 0 THEN ScanStart ELSE ScanTurn(scan[k - 1], a[k], k)
        end == scan[Len(a)]
    IN  IF a = <<>> \/ a[1] = "." \/ ~end.ok \/ end.char \/ end.str THEN Err
        ELSE [ok |-> TRUE, local |-> end.local,
              domain |-> IF end.at = 0 THEN <<>> ELSE SubSeq(a, end.at + 1, Len(a))]

(* A route @host,@host: before the address is dropped.                     *)
parseEmailAddress(a) ==
    LET end == IndexOf(a, ":")
    IN  CASE a = <<>> \/ Len(a) > MaxAddress -> Err
          [] a # <<>> /\ Len(a) <= MaxAddress /\ a[1] = "@" ->
                IF end = 0 THEN Err ELSE ScanLocal(SubSeq(a, end + 1, Len(a)))
          [] OTHER -> ScanLocal(a)

ParseEmailAddress(a) ==
    LET parsed == parseEmailAddress(a)
    IN  IF parsed.ok /\ ValidateDomainPart(parsed.domain) THEN parsed ELSE Err

-----------------------------------------------------------------------------
(* Mailbox names *)

Named(name) == [ok |-> TRUE, name |-> name]

(* Mutants: the extension is looked for from the end; nothing is refused.  *)
parseMailboxName_LastPlus(local) ==
    LET name == ToLower(local)
        pluses == {k \in DOMAIN name : name[k] = "+"}
        last == CHOOSE k \in pluses : \A j \in pluses : j <= k
    IN  IF local = <<>> \/ \E k \in DOMAIN name : name[k] \notin Letter \cup Digit \cup Special \cup {"."}
        THEN Err
        ELSE Named(IF pluses # {} THEN SubSeq(name, 1, last - 1) ELSE name)

parseMailboxName_Unchecked(local) ==
    LET name == ToLower(local)
        plus == IndexOf(name, "+")
    IN  IF local = <<>> THEN Err ELSE Named(IF plus > 0 THEN SubSeq(name, 1, plus - 1) ELSE name)

(* Lower case, nothing that needs quotes, and nothing from the first +.    *)
parseMailboxName(local) ==
    LET name == ToLower(local)
        plus == IndexOf(name, "+")
    IN  IF local = <<>> \/ \E k \in DOMAIN name : name[k] \notin Letter \cup Digit \cup Special \cup {"."}
        THEN Err
        ELSE Named(IF plus > 0 THEN SubSeq(name, 1, plus - 1) ELSE name)

(* Domain naming: without a domain, the local part is the domain looked up.*)
extractDomainMailbox(a) ==
    LET bracketed == a # <<>> /\ a[1] = "[" /\ a[Len(a)] = "]"
        parsed == IF bracketed THEN [ok |-> TRUE, local |-> <<>>, domain |-> a]
                  ELSE parseEmailAddress(a)
        box == IF parsed.local = <<>> THEN Named(<<>>) ELSE parseMailboxName(parsed.local)
        domain == IF parsed.domain = <<>> THEN box.name ELSE parsed.domain
    IN  IF parsed.ok /\ box.ok /\ ValidateDomainPart(domain) THEN Named(domain) ELSE Err

ExtractMailbox(naming, a) ==
    LET parsed == parseEmailAddress(a)
        box == parseMailboxName(parsed.local)
    IN  CASE naming = "domain" -> extractDomainMailbox(a)
          [] naming # "domain" /\ (~parsed.ok \/ ~box.ok) -> Err
          [] OTHER ->
               CASE naming = "local" \/ parsed.domain = <<>> -> box
                 [] naming = "full" /\ parsed.domain # <<>> ->
                      IF ValidateDomainPart(parsed.domain)
                      THEN Named(box.name \o <<"@">> \o parsed.domain) ELSE Err

(* RCPT TO: where a message to this address goes.                          *)
NewRecipient(naming, a) ==
    IF ParseEmailAddress(a).ok THEN ExtractMailbox(naming, a) ELSE Err

-----------------------------------------------------------------------------
(* Domain lists and patterns *)

(* Mutant: a list is used as it was typed.                                 *)
Configured_AsTyped(list) == list

(* config.Process: SliceToLower over each list.                            *)
Configured(list) == {ToLower(d) : d \in list}

ShouldAcceptDomain(domain) ==
    IF DefaultAccept THEN ToLower(domain) \notin Configured(RejectDomains)
    ELSE ToLower(domain) \in Configured(AcceptDomains)

ShouldStoreDomain(domain) ==
    IF DefaultStore THEN ToLower(domain) \notin Configured(DiscardDomains)
    ELSE ToLower(domain) \in Configured(StoreDomains)

(* Cell <<i, j>> of MatchWithWildcards' matrix m: whether the first i      *)
(* characters of s match the first j of p.  The code's second condition    *)
(* overwrites what the first found.                                        *)
Cell(p, s, m, i, j) ==
    CASE j = 0 -> i = 0
      [] i = 0 /\ j > 0 -> p[j] = "*" /\ m[<<0, j - 1>>]
      [] i > 0 /\ j > 0 ->
           IF p[j] = "?" \/ s[i] = p[j] THEN m[<<i - 1, j - 1>>]
           ELSE p[j] = "*" /\ (m[<<i - 1, j>>] \/ m[<<i, j - 1>>])

MatchWithWildcards(p, s) ==
    LET m[ij \in (0 .. Len(s)) \X (0 .. Len(p))] == Cell(p, s, m, ij[1], ij[2])
    IN  m[<<Len(s), Len(p)>>]

(* Mutant: the domain is compared as the sender wrote it.                  *)
ShouldAcceptOriginDomain_AsSent(rejected, domain) ==
    ~ \E p \in Configured(rejected) : MatchWithWildcards(p, domain)

(* With RejectOriginDomains as typed into the configuration.               *)
ShouldAcceptOriginDomain(rejected, domain) ==
    ~ \E p \in Configured(rejected) : MatchWithWildcards(p, ToLower(domain))

-----------------------------------------------------------------------------
(* The texts *)

TextInit == text = <<>>

Type(c) ==
    /\ Len(text) < TextLen
    /\ text' = Append(text, c)

TextNext == \E c \in Char : Type(c)

TextSpec == TextInit /\ [][TextNext]_text

-----------------------------------------------------------------------------
(* What the texts should mean *)

At(local, domain) == local \o <<"@">> \o domain

Plain == Letter \cup Digit \cup Special \cup {"."}

(* The local part w written with a backslash before what needs one.        *)
Quote(w) == FlattenSeq([k \in DOMAIN w |-> IF w[k] \in Plain THEN <<w[k]>> ELSE <<"\\", w[k]>>])

DoubleDot(s) == \E k \in 1 .. Len(s) - 1 : s[k] = "." /\ s[k + 1] = "."

(* Within the limits: a local part of w, the whole address.                *)
ShortEnough(w, d) == Len(w) <= MaxLocal /\ Len(At(w, d)) <= MaxAddress

(* ParseEmailAddress undoes quoting: any local part in ASCII and without a *)
(* backslash, written with backslashes or between quotation marks, comes   *)
(* back as it was, with the domain behind it, whatever the characters in   *)
(* between (an @, a quotation mark, a colon) mean unquoted.                *)
QuotingRoundTrips ==
    \A d \in Domains :
        LET parsed(w) == ParseEmailAddress(At(w, d))
            back == [ok |-> TRUE, local |-> text, domain |-> d]
            usable == /\ \A k \in DOMAIN text : text[k] \notin NonAscii \cup {"\\"}
                      /\ ~DoubleDot(text) /\ ValidateDomainPart(d)
            dotEnds == text # <<>> /\ "." \in {text[1], text[Len(text)]}
            string == <<"\"">> \o text \o <<"\"">>
        IN  /\ usable /\ text # <<>> /\ ~dotEnds /\ ShortEnough(Quote(text), d)
               => parsed(Quote(text)) = back
            /\ usable /\ ~Contains(text, "\"") /\ ShortEnough(string, d)
               => parsed(string) = back

(* A character that must be quoted (address_test.go, "not permitted"       *)
(* unquoted) gets into a local part only behind a backslash or inside a    *)
(* quoted string, and no local part exceeds its limit.                     *)
UnquotedSpecialsRefused ==
    \A d \in Domains :
        LET parsed == ParseEmailAddress(At(text, d))
        IN  parsed.ok => /\ Len(parsed.local) <= MaxLocal
                         /\ text[1] \notin {"\"", "@"} =>
                              \A k \in DOMAIN text :
                                 text[k] \notin Plain \cup {"\\"} => k > 1 /\ text[k - 1] = "\\"

(* Quoting means one thing: what is quoted comes back, and what has to be  *)
(* is not taken without.                                                   *)
QuotingSound == QuotingRoundTrips /\ UnquotedSpecialsRefused

(* doc/config.md:81,86,89: an extension behind a + never changes the       *)
(* mailbox, whatever plus signs or quotes come before it.                  *)
SubaddressShares ==
    \A naming \in Naming, d \in Domains, c \in Letter \cup {"+"} :
        LET box == NewRecipient(naming, At(text, d))
            longer == text \o <<"+", c>>
        IN  box.ok /\ ShortEnough(longer, d) /\ text[1] # "@"
            => NewRecipient(naming, At(longer, d)) = box

(* Names that RCPT TO can produce and a lookup does not give back: an      *)
(* empty name, periods where parseEmailAddress refuses them, and, under    *)
(* domain naming, upper case.                                              *)
Awkward(naming, m) ==
    \/ m = <<>> \/ m[1] \in {".", "@"} \/ DoubleDot(m)
    \/ \E k \in 1 .. Len(m) - 1 : m[k] = "." /\ m[k + 1] = "@"
    \/ naming = "domain" /\ m # ToLower(m)

(* Apart from those, the mailbox a message is stored in is found under its *)
(* own name: storing and looking up agree.                                 *)
FoundUnlessAwkward ==
    \A naming \in Naming, d \in Domains :
        LET box == NewRecipient(naming, At(text, d))
        IN  box.ok /\ ~Awkward(naming, box.name) => ExtractMailbox(naming, box.name) = box

(* One name for one mailbox, when mail comes in and when it is looked up.  *)
MailIsFound == SubaddressShares /\ FoundUnlessAwkward

(* The labels of a domain: what is between its periods and its ends.       *)
Labels(s) ==
    {SubSeq(s, ij[1], ij[2]) : ij \in {ij \in (1 .. Len(s) + 1) \X (0 .. Len(s)) :
        /\ ij[2] >= ij[1] - 1
        /\ ij[1] = 1 \/ s[ij[1] - 1] = "."
        /\ ij[2] = Len(s) \/ s[ij[2] + 1] = "."
        /\ \A k \in ij[1] .. ij[2] : s[k] # "."}}

Counted(l) == {k \in DOMAIN l : l[k] # "-"}

LabelOK(l) ==
    /\ \A k \in DOMAIN l : l[k] \in Letter \cup Digit \cup {"_", "-"}
    /\ l # <<>> /\ "-" \notin {l[1], l[Len(l)]}
    /\ \A k \in 1 .. Len(l) - 1 : <<l[k], l[k + 1]>> # <<"-", "-">>

Bracketed(s) == Len(s) >= 4 /\ s[1] = "[" /\ s[Len(s)] = "]"
Undotted(s) == IF s # <<>> /\ s[Len(s)] = "." THEN SubSeq(s, 1, Len(s) - 1) ELSE s

(* ValidateDomainPart's single pass over the characters accepts exactly    *)
(* the domains each of whose labels is right by itself: no state of the    *)
(* loop survives a period.  Hyphens do not count for the length.           *)
DomainSound ==
    ~Bracketed(text) =>
        (ValidateDomainPart(text) <=>
            /\ text # <<>> /\ Len(text) <= MaxDomain
            /\ \A l \in Labels(Undotted(text)) : LabelOK(l) /\ Cardinality(Counted(l)) <= MaxLabel)

SameIgnoringCase(s, t) == /\ Len(s) = Len(t)
                          /\ \A k \in DOMAIN s : \/ s[k] = t[k]
                                                 \/ \E c \in Letter \cup NonAscii :
                                                       {Lower[c]} = {Lower[s[k]], Lower[t[k]]}

(* A domain is on a configured list whatever the case either was typed in: *)
(* a listed domain is refused (discarded), or accepted (stored) where that *)
(* is not the default, and no other one is.                                *)
ListsIgnoreCase ==
    LET listed(list) == \E d \in list : SameIgnoringCase(d, text)
    IN  /\ ShouldAcceptDomain(text) <=> listed(IF DefaultAccept THEN RejectDomains ELSE AcceptDomains) # DefaultAccept
        /\ ShouldStoreDomain(text) <=> listed(IF DefaultStore THEN DiscardDomains ELSE StoreDomains) # DefaultStore

(* What * and ? stand for: where[k] is how much of s the first k pattern   *)
(* characters take.                                                        *)
Glob(p, s) ==
    \E where \in [0 .. Len(p) -> 0 .. Len(s)] :
        /\ where[0] = 0 /\ where[Len(p)] = Len(s)
        /\ \A k \in DOMAIN p :
              \/ p[k] = "*" /\ where[k] >= where[k - 1]
              \/ /\ where[k] = where[k - 1] + 1
                 /\ p[k] \in {"?", s[where[k]]}

(* A sender's domain is refused exactly when the pattern, read as a glob   *)
(* and without regard to case, covers it.  Only for domains: on a text     *)
(* with a literal * the matrix loses matches.                              *)
OriginGlob ==
    ValidateDomainPart(text) =>
        \A p \in Patterns : ShouldAcceptOriginDomain({p}, text) <=> ~Glob(ToLower(p), ToLower(text))

(* What the policy decides by a domain: that it is one, that it is listed, *)
(* that a pattern covers it.                                               *)
DomainsJudged == DomainSound /\ ListsIgnoreCase /\ OriginGlob
=============================================================================
