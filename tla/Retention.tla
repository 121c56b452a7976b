----------------------------- MODULE Retention ------------------------------
(***************************************************************************)
(* The retention scanner of pkg/storage/retention.go over either store.    *)
(* A scan takes the listing of one mailbox after the other and removes,    *)
(* message by message, those that were older than the period when it       *)
(* began; meanwhile mail arrives, is removed by others, and time passes.   *)
(* Time is counted in ticks: a message has an age and the loop a time      *)
(* since the last scan, both of which stop at the value that matters.      *)
(***************************************************************************)
EXTENDS Naturals, Sequences, FiniteSets, SequencesExt

CONSTANTS
    Box,        \* mailboxes
    Msg,        \* places for messages: the bound on how many there are at a time
    Periods,    \* values of config.Storage.RetentionPeriod, in ticks
    Minute      \* a minute in ticks

ASSUME RetentionAssumption ==
    /\ Periods \subseteq Nat /\ Minute \in Nat \ {0}

Gone == "gone"

VARIABLES
    kind,       \* config.Storage.Type: "memory" or "file"
    unreadable, \* mailboxes whose index cannot be read, as a crash may leave it
    period,     \* the configured period; 0 disables the scanner
    order,      \* the order in which the directories of the mailboxes are read
    place,      \* of each message: its mailbox, or gone
    age,        \* of each message in ticks, up to the first past the period
    since,      \* ticks since the last scan began, up to a minute
    phase,      \* wait, visit, remove, sleep, stopped
    unvisited,  \* mailboxes that this scan has not come to, in order
    listing,    \* messages of the mailbox visited, still to be looked at
    expired,    \* messages that were past the period when the scan began
    cancelled   \* the context

storeVars == <<place, age>>
scanVars == <<phase, unvisited, listing, expired>>
config == <<kind, unreadable, period, order>>
retentionVars == <<config, storeVars, since, scanVars, cancelled>>

In(b) == {m \in Msg : place[m] = b}
Stored == {m \in Msg : place[m] \in Box}

RetentionInit ==
    /\ kind \in {"memory", "file"}
    /\ unreadable \in SUBSET Box /\ (kind = "memory" => unreadable = {})
    /\ period \in Periods
    /\ order \in SetToSeqs(Box)
    /\ place \in [Msg -> {Gone} \cup unreadable]
    /\ age = [m \in Msg |-> 0]
    /\ since = 0
    /\ phase = IF period = 0 THEN "stopped" ELSE "wait"
    /\ unvisited = <<>> /\ listing = {} /\ expired = {}
    /\ cancelled = FALSE

-----------------------------------------------------------------------------
(* Around the scanner *)

(* An unreadable mailbox takes no mail and gives none away.  Mail comes    *)
(* without end: m stands for a new message once the scan has forgotten the *)
(* one before.                                                             *)
Deliver(m, b) ==
    /\ place[m] = Gone /\ m \notin listing \cup expired
    /\ b \notin unreadable
    /\ place' = [place EXCEPT ![m] = b]
    /\ age' = [age EXCEPT ![m] = 0]
    /\ UNCHANGED <<config, since, scanVars, cancelled>>

RemoveByOthers(m) ==
    /\ place[m] \in Box \ unreadable
    /\ place' = [place EXCEPT ![m] = Gone]
    /\ UNCHANGED <<config, age, since, scanVars, cancelled>>

TimePasses ==
    /\ age' = [m \in Msg |-> IF m \in Stored /\ age[m] <= period THEN age[m] + 1 ELSE age[m]]
    /\ since' = IF since < Minute THEN since + 1 ELSE since
    /\ UNCHANGED <<config, place, scanVars, cancelled>>

Cancel ==
    /\ ~cancelled /\ cancelled' = TRUE
    /\ UNCHANGED <<config, storeVars, since, scanVars>>

-----------------------------------------------------------------------------
(* The loop of Start *)

(* Mutant: the cutoff includes the messages that are just as old.          *)
Kickoff_OffByOne ==
    /\ phase = "wait" /\ since = Minute
    /\ since' = 0
    /\ unvisited' \in IF kind = "memory" THEN SetToSeqs(Box)
                     ELSE {SelectSeq(order, LAMBDA b : In(b) # {} \/ b \in unreadable)}
    /\ expired' = {m \in Stored : age[m] >= period}
    /\ phase' = "visit"
    /\ UNCHANGED <<config, storeVars, listing, cancelled>>

(* The names of the memory store come in any order; the file store has     *)
(* directories for mailboxes with messages only, and reads them in their   *)
(* order on disk.  (It reads them as it goes: a mailbox that is new by     *)
(* then has nothing to remove.)                                            *)
Kickoff ==
    /\ phase = "wait" /\ since = Minute
    /\ since' = 0
    /\ unvisited' \in IF kind = "memory" THEN SetToSeqs(Box)
                     ELSE {SelectSeq(order, LAMBDA b : In(b) # {} \/ b \in unreadable)}
    /\ expired' = {m \in Stored : age[m] > period}
    /\ phase' = "visit"
    /\ UNCHANGED <<config, storeVars, listing, cancelled>>

Stops ==
    /\ phase = "wait" /\ cancelled
    /\ phase' = "stopped"
    /\ UNCHANGED <<config, storeVars, since, unvisited, listing, expired, cancelled>>

(* Mutant: the loop does not look at the context after a scan.             *)
EndOfScan_NoCheck ==
    /\ phase' = "wait"
    /\ unvisited' = <<>> /\ listing' = {} /\ expired' = {}

(* A scan has come to its end: the loop looks at the context.              *)
EndOfScan ==
    /\ phase' = IF cancelled THEN "stopped" ELSE "wait"
    /\ unvisited' = <<>> /\ listing' = {} /\ expired' = {}

-----------------------------------------------------------------------------
(* DoScan *)

(* Mutant: the listing is that of the mailbox after the next.              *)
VisitNext_OffByOne ==
    /\ phase = "visit" /\ unvisited # <<>> /\ Head(unvisited) \notin unreadable
    /\ listing' = IF Len(unvisited) > 1 THEN In(unvisited[2]) ELSE {}
    /\ unvisited' = Tail(unvisited)
    /\ phase' = "remove"
    /\ UNCHANGED <<config, storeVars, since, expired, cancelled>>

VisitNext ==
    /\ phase = "visit" /\ unvisited # <<>> /\ Head(unvisited) \notin unreadable
    /\ listing' = In(Head(unvisited))
    /\ unvisited' = Tail(unvisited)
    /\ phase' = "remove"
    /\ UNCHANGED <<config, storeVars, since, expired, cancelled>>

(* VisitMailboxes of the file store returns the first error there is: a    *)
(* mailbox that cannot be read, and a directory above that has gone with   *)
(* its last mailbox since its name was read.                               *)
VisitFails ==
    /\ kind = "file" /\ phase = "visit" /\ unvisited # <<>>
    /\ Head(unvisited) \in unreadable \/ In(Head(unvisited)) = {}
    /\ EndOfScan
    /\ UNCHANGED <<config, storeVars, since, cancelled>>

VisitedAll ==
    /\ phase = "visit" /\ unvisited = <<>>
    /\ EndOfScan
    /\ UNCHANGED <<config, storeVars, since, cancelled>>

(* The listing is one of the past: removing what has gone meanwhile is an  *)
(* error that is logged, or nothing at all.                                *)
RemoveExpired(m) ==
    /\ phase = "remove" /\ m \in listing \cap expired
    /\ place' = [place EXCEPT ![m] = Gone]
    /\ listing' = listing \ {m}
    /\ UNCHANGED <<config, age, since, phase, unvisited, expired, cancelled>>

Retain(m) ==
    /\ phase = "remove" /\ m \in listing \ expired
    /\ listing' = listing \ {m}
    /\ UNCHANGED <<config, storeVars, since, phase, unvisited, expired, cancelled>>

EndOfBox ==
    /\ phase = "remove" /\ listing = {}
    /\ phase' = "sleep"
    /\ UNCHANGED <<config, storeVars, since, unvisited, listing, expired, cancelled>>

(* With the context and the timer both ready, select takes either.         *)
Aborted ==
    /\ phase = "sleep" /\ cancelled
    /\ EndOfScan
    /\ UNCHANGED <<config, storeVars, since, cancelled>>

Slept ==
    /\ phase = "sleep"
    /\ phase' = "visit"
    /\ UNCHANGED <<config, storeVars, since, unvisited, listing, expired, cancelled>>

-----------------------------------------------------------------------------
Removes == \E m \in Msg : RemoveExpired(m)
Scanner == Kickoff \/ Stops \/ VisitNext \/ VisitFails \/ VisitedAll \/ Removes \/ (\E m \in Msg : Retain(m)) \/ EndOfBox \/ Aborted \/ Slept

RetentionNext ==
    \/ \E m \in Msg : RemoveByOthers(m) \/ \E b \in Box : Deliver(m, b)
    \/ TimePasses \/ Cancel \/ Scanner

RetentionSpec == RetentionInit /\ [][RetentionNext]_retentionVars

(* Time passes and the goroutine runs.                                     *)
FairSpec == RetentionSpec /\ WF_retentionVars(TimePasses) /\ WF_retentionVars(Scanner)

-----------------------------------------------------------------------------
RetentionTypeOK ==
    /\ kind \in {"memory", "file"} /\ unreadable \subseteq Box
    /\ place \in [Msg -> Box \cup {Gone}]
    /\ age \in [Msg -> 0 .. period + 1] /\ since \in 0 .. Minute
    /\ phase \in {"wait", "visit", "remove", "sleep", "stopped"}
    /\ listing \cup expired \subseteq Msg

(* The scanner takes only what is older than the period by now, whatever   *)
(* arrived since its listing and since the scan began, and with a period   *)
(* of 0 nothing at all.                                                    *)
OnlyExpiredGo == [][Removes => \A m \in Msg : place'[m] # place[m] => period > 0 /\ age[m] > period]_retentionVars

(* The visit comes to b before one that ends it with an error.             *)
Reached(b) ==
    \E i \in DOMAIN order : order[i] = b /\ \A k \in 1 .. i : order[k] \notin unreadable

(* Others take the last message of a mailbox, and its directory goes.      *)
Empties == \E m \in Msg : RemoveByOthers(m) /\ In(place[m]) = {m}

(* An assumption about the clients, not a promise of the code: with        *)
(* mailboxes that appear and are emptied without end, each scan of the     *)
(* file store may stop at one of them before it comes to a given mailbox.  *)
EmptyingCeases == <>[][~Empties]_retentionVars

(* "scan the contents of its mail store once per minute, removing messages *)
(* older than this": however mail comes and goes, each message of the      *)
(* memory store goes in the end, and each of the file store if, from some  *)
(* time on, nobody but the scanner empties a mailbox; unless the scanner   *)
(* is off or stopped, or an unreadable mailbox comes before its own.       *)
ExpiredGoes ==
    (kind = "file" => EmptyingCeases) =>
        \A m \in Msg, b \in Box : place[m] = b /\ Reached(b) ~> m \notin Stored \/ period = 0 \/ cancelled

(* Join returns: the scanner comes to its end after the shutdown.          *)
JoinReturns == cancelled ~> phase = "stopped"
=============================================================================
