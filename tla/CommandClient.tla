--------------------------- MODULE CommandClient ----------------------------
(***************************************************************************)
(* The command line client, cmd/client: list, match and mbox read the      *)
(* listing of a mailbox, print what it selects, with the source of each    *)
(* message for mbox, and then delete the same messages one by one.  Each   *)
(* request is one of WebApi's; between two of them the mailbox is          *)
(* anybody's.                                                              *)
(*                                                                         *)
(* url.Parse may refuse what baseURL builds, and as baseURL stands it does:*)
(* "http://%s" is joined to host and port, and "%s" is no escape that a    *)
(* host may hold.  Both outcomes are modelled.                             *)
(***************************************************************************)
EXTENDS WebApi

CONSTANT Cli    \* the client, among those who make requests

ASSUME CliAssumption == Cli \in Caller

VARIABLES
    flags,     \* the command line: command, -output, -delete
    wanted,    \* messages that the criteria match
    phase,     \* start, list, output, delete, exit
    todo,      \* matches that the loop of this phase has not come to
    matches,   \* the headers to print and delete
    printed,   \* messages that were printed
    status     \* exit status

cliVars == <<flags, wanted, phase, todo, matches, printed, status>>
allVars == <<vars, cliVars>>

Flags == [cmd : {"list"}, output : {"id"}, delete : {FALSE}]
    \cup [cmd : {"match"}, output : {"id", "mbox"}, delete : BOOLEAN]
    \cup [cmd : {"mbox"}, output : {"mbox"}, delete : BOOLEAN]

(* Cli is then another program with requests of its own: a browser.        *)
NoCommand == [cmd |-> "none", output |-> "none", delete |-> FALSE]

Running == "running"
ExitSuccess == "0"
ExitFailure == "1"

Oldest(s) == CHOOSE i \in s : \A j \in s : i <= j

CliInit ==
    /\ Init
    /\ \/ flags \in Flags /\ wanted \in SUBSET Id /\ phase = "start" /\ status = Running
       \/ flags = NoCommand /\ wanted = {} /\ phase = "exit" /\ status = ExitSuccess
    /\ todo = {} /\ matches = {} /\ printed = {}

Exit(s) == phase' = "exit" /\ status' = s /\ todo' = {}

-----------------------------------------------------------------------------
(* url.Parse refuses the address.                                          *)
NewClientFails ==
    /\ phase = "start"
    /\ Exit(ExitFailure)
    /\ UNCHANGED <<vars, flags, wanted, matches, printed>>

(* The server may refuse the name of the mailbox, the one of the command   *)
(* line as well as the one of a header.                                    *)
RequestFor(op, id) == \E w \in {"none", "name"} : Request(Cli, [op |-> op, id |-> id, flaw |-> w])

Asking(op) == ask[Cli].op = op /\ ask[Cli].id = Oldest(todo)

ListMailbox ==
    /\ phase = "start"
    /\ RequestFor("list", None)
    /\ phase' = "list"
    /\ UNCHANGED <<kind, flags, wanted, todo, matches, printed, status>>

Returned(p) == phase = p /\ step[Cli] = "answered"

(* The loops of Execute and outputMbox: the next message, or what comes    *)
(* after the last.                                                         *)
Go(p, left, out) ==
    /\ printed' = out
    /\ IF left # {} THEN phase' = p /\ todo' = left /\ UNCHANGED status
       ELSE IF p = "output" /\ flags.delete /\ matches' # {} THEN phase' = "delete" /\ todo' = matches' /\ UNCHANGED status
       ELSE Exit(ExitSuccess)

(* Mutant: the criteria are not looked at.                                 *)
Selected_Any == answer[Cli].list

Selected == IF flags.cmd = "match" THEN answer[Cli].list \cap wanted ELSE answer[Cli].list

Listed ==
    /\ Returned("list") /\ answer[Cli].code = "ok"
    /\ matches' = Selected
    /\ IF flags.cmd = "match" /\ Selected = {} THEN Exit(ExitFailure) /\ UNCHANGED printed
       ELSE IF flags.output = "mbox" THEN Go("output", Selected, {})
       ELSE Go("output", {}, Selected)
    /\ UNCHANGED <<vars, flags, wanted>>

(* A request for the message whose turn it is; the loop goes on with its   *)
(* answer.                                                                 *)
GetSource ==
    /\ phase = "output" /\ ~Asking("source")
    /\ RequestFor("source", Oldest(todo))
    /\ UNCHANGED <<kind, cliVars>>

GotSource ==
    /\ Returned("output") /\ Asking("source") /\ answer[Cli].code = "ok"
    /\ UNCHANGED <<vars, flags, wanted, matches>>
    /\ Go("output", todo \ {ask[Cli].id}, printed \cup {ask[Cli].id})

DeleteMatch ==
    /\ phase = "delete" /\ todo # {} /\ ~Asking("delete")
    /\ RequestFor("delete", Oldest(todo))
    /\ UNCHANGED <<kind, cliVars>>

(* Mutant: the loop ends with the first message that was deleted.          *)
Deleted_First ==
    /\ Returned("delete") /\ Asking("delete") /\ answer[Cli].code = "ok"
    /\ Exit(ExitSuccess)
    /\ UNCHANGED <<vars, flags, wanted, matches, printed>>

Deleted ==
    /\ Returned("delete") /\ Asking("delete") /\ answer[Cli].code = "ok"
    /\ UNCHANGED <<vars, flags, wanted, matches>>
    /\ Go("delete", todo \ {ask[Cli].id}, printed)

(* Mutant: a request that fails is made again.                             *)
RestFails_Retry ==
    /\ phase \in {"output", "delete"} /\ Returned(phase) /\ answer[Cli].code \notin {"ok", "none"}
    /\ Request(Cli, ask[Cli])
    /\ UNCHANGED <<kind, cliVars>>

(* An answer that is not 200, or none within 30 s, whatever the server     *)
(* still does.                                                             *)
RestFails ==
    /\ phase \in {"list", "output", "delete"}
    /\ Busy(Cli) \/ (Returned(phase) /\ answer[Cli].code \notin {"ok", "none"})
    /\ Exit(ExitFailure)
    /\ UNCHANGED <<vars, flags, wanted, matches, printed>>

-----------------------------------------------------------------------------
Execute == NewClientFails \/ ListMailbox \/ Listed \/ GetSource \/ GotSource \/ DeleteMatch \/ Deleted \/ RestFails

(* The server, and whoever else delivers to the mailbox and empties it.    *)
Serve == Handle(Cli) /\ UNCHANGED <<kind, cliVars>>

Meanwhile == Others /\ UNCHANGED <<kind, cliVars>>

(* Its next request would begin as its first, in a mailbox to which the    *)
(* others can bring it as well.                                            *)
Browse ==
    /\ flags = NoCommand /\ step[Cli] = "idle"
    /\ \E a \in Ask : Request(Cli, a)
    /\ UNCHANGED <<kind, cliVars>>

CliNext == Execute \/ Serve \/ Browse \/ Meanwhile

CliSpec == CliInit /\ [][CliNext]_allVars

(* The client runs, and net/http serves each request in a goroutine.       *)
FairCliSpec == CliSpec /\ WF_allVars(Execute) /\ WF_allVars(Serve)

-----------------------------------------------------------------------------
(* "delete messages after output": whatever the client asks the server to  *)
(* delete it has printed, and everything it prints the criteria match; a   *)
(* message that arrives meanwhile is neither.                              *)
DeletesWhatItPrinted ==
    /\ flags # NoCommand /\ ask[Cli].op = "delete" => ask[Cli].id \in printed
    /\ printed \subseteq IF flags.cmd = "match" THEN wanted ELSE Id

(* Exit status 0 of a command without -delete means that all it selected   *)
(* was printed, with -delete that none of it is left besides.              *)
SuccessMeansDone ==
    status = ExitSuccess => printed = matches /\ (flags.delete => matches \cap box = {})

(* What a command printed and deleted is what its exit status says.        *)
CommandIsTrue == DeletesWhatItPrinted /\ SuccessMeansDone

(* The loops end, however much mail arrives and goes.                      *)
CommandEnds == <>(status # Running)
=============================================================================
