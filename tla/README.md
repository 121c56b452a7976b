# Inbucket in TLA+

Specifications of the parts of Inbucket (a mail server for testing: SMTP in, web, REST and POP3
out) in which concurrency, failure or a long sequence of legal calls can go wrong. The modules are
translated from the Go code under `src/`; `PROJECT.json` maps each definition to the lines it
stands for, lists the runs, the mutants that show each property can fail, the hazards of the code
and the theorems.

## 1. The system

Mail arrives at an **SMTP session**, which asks the **address policy** and **extensions** whether
to accept sender and recipients, reads the DATA block and hands it to the **message manager**. The
manager stores one copy per recipient's mailbox in a **store** (in memory or on disk) and emits
`AfterMessageStored`. **POP3 sessions**, the **web UI** and the **REST API** list, read, mark and
remove messages; the **retention scanner**, the per-mailbox cap and the in-memory size limit remove
them too. The store emits `AfterMessageDeleted`. The **message hub** listens to both events, keeps
a ring of recent messages, and relays them to monitor **websockets**. `main` starts everything and,
on a signal, cancels one context and waits for the SMTP and POP3 sessions and the retention scanner.

| Component | State | Operations | Hard behaviour | What makes it correct |
|---|---|---|---|---|
| in-memory store `pkg/storage/mem` | map of mailboxes: counters `first`, `last`, messages | AddMessage, GetMessage(s), MarkSeen, RemoveMessage, PurgeMessages, VisitMailboxes | callers run between the mailbox lock and the enforcer | storage contract; ids never name another message; cap exact |
| `maxSizeEnforcer` `mem/maxsize.go` | list of all messages, `curSize` | requests over two unbuffered channels, eviction | rendezvous with callers that race with each other and with evictions | exact total, store within budget, every caller answered |
| file store `pkg/storage/file` | directory per mailbox: index and raw files | the same | each call is several writes; the scan reads directories without the lock; the process may die | files and index agree; acknowledged mail survives |
| message hub `pkg/msghub`, websockets `pkg/rest/socketv*` | ring, listeners, operation channel; a channel per websocket | Dispatch, Delete, AddListener, RemoveListener; reader and writer goroutines, Close | bounded channels in a cycle, a channel closed by either goroutine, panics recovered per operation | every listener gets its events in order; the hub is never held |
| SMTP session `pkg/server/smtp/handler.go` | state, sender, recipients | the commands, DATA | replies lost, extensions overriding policy, delivery stopping half way | what was answered 250 is what is stored |
| POP3 session `pkg/server/pop3/handler.go` | state, listing, marks, count; TLS state shared by all sessions | the commands, deletion at QUIT | listing is stale while others change the mailbox | deletes exactly what was marked and confirmed |
| message manager `pkg/message` | none | Deliver, GetMessage, GetMetadata, MarkSeen, PurgeMessages, RemoveMessage | partial delivery; a store that finds nothing without an error | what is answered is what was done, or was there |
| address policy `pkg/policy` | none (pure functions) | ParseEmailAddress, ValidateDomainPart, ExtractMailbox, the domain lists and patterns | quoting, sub-addresses, names stored under one rule and looked up under another | quoting is undone; mail is found under its mailbox's name |
| REST API `pkg/rest`, web UI `pkg/webui`, Go client `pkg/rest/client` | one request each | list, read, source, attachments, seen, delete, purge | a message goes between being found and being opened | answers are true of some moment of the request |
| command line client `cmd/client` | listing, matches, exit status | list, match, mbox with output and deletion | many requests, a mailbox that is anybody's between them | deletes what it printed; status 0 means done |
| extension host `pkg/extension` | listener lists under a lock | AddListener, RemoveListener, Emit, before and after | listeners change while events are answered; one goroutine per after-event | first answer wins; every listener is called |
| Lua host `pkg/extension/luahost` | pool of Lua states, channels | getState, putState, createChannel, the event functions | states that are used, reused, flushed and broken by scripts | no state has two users; every new state knows every channel |
| retention scanner `pkg/storage/retention.go` | cutoff, listing, time of the last scan | DoScan, Start, Join | stale listings, scans that end early, shutdown | removes only what is expired, and all of it |
| shutdown: `cmd/inbucket/main.go`, `pkg/server/lifecycle.go`, the listeners, `web/server.go` | context, wait groups, notify channels, ready count, timer | start, failures, Drain, Join, timedExit | who waits for whom; work after the hub has stopped | ready means listening; a drain waits; a shutdown ends |
| HTML sanitizer, configuration, metrics, message formats, browser UI | none that changes between calls | conversions, I/O | - | see section 7 |

## 2. The modules

    MailStore            what any store promises (abstract)
      ^      ^
    MemStore FileStore   implement it (refinement mappings)
      ^      ^
      |      |  Retention   the scanner over either store
      |      |   ^
      |    StorageProofs    theorems about FileStore and Retention
    MemStoreProofs       theorems about MemStore
    MsgHub               the hub and its websockets
      ^ MsgHubProofs
    SmtpSession          one session up to the stored copies
      ^
      |  AddressPolicy   addresses, domains and mailbox names, as operators
      |   ^
    SmtpProofs           theorems about SmtpSession and AddressPolicy
    Pop3Server           sessions on one mailbox that others change
      ^
    Pop3Replies          adds what the sessions say to their clients
      ^ Pop3ServerProofs theorems about both
    WebApi               requests on one mailbox that others change
      ^
    CommandClient        a program that makes a sequence of those requests
      ^ WebApiProofs     theorems about both
    Extensions           both brokers and the pool of Lua states
      ^ ExtensionsProofs
    Shutdown             the process from its start to its end
      ^ ShutdownProofs
    MC*                  bounded instances for TLC

**MailStore** is the `Store` interface: a mailbox is a sequence of messages, oldest first; a
delivery appends a message that was never there and keeps the newest `Cap`; the other changes are a
removal, a purge and the seen flag.

**MemStore**. `boxes[mb]` is a mailbox's counters and messages. `withMailbox` runs a function under
the mailbox lock that calls nothing outside, so one critical section is one action, together with
the local code after it up to the next channel operation. What follows is separate: `EnforcerIncoming`
is the rendezvous of `enforcerDeliver` with the enforcer's select, `EnforcerEvict` one pass of its
loop, `EnforcerDone` the `close(md.done)` that lets AddMessage return, `EnforcerRemove` the
rendezvous of `enforcerRemove`. `EnforcerRemoveNil` and `EnforcerEvictNil` are the two places where
the goroutine dereferences nil; they set `crashed`, after which nothing moves. `pushed` is the set of
messages whose `el` is set; `todo[c]` what client `c` has still to report; `batch[c]` the events a
purge emits when it is done. The cap loop is stated by the value of `first` it stops at
(`CapLoopStopsAt`), because it counts over ids that are gone. The lock that guards the map of
mailboxes is held only for the lookup and is not modelled.

**FileStore**. `index`, `raw` and `dir` are the disk; `pc`, `call`, `mb`, `messages`, `msg` the one
call that has the write lock (mailboxes of other locks live in other level 1 directories and share
nothing with these but the scan and the id counter). `writeIndex` is two steps: `OpenIndex`
truncates (the index is `Torn`), `WriteIndex` flushes; `Listing(b)` is the index of `b`, or the one
before while it is being rewritten behind the lock. `Crash` and the `...Fails` actions leave the
disk as those steps could: a torn index, a prefix of it, the index as it was (`OpenIndexFails`), a
directory with some of its files gone. `GiveUp` is what the callers of a failed `writeIndex` do: an
addition removes its raw file, the cap loop goes on.
The scan reads level 1 and level 2 names without the lock and each mailbox under it. Ids are a second
and a counter modulo `Width` that starts again with the process. The seen flag is left out, the
rewriting it causes is not.

**MsgHub**. `senders` are the goroutines `Emit` has started; any of them may be first at `opChan`.
The hub takes one operation and then relays the event to one listener after the other
(`relay`, `left`), waiting where a channel is full. `side[l]` is where a websocket's reader and
writer goroutine are, and the three steps of Close - the select that receives from the channel, the
RemoveListener, the close - are separate actions. Sends on a closed channel are explicit: recovered
in the hub (`RelayPanics`, `PlayBackPanics`), fatal elsewhere (`crashed`). `log`, `removed` and
`feed` reckon from the operations, not from the ring, what ring and websockets should hold.

**SmtpSession**. Every command that changes the session is an action; everything answered with an
error is `Refuse`. A verdict of policy or extension is an input. `ReadBlock` starts `Deliver`,
`Store` is one AddMessage, `Accepted` and `Failed` send the reply. `view` is what the client was told
while the connection worked, kept apart from the session's own `from` and `recipients`.

**Pop3Server**. `box` changes under the sessions through `Deliver` and `RemoveByOthers`. `Login` takes
the listing, `Dele` and `Rset` mark, `Quit` promises, `DeleteNext` is one turn of `processDeletes`,
in which the store may refuse to `Remove` a message (`failed`)
("UPDATE" is the name the comment there gives that phase; the code has no such state). `tlsState` is
one variable for all sessions, as it is a field of the `Server` they embed.

**Pop3Replies** extends Pop3Server with the replies of CAPA, STLS, STAT, LIST, UIDL, RETR and TOP.
`content[i]` is the text of message `i`, a line being its leading dots and its rest; `told[s]` is which
message the client was told each number names; `own[s]` whether this session, and not another of the
same server (`StlsElsewhere`), has agreed on TLS. `SendMessage` and `SendMessageTop` are the loops over
`bufio.Scanner`, with the dot stuffing, the line that is too long for it, and the error after the dot;
`Transfer` sends `+OK` before the message is opened. `Body` and `OneReply` read a reply the way a client
does. `Others` are the steps of Pop3Server whose reply is only a status.

**AddressPolicy**. A text is typed character by character, so that TLC visits every text up to a
length, and judges every text as a local part, as a domain and against every pattern; the functions of `address.go` are operators over it. The loops over characters are functions
defined by recursion over the position (`seen`, `scan`, the matrix `m`); their loop variables are a
record (`ScanStart`, `LabelStart`), and one turn of a loop is an operator (`ScanTurn`, `LabelStep`). `NewRecipient` is the way in (RCPT TO), `ExtractMailbox` the way a
reader looks a mailbox up. The limits of 320, 128, 255 and 63 are constants that small texts reach.

**WebApi**. A request of a `Caller` is made (`Request`), looked up (`Find`, `FindNothing`), opened
(`Open`) and answered; between its steps mail is delivered and removed. The file store opens a
message's file without the mailbox's lock, the memory store has the text; a missing message is an error
in one and nothing at all in the other (`kind`, `NilChecked`). `since[c]` is the set of contents the
mailbox has had since the request was made: an answer is judged by these.
A handler's error returns are its own: `FlawsOf` is what may be wrong with the request (a name that
`MailboxForAddress` refuses, a PATCH without a body, an attachment's number), `Garbled` the messages that
`ReadEnvelope` does not parse, and while `faulty` holds, which an action sets and another takes back, any
call of the file store may fail (`Fails`), a rewritten index may keep only the older messages (`Remains`), and a
Stat of the index that fails passes for an empty mailbox (`Indexes`): a listing is empty, a reader has 404, and
MarkSeen, which writes back what it has read, removes the mailbox. `trouble[c]` is whether that was so
during the request. The memory store returns no errors. Once a body is begun its failure cannot change the
status any more and is left out.

**CommandClient** is `list`, `match` and `mbox` as loops (`Go`) over the requests of WebApi, one action
for making each request and one for each answer, `RestFails` for any other answer and for the timeout of
30 seconds, up to the exit status. `url.Parse` may take or refuse the URL that `baseURL` builds
(`NewClientFails`); as the code stands it refuses, and the steps after it show the code behind that line.
With `NoCommand` the caller is a browser that makes any request (`Browse`), one of them: the next would begin
as the first, in a mailbox to which the others can bring it as well. The mailbox's name is refused or not at
each request, as a header's may be when the command line's is not.

**Extensions**. `before` and `after` are the listener lists; `at[e]` is the listener that an emitter of
a before-event asks, under the lock for reading, so that `AddListener` and `RemoveListener` wait
(`Unlocked`). An after-event starts a call for each listener (`pending`, `running`) and the list may
change behind it. `pool`, `held`, `alive` are the Lua states; `PutState` lets the script overwrite its
`inbucket` object (`broken`), which `StateFails` meets later; `CreateChannel` closes the states in the
pool and leaves those in use, which do not know the channel (`knows`). The five event functions of the
Lua host differ in how they convert arguments and are one here.

**Retention**. `Kickoff` fixes which messages are past the period, `VisitNext` takes a mailbox's listing,
`RemoveExpired` and `Retain` go through it, `EndOfBox` leads to the sleep, which a cancelled context may
or may not cut short (select with both ready). Ages and the time since the last scan are counted in
ticks up to the value that matters, so that time never stops for want of a bound; nor does mail, as a message's
place is taken by a new one (`Deliver`) once the scan has forgotten the one before. `kind` is the store:
`VisitFails` is the file store's, where a directory that has vanished, or an index that cannot be read
(`unreadable`), ends the scan; the memory store takes a snapshot of its mailboxes and goes on.

**Shutdown**. Each service has its `Start` and its `serve` goroutine, its notify channel and, for SMTP
and POP3, a wait group. `Accept` and `Register` are apart: SMTP adds to the wait group in the session's
goroutine, POP3 in the accept loop (`serve` is "adding" meanwhile). `Stop` is main's cancellation with
`timedExit` beside it; `DrainSmtp`, `DrainPop3`, `Join` are the waits in their order, `TimedExit` the
end that does not wait. `HubStops` and `EventPanics` are the two sides of the hub's closed channel.
`broken` records which services met an error of their own, to tell a failure from a listener that the
shutdown closed; `atStop` the connections counted when the shutdown began.

## 3. The runs

A property of a run is often the conjunction of the parts named beside it, each with its own comment in
the module.

| Run | Instance | Shows |
|---|---|---|
| `mem_contract` | 2 clients, 2 mailboxes, cap 1, limit of 2 messages, 2 additions per mailbox | `ImplementsMailStore`; `MailboxesSound`: the cap loop stops where it should although ids in between are gone (`CapRespected`, `IdsInRange`), a removed message has one remover and one event (`OwnedOnce`), and nothing vanishes without an event except over the cap (`Accounted`) |
| `mem_enforcer` | 2 clients, 1 mailbox, sizes 1 and 2, limit 3, no cap, 3 additions | `BooksBalance`: the running total is exact while evictions race with removals (`Ledger`), and what the enforcer permits fits (`Budget`); `ListCoversStore`; `StaleViewSafe`: a listing is never about another message; `CallsReturn` |
| `hub_live` | 2 messages, ring of 2, channels of 1, two websockets: one on everything, one of the v1 API on one mailbox | `HistoryExact`; `FeedsSound`: channels within their capacity, and each websocket gets its playback and then its events in order, all of them once the hub is idle, which keeps it registered as long as it is there (`FedInOrder`); `EventsArrive`: the hub is never held (`HubReturns`), and what it owes is delivered (`FeedIsDelivered`) |
| `hub_break` | 1 websocket that may break at any point, the hub may stop | `ClosedIsLeaving`: a closed channel is always about to be unregistered |
| `smtp` | 2 senders, 3 recipients (one discarded, one only an extension lets in), limit 2 | `EnvelopeSound`: client and session agree on the envelope; `AnswerIsTrue`: 250 means stored once for each recipient, an error a proper part of it; `SessionEnds` |
| `pop3` | 1 session that others overtake, 2 messages of 5 shapes (dots, blank lines, no body, empty, a line too long), TOP up to 2, file store | `DeletesAsPromised` (`MarksAgree`, `OnlyPromised`, `PromiseKept`); `NumbersLast`; `RepliesAreTrue` (`CountsAgree`, and TLS `NeverTwice`); `TextAsTold` (`GetsTheText`, `NothingElse`); `SessionEnds` |
| `file_store` | 2 mailboxes in directories of their own, cap 2, 3 deliveries, counter of 2, 2 seconds, one failure or crash anywhere, one scan after the other | `DiskSound`: files and index agree (`FilesMatchIndex`); `MailIsKept` (`ListedUntilDeleted`, `AckedSurvives`); `ScanComplete`; `ImplementsMailStore` up to the failure |
| `address` | every text of up to 5 of 13 characters; as a local part in front of 3 domains under 3 namings, as a domain, and against every short pattern | `QuotingSound` (`QuotingRoundTrips`, `UnquotedSpecialsRefused`); `MailIsFound` (`SubaddressShares`, `FoundUnlessAwkward`); `DomainsJudged` (`DomainSound`, `ListsIgnoreCase`, and `OriginGlob`: the matrix is a glob match, judged by a reference definition that places the pattern on the text) |
| `shutdown` | SMTP and POP3 with a client each who may never leave, one event, failures anywhere | `AnnouncementsTrue` (`ReadyMeansListening`, `NoFalseAlarm`, wait groups that never go below zero); `DrainedFinish`; `AnnouncementsCome` (`BecomesReady`, `FailureNoticed`); `ShutdownEnds` |
| `webapi` | `CommandClient.cfg`: either store, 3 messages, one that does not parse, removals by others, a disk that fails and recovers at any point; every request of a browser, refused ones too, or every command and option of the client | `AnswersAreHonest`: each 200 and 404 is true of a moment of its request (`AnswersAreTrue`, `NotFoundIsHonest`), and a 500 has a cause (`ErrorsHaveCauses`): a refused request, a disk that failed during it, or a message that was there and cannot be parsed or went before it was opened; `DeletedStaysDeleted`; `CommandIsTrue` (`DeletesWhatItPrinted`, `SuccessMeansDone`); `CommandEnds` |
| `extensions` | an emitter of before-events and an after-event, the hub and the Lua host as listeners, the hub coming and going at both brokers, one channel, 3 Lua states | `PoolSound` (`StateExclusive`, `PoolBounded`); `BrokersSound` (`FirstAnswerWins`); `OnlyOldStatesMiss`; `EventsReach` (`EmitReturns`, `AllAreCalled`) |
| `retention` | either store, 2 mailboxes, any of them unreadable, 2 messages at a time and no end of them, period 0 or 2, a scan every 2 ticks | `OnlyExpiredGo`; `ExpiredGoes`: what is old goes in the end, from the memory store whatever happens, from the file store if others cease to empty mailboxes (`EmptyingCeases`); `JoinReturns` |

Deadlock checking is off where the system really comes to rest: in the stores' bounded instances when
the ids are used up, in the hub when all messages are out, in a session, a command or a process when it
has ended, in AddressPolicy when the text is full. It is on for the file store, whose scan and
lookups are always possible, and for Extensions and Retention, which go on for ever.

### Bounds

`MaxIndex`, `MaxAdds`, `MaxTime`, `MaxId` bound what would grow for ever; they appear in guards and
are constants. Two clients are enough for the enforcer's races, as each involves one request being
served and one caller between its lock and its request; three additions make an eviction, a removal
of the evicted message and a later addition possible together. Capacities of one make full channels,
full rings and exceeded limits happen in every run; two sizes tell a total in messages from a total
in bytes. Cap 2 with three deliveries exercises the cap loop with an index that stays non-empty,
removing the last message the branch that removes the directory. `Width` 2 makes the id counter wrap
within the run.

In AddressPolicy the alphabets hold one character of each kind the code tells apart, and the limits are
small enough for typed texts to pass them; five characters are enough for an opened and closed quote, an
escaped character and a sub-address. In WebApi one caller is enough, as callers meet only in the mailbox,
which others change at every step anyway; three messages make "latest" change under a request and leave
one behind, and the one in the middle, which does not parse, is found by its id and as the latest. `MaxStates` 3 is above what an emitter and an after-event can hold at once, so that no
call waits for a state and a state can be lost. Ages stop one past the period; two mailboxes with a message
each are enough for one that vanishes in every scan before the other. In Shutdown the two mail
services count their sessions in different places and are drained one after the other; a client of each
tells the one that is counted from the one that is accepted, and one event is enough to overtake the hub's
end. One POP3 session meets all that another could do to it: the mailbox changes at every step, and
`StlsElsewhere` sets the state they share; the theorems are for any number of sessions. Two lines asked for
with TOP end before, at and behind the end of a body.
Symmetry (over the mailboxes of `file_store`) is used only where no liveness is
checked and each mailbox's directory is named by the mailbox itself.

### Assumptions on the environment

At most `Width` (10000) deliveries fall into one second, and a restart of the process takes until the
next second: otherwise `generateID` gives an id out twice. A process dies, the operating system does
not: what was written stays written.

### Fairness

Weak fairness on the steps of a goroutine that can run: the Go runtime runs it. Beyond that:
- `MemStore`: strong fairness on `Serve(c)`. A goroutine blocked on a channel waits in that channel's
  FIFO queue, and select chooses at random among ready channels, so a client that is ready again and
  again is served. Nothing is assumed of the callers.
- `MsgHub`: the hub, the broker's goroutines and both goroutines of a websocket run; a write to a
  connection that works ends. Nothing forces events, connections or breaks to happen.
- `SmtpSession`, `Pop3Server`: every read has a deadline (`config.Timeout`), so a session that keeps
  returning to a read on a broken connection ends; strong fairness, as input left in the buffer can
  interrupt the wait. No fairness on the client.
- `CommandClient`: the client runs, and `net/http` serves its requests. Nothing of the mailbox.
- `Extensions`: goroutines run, and the functions they call return - Lua scripts too, which nothing
  interrupts in the code. Listeners, events and channels need not come.
- `Retention`: time passes and the scanner's goroutine runs. Nobody need cancel it. `ExpiredGoes` has one
  assumption on the clients, and for the file store only (`EmptyingCeases`, the hypothesis in the property): from some time
  on, none of them takes the last message of a mailbox. Without it TLC finds the starvation: a mailbox that is filled
  again before every scan and emptied again after its name was read ends each `VisitMailboxes` before the
  mailbox behind it. Nothing in the code excludes that; a scan a minute makes it unlikely.
- `Shutdown`: goroutines run and the timer fires. No fairness on clients, on signals, or on the drains:
  `ShutdownEnds` rests on `timedExit`.

## 4. What is proved

The theorems hold for every value of the constants: every set of clients, mailboxes, sessions,
recipients and messages, every cap, limit, capacity and bound. They rest on the named assumptions of
the modules (`StoreAssumption`, `FileAssumption`, `SessionAssumption`, `ServerAssumption`, `HubAssumption`,
`ApiAssumption`, `CliAssumption`, `PolicyAssumption`, `RetentionAssumption`, `ShutdownAssumption`, `ExtAssumption`: parameters
are naturals, settings Booleans, `None` and a torn index are no element of what they stand beside, sessions
are not after-events), which TLC evaluates in the passing runs, and on
the library's theorems about sets and sequences. Each is `Init => Inv`, one step per action of `Next`,
and a temporal QED by PTL.

### MemStoreProofs

- `TypeCorrect`: the type invariant, inductive by itself.
- `IdsStayInRange`, `CapIsRespected`: need `BoxInv`, the range and uniqueness of ids in each mailbox.
  `AddMessage` gives out `last + 1`; the cap loop (`CapLoopResult` says what it leaves) and every
  removal only take away; the loop never counts past the id just added.
- `CapKeepsNewest`: the action property `CapDropsOldest`, from `BoxInv` and the same lemma.
- `StaleListingsAreSafe`: needs `ViewInv`: whatever a client has listed has an index at most `last` of
  its mailbox, and a stored message with the index of a listed one is that message. It is inductive
  because a new message's index is above everything listed, and purging leaves `last` alone; resetting
  the counters on a purge (mutant `PurgedBox_Fresh`) breaks exactly this step.
- `ListCovers`: needs `ListInv`, on top of `OwnInv`: the enforcer's list has no message twice and none it
  was not told of, a stored message it was told of is in the list, and a delivery on its way is of a
  message it was not told of yet. Taking an element out of a list without duplicates takes out that
  element and no other, which is what the lemmas about sequences are for; a second removal of the same
  message finds nothing, and the message it would have taken is not stored any more.
- `MailboxesAreSound`: the run's `MailboxesSound`, from `TypeCorrect` and the theorems on its parts.
- `BooksAlwaysBalance`: needs `BookInv`, on top of `ListInv`: the total is the size of the messages the
  enforcer was told of that are stored or whose removal is still to be reported (`Ledger`); an id it knows
  names no other message (`SameId`), so that a removal by id is paid back for the message it was charged
  for; without a cap a message that is being delivered has not been lost on the way (`DeliveriesThere`);
  and what is charged fits unless an eviction is under way (`Fits`). A size is a number of bytes: `SizeOf`
  counts the pairs of a message and a number up to its size, so that sums are cardinalities, about which
  the library has theorems.
- `RemovedOnce`, `EveryIdAccounted`: need `OwnInv`: ownership of a removed message - stored, on its way
  to the enforcer in one call, or reported - together with the facts that an idle client owes nothing
  and that every message anywhere has an index at most `last`, so that an addition is none of them.
- `ImplementsTheContract`: each step of `Next` is one of `MailStore`'s or a stutter, under the mapping the
  module gives. A mailbox's listing is what `CHOOSE` names; the lemmas on listings show that there is exactly
  one list of its messages by ascending id, so that adding the greatest id appends, keeping those above
  `first` is `Newest`, taking one out is `RemoveAt`, and a purge is the empty list. The steps of the
  enforcer that do not touch a mailbox are stutters, the one that evicts is a removal.

### StorageProofs: the file store

One invariant, `IInv`, for all four theorems. Its parts:
- `IdInv`, about ids. Every id that was given out is of an earlier second or among the last `burst` numbers
  of the counter (`Given`, stated without `%` so that it is linear). From it: the next number of the counter
  is none of them as long as fewer than `Width` were given out in this second (`NewMessageIds`), mailboxes
  share no id, and delete events name returned ids only. A counter that starts again with the process does
  no harm because the second is a later one (`LaterIds`).
- `ListInv`, about one mailbox and `Listing`, the list that holds for whoever waits for the lock: without a
  failure or a crash on it, its raw files are those of the list and the one file that the call in progress
  has not listed yet or not removed yet; and unless its index was cut, every acknowledged message that no
  event has named is listed.
- `CallInv`, about the call that has the lock: how its list in memory differs from `Listing` at each of its
  steps (`Change`), what is on the disk already, and that its list has no message twice. After a failure on
  the mailbox much less is known, and `DamagedCall` says what: enough for the next write of the index to be of
  acknowledged messages.
- `ScanInv`, about the scan: a mailbox that was there all the time is visited, named, or below a level 2
  directory still to be read.

`DiskIsSound` and `AcknowledgedMailStays` are `ListInv` between two calls; that a list is as long as the set
of its messages is the library's theorem on bijections. `ScansAreComplete` is `ScanInv` when nothing is left
to read. `FilesImplementTheContract`: `Listing` only changes where the index is written (`WriteIndexLists`) or the
directory removed, and there `Change` makes it the contract's append, removal or purge (`WriteIsCall`);
all other steps show nothing (`QuietStep`). It holds while no write has failed, as the run's property says.

### StorageProofs: the retention scanner

- `RemovesOnlyExpired`: needs `ScannerInv`: what a scan takes for expired is past the period at every later
  moment of the scan (`ExpiredIsOld`: time only adds to an age), and with a period of 0 the scanner is
  stopped from the start.
- `RetentionTypeCorrect`: by the same invariant; the ages stop one past the period.

### SmtpProofs: the session

- `TypeCorrect`: the one hard part is `Destination`, a recursion over the recipients. `DestinationType`
  shows by induction that it defines a function (`Course`) and that its values are sequences of mailboxes.
  `NatSetInduction` states induction over the naturals for sets, from the library's theorem that a
  well-founded order has minima: in that form the provers can use it.
- `EnvelopeIsAgreed`: needs `EnvInv`, which extends the agreement to the time a DATA block is read and
  delivered (then the state is DATA), as the answer to that block is what ends the transaction.
- `AcceptedMailIsStored`, `FailedMailIsPartial`: need `DeliverInv`: while the session delivers on a
  working connection, `mail \o due = owed` - nothing is lost between what is stored and what is still
  due - and there is no verdict yet. When `ReadBlock` sets it up, `EnvInv` is what makes the session's
  recipients those the client knows.
- `EnvelopeIsSound`, `AnswersAreTrue`: the properties of the run, from these.

### SmtpProofs: the domains of the address policy

`DomainsAreJudged`: what the policy decides by a domain is right for every text, alphabet, list, pattern and
limit. AddressPolicy's steps only type; the work is about its operators, in three parts.
- A domain passes exactly when its labels do. The loop's state after k characters is known as long as all of
  them were `Right`, a condition on one character, the one before it, and, at a period, the length of the
  label it ends (`Knows`, kept by `LabelTurn`); so the loop passes a text when every character is right where
  it is (`LoopJudges`). `RightMakesLabels` and `LabelsMakeRight` turn that into the labels one by one, where a
  label's length in the text and that of the label cut out of it agree by a bijection (`CountsAgree`).
- A domain is on a list in whatever case: two texts are the same but for the case of their letters exactly
  when their lower cases are equal (`SameLower`), as lower case changes no character twice.
- A pattern refuses what it covers. What the cells of the matrix mean (`Covers`) solves its recursion
  (`CoversSolve`) and nothing else does (`OneSolution`, by induction over the sum of the two positions). The
  second condition of the code overwrites the first only at a literal `*` in the text; none is in a domain
  (`DomainHasNone`).

Assumed of the constants (`PolicyAssumption`): special characters and those above 127 are no letters, no
digits and not each other, and period, backslash, quotation mark, `@` and `[` are of none of them; lower
case is idempotent, maps letters to letters and changes only letters and characters above 127; what
`net.ParseIP` takes is written with letters, digits, periods and colons; lists and patterns are of
characters that have a lower case; the domains put behind a text have no `@`.

### SmtpProofs: quoting and mailboxes

The loop over a local part is a function of the position (`Scan`), and `Learns` an induction over its turns: once
left it stays as it is (`Frozen`); as long as it goes on, the character before, the open backslash and the
open quotation mark are what the text says they are (`Known`, kept by `KnownTurn`).
- What is accepted was split at an unquoted `@` (`LocalSplits`, `AddressSplits`), or the text had none at all;
  then there is no domain, and the empty domain does not pass. Hence `UnquotedSpecialsRefused`: a character that
  needs quotes lets the loop go on only behind a backslash or inside quotation marks (`Escaped`), and the
  domain behind the text has no `@`, so that the split is where the local part ends (`WhereItEnds`).
- `QuotingRoundTrips`: between two characters of `Quote(text)` the loop is outside of quotation marks and has
  written the characters so far (`Bare`), one turn for a plain character and two for one behind a backslash
  (`QuotedFurther`); between quotation marks likewise (`Inside`). `Flattens` says what the library's recursion over a
  sequence of sequences adds for its last element.
- `SubaddressShares`: a longer local part is read like the text, and then `+` and the letter are written
  (`Extended`, `TextIsRead`); the first `+` of the longer name is the text's, or its end, so the name in front of
  it is the same (`CutAt`, `BoxExtended`).
- `FoundUnlessAwkward`: the name of a mailbox is made of plain characters, in lower case and without `+`
  (`IsName`, `NameOfLocal`), so that, unless its periods are where the parser refuses them, it is read back whole
  (`ReadableIsRead`) and is its own name (`OwnName`). One lemma for each naming: in `FullFound` the name is a local
  part with a domain that passed, in `DomainFound` it is a domain, or a local part used as one.

`QuotingRoundTrips` is about texts in ASCII, as the code refuses a character above 127 even between quotation marks,
and about addresses within the limits: the code's own limits of a local part and of a domain (128 and 255) can
together exceed the one of the address (320). The run's alphabet has a character above 127, and its `MaxAddress`
is small enough for a typed address to exceed it.

### Pop3ServerProofs

One invariant, `SessionInv(s)`, for `TypeCorrect`, `MarksAlwaysAgree`, `RemovesOnlyPromised` and
`PromisesAreKept`, which make up `DeletesAreAsPromised`. Ids a session knows were given out before (`Known`), so that
a delivery is none of them; before QUIT nothing is promised and the marks are what was asked for
(`BeforeQuit`); after it, a promised message is gone, refused or still pending (`AfterQuit`).
`KeepsSessionInv` says that a session whose variables do not change keeps this through whatever
happens to the mailbox, so each step is looked at for its own session only.

Of Pop3Replies, whose steps are steps of Pop3Server or leave its variables alone, so that this invariant
holds there too, within `RInv`:
- `NumbersAreLasting`: a session's listing is in ascending order, without repetition, and stays what it is from
  login on; all a client was told is positions of it (`Listing`).
- `StatusLinesAreTrue`: the last reply is true of the state it was sent in, which is the present one
  (`LastReply`; every later step takes the reply back). The count announced is that of the marks because
  DELE and RSET keep the two together (`SessionInv`), and a session that has agreed on TLS sees the shared
  state agreed (`OwnAgreed`).
- `TextIsAsTold`: for a text of any lines. Stuffing keeps a line from being the end of the reply and is taken
  back by the client (`Stuffing`, `ReadBack`); the loop of TOP is unrolled one turn at a time (`OneTurn`), the
  turn at which it would first go wrong being the least of a set of naturals (`TopSends`).

### MsgHubProofs

- `ClosedListenersLeave`: needs `LeaveInv`: a listener that closes, or is about to, and that the hub
  knows or will know (registered, being added, or its addition still queued), has its removal queued
  behind its addition. `TailKeepsLeaving` and `AppendKeepsLeaving` say what the operation channel
  does to that.
- `HistoryIsExact`: needs `HistInv`: each message is dispatched from one place only, once (`Once`), so
  the message that enters the ring was not deleted from it before.
- `FeedsAreSound`: needs `FeedInv`, which has a `SocketInv` for each websocket: it is added at most once,
  hears nothing before it is registered, is removed only when it leaves, and while its channel is open, what
  it has sent to its client, what is queued in its channel and what the hub still owes it are together its
  feed, in order. The playback is the ring filtered, so the types come with `HistInv`; the filter is unrolled by
  induction over sets of naturals (`NatSetInduction`). With connections that stay up, no channel is ever
  closed, and this is the property.
- `FedUntilClosed`: the same where connections break and the hub stops, as long as no channel has been
  closed. After a panic that the hub has recovered from, the rest of an event is lost for the listeners behind
  it: the code promises them no complete feed, and neither does the theorem.

### WebApiProofs

One invariant for `TypeCorrect`, `ReadersAreShownWhatTheyAsked`, `NotFoundIsTrue` and `ErrorsExplained`,
which make up `HandlersAreHonest`, and for `DeletionIsFinal`: a request that waits has lived through what the
mailbox is now, and what it has lived through is of messages that have arrived (`Lived`); it has noticed a
disk that fails (`Noticed`); what a reader has found was what it asked for at some moment (`FoundRight`); and the
properties themselves, per client. `BystanderKeeps` is the
heart: the mailbox only loses messages, also to a write that fails, and gets ones newer than all before
(`BoxMoves`), so what a client was answered stays right whatever the others and the disk do, a message that
had gone does not come back, and one that could not be read cannot be read later (`StaysUnread`). Each
handler is then looked at for its own client. `HasNewest`, that a nonempty set of ids has a greatest, is by
the same theorem about minima as `NatSetInduction`: the greatest is nearest to a bound.

Of CommandClient: `ClientIsACaller` - what the program does is, for WebApi, the steps of one of its callers,
so that `IInv` holds while it runs - and `CommandsAreTrue`, which needs `CliInv`: by phase, what the output
loop has passed is printed and what the delete loop has passed is gone (`Progress`); it stays gone because it
had arrived before (`ListArrived`), and what arrives later has another id.

### ShutdownProofs

`IInv`, stated in Shutdown's terms, for `TypeCorrect`, `ReadyAfterListening` and `AlarmsAreReal`, which
make up `AnnouncementsAreTrue`, and for `DrainsWait`. What a step leaves alone it leaves true: a frame lemma for each part of
the invariant says which variables it is about, and each step is looked at for the parts it disturbs. The parts: each wait group is the number of sessions that run (`WaitGroupsCount`), the ready count
the number of services that have not called `readyFunc` (`ReadyCounts`; a service whose Listen failed
never does), an accept loop loses its listener only after the context is cancelled (`StartOrder`), and a
connection counted at the stop is active or done (`StopOrder`). The counts rest on the library's theorems
about adding to and removing from a finite set: this is where "a wait group never goes below zero" is
proved, for any number of connections.

### ExtensionsProofs

`PoolIsSound` and `OnlyStatesInUseMiss` need `PoolInv`: a state is in use, or in the pool, or gone, and never
two of these, whichever the script's failures and channels drop; and `CallsInv`: a Lua call of an after-event
has a state exactly while it runs, so that the state it puts back is its own and the one it takes replaces
none. A new state is made only when the pool is empty: then all that are alive are in use, and there are
as many as their users (`UsersCounted`), of whom `peak` is the maximum. That a sequence without
repetition stays one when its last element is taken or another is put behind it is proved first
(`FrontOfPool`, `AppendToPool`).

`BrokersAreSound` needs `BrokerInv`: an emitter of a before-event that has come to the listener at `at[e]` has
heard those before it, in the order of the list, and none of them had an answer, so that the first answer
is the one that wins; and no listener is in a list twice, whatever a registration replaces and a removal
filters out.

### Only model-checked

Liveness (`CallsReturn`, `EventsArrive`, `SessionEnds`, `AnnouncementsCome`, `ShutdownEnds`, `CommandEnds`,
`EventsReach`, `ExpiredGoes`, `JoinReturns`): fairness and ENABLED are out of the prover's reach.
Every safety property of every run is stated by a theorem.

## 5. What the models show besides

Places where the code, translated as it is, differs from its documentation, comments or tests. No run is
about them: the properties are stated so that they hold of the code, and each of these is a
behaviour of the model.

| Where | What |
|---|---|
| `mem/maxsize.go:42` | a removal served before the delivery of its message panics the enforcer (`EnforcerRemoveNil`) |
| `mem/maxsize.go:31` | with both a cap and `maxkb`, the messages the cap deleted stay in the total, and the enforcer deletes from a store within its limit |
| `mem/store.go:93` | of two deliveries the newer may reach the enforcer first: it is evicted and the older one stays |
| `socketv2_controller.go:173` | both goroutines of a websocket close its channel (`ClosePanics`) |
| `msghub/hub.go:78` | a listener stays registered that nobody reads, and the hub blocks on it |
| `async_broker.go:25` | a delete event overtakes the stored event: a deleted message stays in the history; and two listeners of one event run together |
| `smtp/handler.go:223` | RSET takes the place of HELO |
| `pop3/handler.go:423` | `+OK`, then `-ERR`, and no end of the text |
| `pop3/handler.go:502` | a line too long: two replies to one RETR |
| `pop3/handler.go:224` | TLS state shared by all sessions |
| `file/mbox.go:163` | a crash while an index is rewritten loses the mailbox |
| `policy/address.go:396` | mail stored under names that no lookup gives (`FoundUnlessAwkward` names the shapes) |
| `policy/address.go:183` | hyphens do not count for the length of a label |
| `policy/address.go:313` | an escaped backslash disappears |
| `smtp/handler.go:162` | sessions that have not added themselves are not waited for |
| `msghub/hub.go:59` | a session that is waited for sends to the hub's closed channel (`EventPanics`) |
| `cmd/inbucket/main.go:118` | a start that fails leaves the pid file |
| `mailbox_controller.go:101` | with the memory store, a missing message is a panic instead of 404 |
| `apiv1_client.go:94` | the Go client's MarkSeen sends no body |
| `cmd/client/match.go:118` | a match that went before its DELETE ends the command with status 1 |
| `cmd/client/main.go:73` | the client's URL does not parse: no command works |
| `file/fstore.go:246` | one unreadable mailbox keeps those behind it from being scanned |
| `file/fstore.go:234` | mailboxes that vanish in every scan keep those behind them from being scanned, for as long as they do (`EmptyingCeases`) |
| `file/mbox.go:110` | any failure of Stat is taken for an empty mailbox: readers are told 404, and a write removes or replaces what is there (`Indexes`) |

## 6. Plan

Done: every component with a state of its own has a module, and each module theorems for all the safety
properties of its run. Left: FileStore's raw files read outside the lock, in one module with its calls; WebApi
has them as `Open`, over a mailbox whose calls are single steps.

## 7. Not modelled

Conversions and I/O, in which nothing is kept between two calls: the HTML sanitizer, MIME parsing and
the formats of messages, headers and JSON, templates, routing and the greeting page, the wording of replies,
the parsing of configuration and of the command lines, metrics, the status page, and the conversion of
values between Go and Lua (`bind_*.go`). The mailbox hash only names a directory. The browser UI is a
program of its own, in Elm, and a client of the REST API. The test helpers were read for what the code is meant to do.

Of modelled components: delays between temporary accept errors; deadlines and pings of connections, which
are the event that a connection breaks; the argument counts and syntax errors of SMTP and POP3 commands,
which are one refusal each; in the file store the seen flag (its rewriting of the index is modelled) and a
Stat that fails for another reason than a missing file (WebApi has it).

Three things a test would hardly reach have no property. The readers of messages and attachments in
`mailbox_controller.go:129` are never closed, which only a bound on open files would show, and the models
have none. A Lua state whose script has overwritten its `inbucket` object is dropped without being closed
(`lua.go:253`): the loss is in the model (`StateFails`), and nothing in the code or its documents says
otherwise. An event emitted after the hub has closed its channel (`hub.go:57`) panics: that too is a step
of the models (`SendOnClosed`, `EventPanics`) and no property excludes it.
