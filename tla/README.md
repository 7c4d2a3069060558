# A verification of mailchatd in TLA+

mailchatd is a mail server (a fork of maddy) with a Cosmos/EVM node around it.
The mail server is where the program's own concurrent and fault-handling logic
is: it accepts messages, decides what to do with them, promises to deliver them,
and keeps that promise through retries, crashes and shutdowns. This directory
models that logic in TLA+, from the configuration file and the start of the process
to the last hop of a message and the commands an administrator runs beside it, checks
it on small instances with TLC, and proves for every size, with TLAPS, the central facts
about the queue and its time wheel, the sessions, the limits, the connection pool, the
message pipeline and the mail storage.

Paths below are relative to the repository. `PROJECT.json` holds the line-by-line
map from definitions to code, the runs, the mutants and the list of hazards.

## 1. The system

    mailchatd.conf -> cfgparser -> config.Map -> module registry -> hooks, signals, reloads
                                                     |
    client -> endpoint/smtp Session -> msgpipeline -> targets
                  |  limits              |  checks     |- queue -> (time wheel) -> remote -> smtpconn/pool
                  |                      |  modifiers  |- imapsql -> updatepipe -> IMAP endpoint
                  `- auth                `- tables     `- smtp/lmtp relay
    administrator -> creds, imap-acct, imap-mboxes, imap-msgs, dns commands -> the same tables, mailboxes, keys

### Inventory

| Component | State | Operations | What is hard |
|---|---|---|---|
| `internal/target/queue/queue.go` | three files per message, slots on the wheel, a semaphore, goroutines | Start, AddRcpt, Body, Commit, Abort; dispatch, tryDelivery, deliver, emitDSN; start, readDiskQueue, Close | crash between any two file operations, storage errors, panics, shutdown while goroutines add slots |
| `internal/target/queue/timewheel.go` | list of slots, `stopped`, two unbuffered channels | Add, tick, Close | rendezvous of three kinds of goroutine, state read under a lock and used after it |
| `internal/endpoint/smtp` | session fields, delivery object, permits, session count | NewSession, AuthPlain, Mail, Rcpt, Data, LMTPData, Reset, Logout | command sequences, deferred rejection, Logout from another goroutine |
| `internal/limits` | counters per scope and per key, buckets with a time stamp | TakeMsg, ReleaseMsg, TakeDest, ReleaseDest | several scopes taken one after another, deadlines in the middle, a full set of buckets |
| `internal/smtpconn/pool` | map from key to a channel of idle connections | Get, Return, CleanUp, Close | channel operations outside the lock, aging, closing |
| `internal/msgpipeline` | check states, modifier states, deliveries, original recipients | Start, AddRcpt, Body, BodyNonAtomic, Commit, Abort | failure at any of many calls, states started late and replayed, address rewriting |
| `internal/target/remote` | a connection per domain, destination permits, futures of the MX policies | Start, AddRcpt, Body, BodyNonAtomic, Commit, Abort | pooled connections made for other messages, lookups that end late, relaxed REQUIRETLS |
| `internal/smtpconn` | one client connection | Connect, Mail, Rcpt, Data, LMTPData, Close | partial results, fall-back from TLS |
| `internal/target/smtp` | one connection of a relayed message | the delivery methods | fail-over between servers, LMTP replies per recipient |
| `internal/storage/imapsql`, `internal/updatepipe` | a delivery over an SQL library; a socket and a pump goroutine per process | the delivery methods; Push, Subscribe, Listen, Close | updates torn, reordered or seen by their sender; a crash leaves the socket |
| `internal/check`, `internal/dmarc` | per-message check state, futures | CheckConnection, CheckSender, CheckRcpt, CheckBody; FetchRecord, Apply | answers merged in any order, decisions one check leaves to another |
| `internal/modify`, `internal/table` | address maps, DKIM keys on disk, a transaction on the chain | RewriteSender, RewriteRcpt, RewriteBody, Lookup | half of several values mapped; keys made twice; effects before Commit |
| `internal/auth` | credentials table, one LDAP connection, provider lists | AuthPlain, SASL exchanges, CreateUser, SetUserPassword, DeleteUser | name maps, a shared connection bound as one user after another |
| `framework/cfgparser`, `framework/config` | tokens, macros, snippets; matchers | Read; Process | nesting, expansion, inheritance and defaults |
| `framework/module`, `framework/hooks`, `cmd/mailchatd/cmd/mail.go`, `signal.go` | instances, aliases, hooks, signals | RegisterModules, GetInstance, initModules, handleSignals | initialisation on first reference, order of Close, signals during shutdown |
| `internal/table/file.go`, `internal/tls/file.go` | a table, certificates, their reloader goroutines | reload, Close | files replaced while they are read, a goroutine that must stop |
| `cmd/mailchatd/cmd` (creds, imap-*, dns) | the files and tables of a running server | the commands | they run beside the server |
| `app`, `precompiles`, `ante`, the chain commands | chain modules, an EVM precompile | wiring and administration | state machines are libraries |

Interactions are synchronous calls (session to pipeline to targets), except for the
wheel (goroutine and channels), the queue's goroutines, the ticker of the pool, the
checks of one list (parallel, joined before their result is used), the lookups behind
futures (MX policies, reverse DNS, SPF, DMARC), the update pipe, the reloaders and
Logout on shutdown. The permits of `limits` are shared by all sessions, the database and
the key files by several processes.

### What makes each part correct

* **Queue.** A message whose Commit returned is never lost; one goroutine works on
  it at a time; only recipients that failed temporarily are retried, at most
  `max_tries` times; it is finished at some point; no files of finished messages stay behind.
* **Time wheel.** Each slot is dispatched exactly once and in time; neither Add nor
  Close blocks for ever.
* **Session.** A delivery belongs to the current transaction, is ended once and not
  used after that; permits taken equal permits released.
* **Limits.** Permits in use are those of calls under way; nobody waits for ever.
* **Pool.** A connection has one owner; none is forgotten; no operation on a closed
  channel.
* **Pipeline.** A message is committed everywhere or nowhere (up to Commit); each
  recipient was checked before a target hears of it and reaches all of its targets;
  a quarantine mark survives; failures come back to the recipient as given.
* **Remote and relay.** No message or password goes over a connection that policy,
  REQUIRETLS or configuration forbid; what was taken is given back; statuses are what
  the servers said; a policy never waits for a future nobody sets.
* **Storage.** One copy per account; updates arrive once, in order, at the others;
  Close flushes, returns and leaves the socket free.
* **Checks.** The configured action is what happens, however the answers are merged;
  SPF and DMARC leave no gap between them; a milter session is ordered and closed.
* **Server.** The configuration in force is the one that was written; instances are closed
  once and before what they use; reloads are whole and happen in the end; the shutdown ends.
* **Authentication and tools.** The identity of a session is the one whose password was
  checked; a command that reports success did what it says; a signature can be verified
  with the published key; a rewrite loses nobody.

## 2. The modules

| Module | Models | How it corresponds |
|---|---|---|
| `Queue` | queue.go | `files`/`meta`: the directory; `slot`, `wheel`: the wheel as seen from outside; `qd`: a queueDelivery; `work[g]`: the goroutine of dispatch with its position in tryDelivery; `todo`, `boot`: readDiskQueue. One action per file operation or channel operation. |
| `DeliveryPromise` | nothing (abstract) | what a queue promises: at-least-once per (message, recipient); `Queue` implements it (checked and proved) |
| `TimeWheel` | timewheel.go | `apc`, `tpc`, `cpc`: positions of Add callers, tick and Close; one action per critical section or channel operation |
| `WheelContract` | nothing (abstract) | the interface `Queue` uses; `Queue` steps on `wheel` and `slot` are steps of this contract by inspection, `TimeWheel` implements it (checked and proved) |
| `SmtpSession` | session.go, smtp.go | a handler runs under `msgLock` and is one action; `conn` is what go-smtp knows, `sess` the Session |
| `Limits` | limits.go, limiters/ | `use[l]`: a limiter's counter, `lastUse`: the keys of a BucketSet, `call[c]`: a caller's position |
| `ConnPool` | pool.go | `keys`: the map, `buf`, `shut`: channels, `user`: callers of Get/Return, `ticker`, `closer` |
| `MsgPipeline` | msgpipeline.go, check_runner.go, modify/group.go | a call is an agenda of tasks, one per external call the code makes; an error replaces the agenda |
| `SmtpConn` | smtpconn.go | operators: a connection is a record, an operation the set of records a server can make of it |
| `MxPolicy` | security.go, dane.go, policy_group.go | operators: PrepareDomain, CheckMX, CheckConn of MTA-STS, DANE, DNSSEC and the local policy |
| `RemoteTarget` | remote.go, connect.go over `MxPolicy` and `SmtpConn` | `cur`: the position inside connectionForDomain, `conns`: connections of the delivery, `fut`/`lookups`: futures and the goroutines that set them, `pool`: one idle connection per domain, `dest`: permits |
| `Relay` | target/smtp over `SmtpConn` | `rel`: one delivery as a record with a program counter |
| `Outbound` | | either of the two targets; the properties of both |
| `ImapStorage` | imapsql, updatepipe, the update side of endpoint/imap | `dlv`, `box`: a delivery and the mailboxes; `out`, `inb`, `wire`, `pump`, `sock`: channels, sockets and goroutines of a server and a tool |
| `CheckModules`, `Dmarc` | modconfig/action.go, the modules under check/, dmarc/ | operators: the set of answers each callback may give; the DMARC evaluation |
| `Checks` | check_runner.go with the checks above | one message: `todo`, `batch`, `merged` are a stage under way; `futures` the goroutines of rDNS, SPF and DMARC |
| `ConfigParser`, `ConfigMap` | cfgparser/, config/map.go and its conversions | recursive operators over lines of words |
| `ServerLife` | module/, hooks/, mail.go, signal.go, table/file.go, tls/file.go | `stack`: nested Inits, `hooks`, `sig`, `run`: handlers under way, `tab`, `certs`: what is loaded and where its reloader is |
| `Server` | the configuration of a server, over the three above | the operator writes `text`; Run parses it and starts `ServerLife` |
| `AuthProviders`, `Credentials` | auth/, the creds command | operators per provider; `login[s]`, `cmd[t]`: positions of logins and commands, one step per SQL statement or LDAP operation |
| `Mailboxes` | the imap-acct, imap-mboxes and imap-msgs commands | `store`: the account, `op[t]`: a command, one step per call of the storage |
| `Tables`, `Signing` | table/, replace_addr.go, dkim/, blockchain_tx.go, dns.go | operators for lookups; `files`, `boot`: key files and starts, one message at a time |
| `Tools` | | one of the three parts above |
| `MC*` | | instances for TLC |
| `QueueProofs`, `TimeWheelProofs`, `ServerProofs`, `AdmissionProofs`, `SharedProofs`, `MsgPipelineProofs`, `ImapStorageProofs`, `OutboundProofs` | | theorems about the module of that name (`ServerProofs`: about `SmtpSession` and `ServerLife`; `AdmissionProofs`: about `Limits` and `Checks`; `SharedProofs`: about `ConnPool` and the parts of `Tools`), with their proofs; the inductive strengthenings are defined in the module itself, or, for `OutboundProofs`, at its head |

Recipient lists of the queue are bags, because `AddRcpt` may add an address twice and the
loop of tryDelivery counts per entry. Errors are classes (temporary, permanent), because
the code only asks `IsTemporaryOrUnspec`. Addresses, keys, hosts and domains are model
values or members of small sets; conversions between them (ASCII and Unicode forms,
normalised names, organisational domains, the 32-bit append limit) are functions the
configurations give. What a library, a remote server, a daemon or DNS does is a choice
among what its interface allows.

`Outbound` and `Tools` put parts side by side that share no state; a behaviour belongs
to one of the parts, so that one run checks several without multiplying their states.

A run checks a property by the name of a conjunction of named parts, each part with its
own comment where it is defined; the type invariant of the module is the first of them.

Definitions whose comment begins with "Mutant" (or that carry a `\* mutant` remark)
are seeded mistakes. Each property has one: with it in place of the real definition,
TLC must report a violation of that property.

## 3. What TLC checks

| Run | Instance | Shows |
|---|---|---|
| `queue` | one message, two recipients each added up to twice, `max_tries` 2, one permit; one crash, one fault (storage error, failing DSN, panic), any number of graceful shutdowns | `TypeOK`, `NoSilentLoss`, `SingleFlight`, `RetryOnlyFailed`, and that Queue implements DeliveryPromise (`KeepsPromise`) |
| `queue_live` | two messages (one with a null return path) that compete for one permit, one crash, fair | `EventuallyFinished`; `NothingLeftBehind`: `NoGarbage` (after at most one interruption, `InterruptedOnce`), `AbortedNotDelivered`, `CutNotDelivered` |
| `wheel` | three callers of Add, two calls of Close, two instants | `SlotsOnTime`: `EachSlotOnce`, `ArmedForEarliest`, `SlotTimes`, `CloseHandshake`; `EventuallyDispatched`, `NobodyBlocks`, and that TimeWheel implements WheelContract (`KeepsContract`) |
| `session` | two sessions, two MAIL commands each, both values of `defer_sender_reject`, one permit per domain | `DeliveriesCurrent`: `SessionShaped`, `NoUseAfterEnd`, `DeliveryIsCurrent`; `PermitsBalanced`: `NoMismatchedRelease`, `DeferredPermitsMatch`, `ReleasableSender` |
| `limits` | two callers, limits in all four scopes, two domains and room for one bucket | `Accounted`: `CallsShaped`, `BucketsKept`, `PermitsAccounted`, `PanicsNamed`; `EveryCallAnswered` |
| `pool` | two users, two keys (room for one), two connections, two channels, three instants | `ConnectionsKept`: `UsersShaped`, `OneOwner`, `MapChannelsOpen`, `NoIdleLost`; `CloseReturns` |
| `pipeline` | three AddRcpt calls over three addresses, a list address, an alias, tables, two targets (one partial), a check per list, DMARC, SMTP and LMTP | `AtomicDelivery`; `RecipientsTracked`: `AcceptedReachesTargets`, `FailureReported`; `ChecksCount`: `CheckedBeforeTargets`, `QuarantineKept`, `ChecksClosedAtEnd` |
| `remote` | two messages of target.remote, two domains (one not ASCII, one with two MXs), all policies, a pool; or a message of target.smtp / target.lmtp over two endpoints, with an address that may be given twice | `SecurityHonoured`: `RequireTLSHonoured`, `PolicyEnforced`, `PoliciesInUse`, `RelaySecured`; `ResourcesReturned`: `PermitsAccounted`, `PoolClean`, `RelayClosed`; `StatusesTruthful`: `StatusTruthful`, `BodyAnswersForAll`, `RelayStatusTruthful`; `FuturesPending` |
| `storage` | one message to two recipients of one account, a tool with four changes, channels of one, restarts, one crash or failing InitPush, fair | `TransfersSound`: `StoredOnce`, `NoEchoNoReorder`; `CleanStop`: `FlushedOnClose`, `CleanRestartListens`; `CloseReturns` |
| `checks` | six groups of checks (SPF with DKIM and DMARC, DNSBL, authorize_sender, milter, requirements on DNS, command and rspamd), each with the messages and settings that tell its answers apart, two recipients, fair | `AnswersEnforced`: `ActionsEnforced`, `QuarantineReachesMessage`, `SenderAuthorized`, `ListedScore`; `DmarcDecides`: `SpfLeftToDmarc`, `DmarcFetchFails`, `DmarcNeedsAlignment`; `MilterDialogue`: `MilterInOrder`, `MilterAcceptIsFinal`, `SessionsClosed`; `EveryStageAnswered` |
| `server` | every file of up to four lines out of a small vocabulary, and fifteen complete configurations; a table file edited twice, one rotation of certificates, two signals, fair | `ConfigAsWritten`: `ReadByBraces`, `FullyExpanded`, `NoTLSOnlyIfSaid`; `ClosedInOrder`: `ClosedOnce`, `CloseOrder`, `ReadyIsComplete`; `ReloadsCatchUp`: `NoTornTable`, `TableCatchesUp`, `CertsCatchUp`; `ShutdownEnds` |
| `tools` | two commands or logins over a table of three names, one of them not valid, one failure, every provider, plain_separate without `pass` too; two imap commands and two messages; three keys, three starts, one transaction | `CommandsTruthful`; `LoginsChecked`: `IdentityChecked`, `SearchesAsReader`, `ConnReturned`, `ExpiredRefused`; `MailboxToolsTruthful`: `AddedUIDNamed`, `RemovesWhatWasAsked`, `AccountComplete`; `SignerPublished`; `RewritesComplete`: `SignedAsSent`, `RecipientsComplete`, `TxDelivered` |

The runs take between twenty seconds and three minutes with two workers, and reach from
ninety thousand to two and three quarter million distinct states.

### Claims the code does not keep

Some definitions state what a comment, a test or the documentation of the repository
says of the program and the program does not do. They are in no configuration; added
to the one named, TLC prints a counterexample.

| Definition | Configuration | What happens |
|---|---|---|
| `Queue!NextTryRereads` | `MCQueue.cfg` | Close closes `updateNotify` under a goroutine in wheel.Add; it panics and the message becomes `.meta_broken`, so no later try rereads it |
| `Queue!NothingDangles` | `MCQueueTwo.cfg` | a crash before Body wrote the meta-data leaves header and body for ever, because readDiskQueue only looks at `.meta` files; queue_test.go:548 says "Nothing should be left" in a sub-test that is skipped |
| `SmtpSession!PermitsMatch` | `MCSmtpSession.cfg` | without deferred rejection, Mail overwrites the cleaned sender with the raw one (session.go:309); the permit of the cleaned domain is never released |
| `Limits!DestinationLimited` | `MCLimits.cfg`, with other limits for destinations than for sources | destination limiters are built from the source list (limits.go:122) |
| `Limits!FullSetRefuses` | `MCLimits.cfg` | bucket.go:31 says that Take returns false when all buckets are in use; it panics on a nil bucket, and the permits taken so far are lost |
| `MsgPipeline!RefusedStaysOut` | `MCMsgPipeline.cfg` | a recipient that a check rejected is accepted when it is given again (check_runner.go:255) |
| `MsgPipeline!CommitNeedsBody` | `MCMsgPipeline.cfg` | LMTPData commits targets that never got a body (session.go:555) |
| `RemoteTarget!FailureReported` | `MCOutbound.cfg` | the status of a recipient that was sent in its ASCII form comes back under that form and is lost |
| `RemoteTarget!PolicyOfDomain` | `MCOutbound.cfg` | a late MTA-STS lookup sets the future of the next domain (security.go:164) |
| `RemoteTarget!PoliciesApplied` | `MCOutbound.cfg` | a connection made for a message that overrides the policies (`TLS-Required: No`) goes to the pool and is used by a message that does not |
| `RemoteTarget!PathToMXSecured` | `MCOutbound.cfg` | connect.go:267 says that security is strictly enforced on the path to the MX; relaxing REQUIRETLS at one server clears the flag of the message, so the domains after it are reached over any connection |
| `RemoteTarget!DestPermitsReturned` | `MCOutbound.cfg` | a MAIL command that is refused after TakeDest (connect.go:275) never gives its permit back |
| `RemoteTarget!FuturesPopulated` | `MCOutbound.cfg` | future.go:29 says that a future "will be populated later"; a recovered panic of the DANE lookup (security.go:482) leaves its future unset |
| `Checks!DmarcPanicPropagates` | `MCChecks.cfg` | verifier.go:83 says that Apply panics when the lookup goroutine did; it returns a permanent error and the message is accepted without a policy |
| `ImapStorage!SurvivesTornUpdate` | `MCImapStorage.cfg` | the reader dereferences a nil update after a line that does not parse |
| `ServerLife!TermReturns` | `MCServer.cfg` | a termination signal behind SIGUSR2 is not handled when the reload hook waits for a reloader that panicked |
| `Credentials!PasswordSet` | `MCTools.cfg` | a password that was set is not the one logins are checked against: SetUserPassword of pass_evm does nothing and reports success (evm.go:99), and a SetKey whose INSERT fails by itself runs an UPDATE that meets no row (sql_query.go:240) |
| `Credentials!OnePassword` | `MCTools.cfg` | plain_separate without `pass` accepts every password (plain_separate.go:131) |
| `Signing!RecipientsValid` | `MCTools.cfg` | replace_addr.go:144 puts the domain behind a replacement that starts with a quote, although it has one, and checks no local part, not even an empty one |
| `Signing!RefusedIsFree` | `MCTools.cfg` | a message whose transaction the chain took is refused whenever it comes again (blockchain_tx.go:67) |

### Bounds and why they are enough

* Queue: two recipients let one be delivered, one retried and one given up on in the
  same try; two tries is the least `max_tries` that has a retry; two copies of an
  address is the least that shares a counter; one crash at any step, followed by a
  restart that may itself be shut down, covers every partial state of the three files
  (the proofs hold without any of these bounds). The interplay of two messages is only
  the semaphore, hence the second run.
* Time wheel: the third slot may be earlier than, equal to or later than the one tick
  is armed for, while another Add is between its push and its send; the second Close
  is the one that must not wait.
* Session: two sessions compete for a domain; the second transaction is the one that
  could see leftovers of the first.
* Limits: the global scope has two limiters so that a deadline can fall inside a
  MultiLimit; one bucket and two domains make the set overfull.
* Pool: one key more than fits makes Return run its clean-up; a second connection and a
  capacity of one make a channel full.
* Pipeline: three AddRcpt calls allow a refused recipient, one accepted after it and a
  repetition; block checks start late in the second, so that earlier recipients are
  replayed.
* Remote: the second message is the one that finds the first one's connection in the pool
  and its lookups still under way; the second domain is the one a relaxed REQUIRETLS or a
  late future could reach; `ConnReuseLimit` 1 makes a connection reach its limit.
* Storage: channels of one are full after one update, so that every sender blocks; the four
  changes of the tool fill the output channel, the socket and the input channel and leave
  one in hand.
* Checks: groups, because checks share nothing but the merge of their answers, which two
  of them exercise in every order; two recipients allow one to be refused.
* Server: four lines hold a block in a block, an import of a snippet that imports, and a
  macro used in a macro; a second edit can fall inside the reload of the first.
* Tools: two commands is the least that interleave; three starts let a key be made by one,
  lost in another and replaced by the third.

Deadlock checking is off in all runs: all of these systems may stop (a shut-down
queue without messages, a session after its last command). That nothing waits for
ever is stated as liveness instead.

### Fairness

* Queue: goroutines, the wheel's dispatch and a restarted process keep running (weak
  fairness: the Go scheduler runs runnable goroutines and the service manager restarts
  the process). Senders on the semaphore channel are served in FIFO order by the Go
  runtime, which a model without the order states as strong fairness of `Open`. A
  source that called Commit gets its answer. Nothing is assumed of sources, crashes
  or shutdowns; `queue_live` has no shutdown, because a message may legitimately
  wait in a queue that is not running.
* Time wheel: runnable goroutines run and time passes; nobody has to call anything.
* Limits: a goroutine inside a call keeps running, and its deadline passes. Nothing is
  assumed of callers that hold permits.
* Pool: the ticker goroutine and the caller of Close run; `select` chooses at random
  among ready cases, so the stop case is not passed over for ever (strong fairness of
  `CloseStops`).
* Storage: pumps and readers run; the `select` of a pump does not prefer one ready case
  for ever (strong fairness of `PumpOut`, `PumpIn`). Close is only ever answered by a pump
  that still runs, hence the exceptions `CloseReturns` names.
* Checks: lookups have timeouts and a check is an ordinary call, so each of them ends. The
  caller may leave a message where it is. For two checks the code itself sets no bound, and
  the fairness is an assumption about what they call: the HTTP request to rspamd
  (rspamd.go:125) and the process check.command waits for (command.go:268).
* Server: start, handlers and reloaders run and tickers tick; a sender on an unbuffered
  channel is served when the receiver returns to its select, because the next tick is
  seconds away (strong fairness of the sends). Operators, edits and signals need not come.

## 4. What is proved

Every theorem is of the form `Spec => []P`, or `Spec => P` for a refinement, where `P` is
a property some run checks, or a named part of one. TLC shows it for the instance of section 3, the theorem for
every value of the constants that satisfies the named assumption of the module.

| Module | Theorem | States | From |
|---|---|---|---|
| `QueueProofs` | `TypeCorrect`, `NothingLost`, `OneGoroutinePerMessage` | `[]TypeOK`, `[]NoSilentLoss`, `[]SingleFlight` | `ConstantsAssumption` |
| | `QueueKeepsPromise` | the queue implements `DeliveryPromise` (`KeepsPromise`) | |
| | `RetriesBounded` | `[]RetryOnlyFailed` | |
| | `QueueCleansUp` | `[]NothingLeftBehind` | |
| `TimeWheelProofs` | `WheelCorrect` | `[]SlotsOnTime` | `WheelAssumption` |
| | `WheelImplementsContract` | the wheel implements `WheelContract` (`KeepsContract`) | |
| `ServerProofs` | `SessionsCurrent`, `SessionPermits` | `[]DeliveriesCurrent`, `[]PermitsBalanced` | `SessionAssumption` |
| | `ModulesClosedInOrder`, `TablesWhole` | `[]ClosedInOrder`, `[]NoTornTable` (a part of `ReloadsCatchUp`) | no assumption; `LifeSpec` |
| `AdmissionProofs` | `LimitsAccounted` | `[]Accounted` | `LimitsAssumption` |
| | `ChecksEnforced`, `DmarcDecidesAlways` | `[]AnswersEnforced`, `[]DmarcDecides` | `ChecksAssumption`; `ChecksSpec` |
| | `MilterHeardInOrder` | `MilterDialogue`: two invariants and an action property | |
| `SharedProofs` | `PoolCorrect` | `[]ConnectionsKept` | `PoolAssumption` |
| | `CommandsSayTheTruth`, `LoginsAreChecked` | `[]CommandsTruthful`, `[]LoginsChecked` | `CredentialsAssumption` |
| | `MailboxToolsSayTheTruth` | `[]MailboxToolsTruthful` | `MailboxesAssumption` |
| | `SignerPublishes` | `[]SignerPublished` | `SigningAssumption` |
| `MsgPipelineProofs` | `PipelineAtomic`, `PipelineChecks`, `PipelineTracks` | `[]AtomicDelivery`, `[]ChecksCount`, `[]RecipientsTracked` | `PipelineAssumption` |
| `ImapStorageProofs` | `StorageSound`, `StopsClean` | `[]TransfersSound`, `[]CleanStop` | `StorageAssumption` |
| `OutboundProofs` | `OutboundSecure`, `OutboundReturns` | `[]SecurityHonoured`, `[]ResourcesReturned` | `RemoteAssumption`, `RelayAssumption` |
| | `OutboundTruthful`, `OutboundFutures` | `[]StatusesTruthful`, `[]FuturesPending` | |

`LifeSpec` starts the process with any configuration in `Config`, that is, with any blocks,
kinds, names, aliases and references at all. In `Server` the parser supplies the
configuration; that it is a member of `Config` is part of the type invariant TLC checks there,
and from then on the steps of `Server` are those of `LifeSpec`.

The assumptions say what sort each constant is. The clauses that say more are:
`SessionAssumption` takes it that normalising an address twice is normalising it once and
that CleanDomain leaves a domain that is in canonical form as it is (both hold of
`address.CleanDomain`; without the second one an address could be counted under one domain
and given back under another); `PipelineAssumption` that there is an address and that no
destination block is called "global" or "source" (these are names of the model for the two
other groups of modifiers); `StorageAssumption` and `PoolAssumption` that the value standing
for nil is none of the others; `RemoteAssumption` that the two minimum levels are levels; `RelayAssumption`
that the relay has an endpoint to connect to (the configuration requires one);
`CredentialsAssumption` and `SigningAssumption` that at least one provider and one domain are
configured (modify.dkim refuses to start without a domain, AuthPlain refuses a login without
asking anybody when there is no provider) and that what CompareKey makes of a name is a key;
`ChecksAssumption` that an action rejects or quarantines and not both (ParseActionDirective makes
no other), that a DMARC record has a policy, and that an address of the message is one the
sender tables have a line for or one that does not normalise; `MailboxesAssumption` that the folders imap-acct create makes have names of mailboxes
and that the server is not one of the commands.

An invariant worth having is seldom inductive. What had to be added says why the code is
right, so it is defined beside the property and was checked by TLC before it was proved.

**Queue, NothingLost.** `NoSilentLoss` speaks of messages whose Commit
has returned and of files only, while a step that removes files is justified by what
a goroutine has in memory. The inductive invariant has two parts.

* `ShapeInv`, who may touch what: `StoredSoFar` (the files a source has written in Body
  are there), `PrivateUntilCommit` (no slot, goroutine or readDiskQueue is on a
  message before its Commit), `TodoIntact` (entries that readDiskQueue has not reached
  are touched by nobody), `DownIsEmpty` (a process that is down has nothing in memory).
  It is proved first, on its own.
* `LossInv`, what is owed: `OwedIsKept` (an unsettled recipient of a stored message is
  named by complete files), `WorkCovers` (the list a goroutine holds, together with
  its `failedRcpts`, names every recipient it owes, and a goroutine that removes files
  owes nothing), `CleanOwesNothing` (readDiskQueue cleans up messages that owe nothing).

The step proof has one lemma per conjunct and in it one step per action. Frame lemmas
(`SourceFrame`, `WorkerFrame`) say which message an action may touch, so that the
cases of other messages are disposed of once. The data lemmas are about tryDelivery's
arithmetic (`GivenUpEntriesType`, `NewMetaType`, `ErrorsSplit`: an entry with an error
is requeued or reported) and about the target's replies (`RepliesSound`: a recipient
without an error was taken). `OwesShrinks` says that only a successful Body makes a
message owed.

**Queue, OneGoroutinePerMessage** follows from `ShapeInv` and itself: a slot is added only by
Commit (nobody else is there), by readDiskQueue (nothing survives a restart) or by the
goroutine that lets go of the message.

**Queue, QueueKeepsPromise.** The state of the promise is a function of the files and of what
was delivered and bounced. A step that rewrites the meta-data is a step of the promise only
if it names nobody new, and one that drops a name only if that name was settled; that needs
`LossInv` and `MemoryMatches` (a list that a goroutine has in memory names nobody the file does
not name, and the first try has the list of the source).

**Queue, RetriesBounded.** `RetryInv` says for each message without duplicates what its list
means at each point: a name is on the list of the file, or of the one goroutine on the
message, only if it was neither delivered nor given up on, and its counter is the number of
tries. `SingleFlight` is what makes "the one goroutine" right.

**Queue, QueueCleansUp.** `LeftInv` follows from the order in which both removals go (header, body,
meta-data last): as long as one interruption happened, what is left of a message can still be
told from its meta-data, so that readDiskQueue finds it. `GoneShape` covers the messages whose
source went away with the process: before Body wrote the meta-data (`qd` "cut") there are only
header and body, which nobody touches again; after it ("orphaned", "dead") the message is as
complete as a committed one. TLC showed that a second interruption breaks the order (section 5),
and the property says so (`InterruptedOnce`).

**Time wheel.** `SlotsOnTime` is inductive because of `SlotTimes` (a value in the list has the
time its caller asked for, and a caller is in the list exactly between its push and its
dispatch) and `CloseHandshake` (where Close and tick may be when `stopped` is set, when the
notification channel is closed and when the stop channel is nil). `ArmedForEarliest` excepts
callers that have pushed and not yet notified tick; they are why the refinement mapping lets an
Add take effect when it pushes its slot.

**Session.** `SessionInv` is the conjunction of both properties: permits are counted by
deliveries, and a delivery's permit is released under the sender it was taken for
(`ReleasableSender`) because `SessionShaped` ties the fields of the Session (`delivery`,
`mailFrom`, `deliveryErr`) to the state of the protocol library.

**Process life.** A module is initialised when it is first referred to, so the order of the hooks
follows from the order in which nested Inits return. `LifeInv` says of the objects whose Init
was called (`Held`): none is held twice (`HeldOnce`); one is held exactly if its block carries
the mark of GetInstance or lies before the endpoint that is next (`HeldIsMarked`,
`MarkedIsHeld`, which need `NamesDistinct`: no two blocks share a mark); a module holds what
its Init asked for so far (`DepsHeld`); and the Inits under way were called one by the other
(`StackChains`), so that an Init that is given a module still under way is on a circle with it.
From these, `HooksOrdered` puts the hook of a module after those of the modules it uses, and
`ClosedFromLast` runs the list backwards. `Reaches`, the transitive closure of the references,
is defined by closed sets of blocks, so that it needs no recursion: that it contains the
references and is transitive follows from the definition.

`TableInv` is about the two looks at the modification time around a read. Every write has a time of its
own, so that the time seen before the read of a half-written file is not the file's any more
when it is looked at again, unless a copy was put back.

**Limits.** `Holds(c)` computes from the position of a call in TakeMsg or TakeDest which limiters it has taken;
`PermitsAccounted` says that a counter is the number of its holders. It needs `BucketsKept`:
a bucket somebody holds or waits for is in its set, so that the release finds the same
limiter. The proof counts holders by adding and removing one element of a finite set. A call
that panicked stays where it was and holds what it had taken: that is how the permits a full
bucket set loses are counted. `PanicsNamed` is a matter of the two positions a call can panic at.

**Checks.** The answers of a list go through three places, and `CausesKept` follows them: what
a check said is in the batch while the stage lasts (`OfBatch`; for a recipient, while it is the
one asked about), and afterwards in the merged result or in the answer of the list, unless it is
about a recipient that was refused (`Counted`). `Wanted` says what a cause asks for, by the
configuration or by what a milter, rspamd or the lists said themselves. `CausesStaged` and `StagesInOrder` say which stages a
cause can come from, so that none is from a stage yet to come. The lemmas about each check
(`SpfFacts`, `MilterFacts`, `AuthorizeFacts`, `QuietFacts` for the rest) give what its callbacks can say, whatever the
configuration; the steps of the runner need no more than that.

`SendersHeard` and `ScoreKept` hold what one check has established once it has answered a
stage (`Settled`). For DMARC, `SpfOnce` says that a message gets one SPF result at most,
which makes the result that Verifier.Apply looks at the one check.spf added;
`LeftToPolicy` that SPF, where it left the decision, had seen a policy that decides;
and `VerdictOfPolicy` that the policy in hand is one the lookup can give, and that the verdict
was computed from it and the merged results. SPF and the pipeline look the policy up
separately. A lookup has one outcome when it does not fail, so the policy SPF saw is the policy
DMARC applies, a lookup that fails for the moment rejects, and one that fails for good or panics
leaves the message with a permerror and no policy (`DmarcFetchFails`).
`DialogueKept` bounds the last command the milter heard by the stage the list is in
(`MilterStage`).

The attempt to prove `DmarcNeedsAlignment` showed that EvaluateAlignment had been written as
a CASE with arms that overlap; it is now the chain of conditions that the code is.

**Pool.** `OneOwner` and `NoIdleLost` need each other and `UsersShaped`: a channel that Get holds
outside the lock may have been closed and dropped from the map meanwhile, and its
connections are then drained by the goroutine that holds it.

**Credentials.** A command is alone with its key until another one starts on it, and
`CommandInv` says that until then nobody else works on the key (of two commands with one key,
the one that is alone has the other stopped). So the INSERT that failed did meet a user when
the UPDATE comes (`CommandAt`), unless it failed for another reason (`lost`), when the row may be
missing; and what the last statement left is there when the command reports. `LoginInv` follows a login through the providers: which name was asked about is
fixed when the first one is asked, a login between search and return holds the connection, and the
connection that lies in the object is bound as the reader because returnConn binds it again
before it lets go of the lock. `CheckedBy` says for each provider what its acceptance rests on;
of plain_separate without `pass` it says nothing, because that one checks no password.

**Mailboxes.** `MailboxInv` is proved as a relation of the store and of one command at a time
(`OpOk`). Identities are given once (`IdsFresh`), which is what makes a mailbox that was removed
and made again another one. Between the two calls of imap-msgs add, `UIDKnown` says that a command
that is alone knows the next UID, and afterwards that no message of its own has a higher one;
`FoldersSoFar` says which folders imap-acct create has made; `OpShape` what kind of command can
be where, and that the list of messages a removal works from is the one it was opened with.
`Compatible` is what such a claim needs of a change of the store, and each change of the store
(a new mailbox, a rename, a delivery, an expunge) is shown to give it to the commands it leaves
alone.

**Signing.** `KeyInv` says that a key that is there has its record (`RecordsKept`), because
generateAndWrite writes the record first; that the domain a start is at has no key, or half of
one, until it is finished (`KeyUnderWay`); and that the domains before it are done
(`SignersSoFar`). The dns command writes the key first, so the invariant ends when it overlaps
with a start or is cut off (`spent.meddled`), as does the property.

**Pipeline.** A call is an agenda, and `PipelineInv` says what each agenda may look like:
`CallShape` (which tasks belong to which call, and in which phase it is made), `StartShape`
(no source check has a state before the source is chosen), `AddShape` (what a block is given
was asked about or will be first: a rewriting task of a block has the question of that
block's checks two places before it), `BodyShape` (the results are applied after the last
check and before the first target; from there on, quarantine implies the mark and the targets
that are not left have the body), `CommitShape` (only Commit commits, and only what was
started), `ListsUniform` (unless two lists share a check, the checks of a list get their
states together, so that a failing checkStates closes none that is in use). The proof first
shows which tasks a step can put on the agenda (`AgendaAllowed`), from there the types, and
then one lemma for each part; `EndKept` and `SpreadingKept` are the facts about replacing the
first task that they share.

`RecipientsTracked` has an invariant of its own, `TrackInv`. While AddRcpt runs, `AgendaCovers`
says of every address that the recipient became, at each of the three levels of rewriting,
that it is where it has to be or that the task which takes it a step further is on the agenda;
when the agenda is empty, what is left is the property. Six kinds of tasks each hand the
address on to the next kind, and `CoversMoves` says that this is all a step has to do. For
the way back, `OriginsKept` says that `OriginalRcpts` names a recipient that did become the
address, and `FailuresKept` that no target has missed an address while recipients can
still be added.

**Outbound.** The remote target keeps connections over messages, so that what one message
left behind must be good enough for the next. `RemoteInv` has one part for each thing a
step may rely on: `FutureInv` (an unset future has its lookup unless that panicked, a set one an answer of the
resolver), `CountInv` (a connection was used by no more messages than were started),
`CallInv` (the connection that connectionForDomain is making is for the recipient's domain,
which has none yet), `ConnsInv` (the connections of the delivery and of the pool carry names
of their own domain only, are open between transactions unless their Body failed, and
satisfy REQUIRETLS unless they were made after the relaxed mode gave up (`meta.free`), and passed
all policies or, under an override, none), `PermitInv` (a destination permit for each of them, for a MAIL command
under way and for each one a refused MAIL lost), `TryInv` (what the policies asked so far have established
about this MX; the loops of attemptMX are five applications of one operator) and
`StatusInv` (a connection that Body is done with has reported one status under every name
it carries, the others nothing). `RelayInv` does the same for a relay's delivery, with
`RepliesInv` for the LMTP replies read so far, one per place in the list of recipients.

**Storage.** `StorageInv` says that updates under way are numbered upwards from the reader back to
the writer, across the input channel, the socket and the output channel (`OrderInv`), that a pipe which
is closed has nothing to send (`PipeShape`), and that messages are numbered in the order they
end, each account of a delivery having one place (`DeliveryShape`).

### Only model-checked

* Liveness (`EventuallyFinished`, `EventuallyDispatched`, `NobodyBlocks`,
  `EveryCallAnswered`, `CloseReturns`, `EveryStageAnswered`, `ReloadsCatchUp`,
  `ShutdownEnds`), which is out of the prover's reach.
* What is written with RECURSIVE operators (`ConfigAsWritten` of `ConfigParser`, `ConfigMap`
  and `Server`), for the same reason.
* `RewritesComplete` of `Signing`: the addresses a chain of tables makes of one are a fold over
  the chain, and what a fold computes for every chain needs induction over data.

## 5. Deviations met while modelling

Besides the claims of section 3, the models contain the following as the code has it, so
that the properties hold in its presence or say what they exclude.

* Queue: a crash between the writes of Body, before the meta-data, leaves header and body
  files that nothing ever removes (`NothingDangles`); an address added twice shares one try counter and can be tried more than
  `max_tries` times (`RetryOnlyFailed` excludes it); an error of updateMetadataOnDisk
  after a partial success delivers again to recipients that have the message; a failed
  Sync in storeNewMessage leaves all three files, which are delivered after a restart
  although Body returned an error; when a shutdown interrupts Abort after the header was
  removed, and a crash then hits readDiskQueue between its two removals, the body file
  stays for ever (`NoGarbage` is about one interruption).
* Session: `deliveryErr` of a failed deferred start survives Reset; when DATA is
  refused after prepareBody the delivery is forgotten without Abort; a session refused
  by early checks decrements `sessionCnt`, which was not incremented.
* Limits: a BucketSet over its maximum panics instead of refusing, and the staleness
  test is inverted, so stale buckets are never removed; the permits the call had taken
  before the panic are lost (`Accounted` counts them as held by it); a timeout in the source scope
  releases the IP scope without checking that it is configured.
* Pool: Return writes `lastUse` to a copy, so a slot ages from its creation; a
  connection returned to a closed pool is dropped without being closed.
* Pipeline: checkStates closes all states of its list on failure, also those other lists
  use; replay of earlier, rejected recipients to a late check can refuse the current
  recipient; start leaks the source modifiers' state when RewriteSender fails, and the
  block modifiers' state is closed but stays in the map when RewriteRcpt fails;
  BodyNonAtomic runs no block checks and no applyResults, so over LMTP a quarantine is
  not marked; two recipients rewritten to one address share an entry of OriginalRcpts;
  a refused recipient stays with the targets that took it first; Commit stops at the
  first error.
* Remote: a destination permit is lost when MAIL fails after TakeDest (`lost` counts
  them); a pooled connection that REQUIRETLS rules out is dropped without being closed;
  relaxing REQUIRETLS for one domain clears the flag for the later ones; the goroutine of
  the DANE lookup recovers from a panic and leaves its future unset, so that CheckConn waits
  for the end of its context unless a late lookup of another MX sets it; the list of
  recipients of a connection is never reset, so statuses of earlier messages are repeated;
  Close whose QUIT fails leaves the client set; a connection serves `conn_reuse_limit + 1`
  messages; connections are kept by the domain as it is written (remote.go:289), so a domain
  given in both forms has two, whose statuses are under one name, the later one replacing the
  first (`StatusTruthful` is about recipients whose names no other connection uses; it came
  up when the proof failed, and TLC has the counterexample); the updater of the MTA-STS cache
  is only started by tests.
* Relay: the LMTP BodyNonAtomic goes on after body.Open failed; statuses use the names as
  sent, so one address in both forms gets one status (`SharesName`); AddRcpt takes an address
  again, and over LMTP it then has two statuses, which may differ (`RelayStatusTruthful` is about
  each place in the list); Commit returns the error of a failed QUIT although the message was taken; an AUTH
  failure ends the attempt without trying other endpoints.
* Storage: the socket file outlives a crash and the restarted server then has no update
  pipe, and so does one that is left by an InitPush that failed after Listen; Close may meet a
  delivery under way, which keeps its transaction and may still commit, without an update; after a panic of the pump a tool's Close
  can hang.
* Checks: a milter that says both Reject and Quarantine has its rejection dropped; its
  CheckSender dereferences a nil connection for local messages; a check that panics counts
  as one with nothing to say; `mailfrom` lists of DNSBL are never consulted; an address
  literal in EHLO ends the checks of a list; the percentage of DMARC is off by one; the
  verifier returns a PermError where its comment promises a panic; `unauth_action` and
  `err_action` set to ignore are overridden by `no_match_action`; SPF defers to DMARC even
  when DMARC or check.dkim is off, and on a lookup of its own; a rejected recipient drops
  the quarantine of its batch (`Counted`); rspamd and command dereference a nil future when there is no
  resolver for reverse DNS, and panic; they are shown recipients that are refused
  later; body readers are never closed.
* Configuration: a macro or snippet declared on a line that ends with the brace of the block
  around it passes the "only allowed at top-level" test (`ReadByBraces` excludes it);
  macros of an imported file do not reach the importing one; import expansion is bounded in
  depth and not in size; imported files are not closed.
* Server: endpoints serve before the rest of the configuration was checked; a failed start
  runs no shutdown hooks; circular references hand out modules that are not initialised;
  SIGUSR2 during the shutdown announces READY after STOPPING; Endpoint.Close of SMTP closes
  the connections it says it waits for, and that of IMAP returns early when serv.Close
  fails; `auth_map &ref` in the global block always fails.
* Reloads: a Stat error other than "not found" panics the reloader of a table, after which
  Close and the SIGUSR2 hook block for ever (`ShutdownEnds` names it); a file restored
  with an older modification time is never reloaded; a copy restored after the read, with the
  modification time seen before it, hides that the file read in between was half-written
  (`NoTornTable` names it; it came up when the invariant was made inductive); a forced reload soon after an edit is
  ignored; Init reads the file without the protection against torn files.
* Authentication: plain_separate without `pass` providers accepts any password;
  SetUserPassword of pass_evm reports success and does nothing; LOGIN maps
  the name twice; pam with a helper asks libpam again; pass_table reports an error of its
  table as wrong credentials; an argon2 hash with too few fields panics, as does
  `creds create --hash argon2`; LDAP panics after a failed rebind, and with `bind off` the
  connection stays bound as the last user; one malformed line of the shadow file refuses
  everyone.
* Commands: SetKey reports success when its INSERT failed by itself and its UPDATE met no row,
  with nothing stored (`CommandsTruthful` names it); two
  `creds create` of one name overwrite each other; `creds password` creates the user it
  does not find; the append limit is cut to 32 bits; `imap-msgs add` prints a wrong UID
  when the server delivers meanwhile (`AddedUIDNamed` is about a mailbox left alone);
  `imap-acct create` killed midway leaves an account without folders.
* Modifiers: an optional step of a chain is undone for all values when one has no mapping;
  a replacement of a local part is not validated: an empty one gives `@domain`, and one
  that starts with a quote and has a domain gives an address with two (`RecipientsComplete` names it); blockchain_tx sends before Commit, so a message
  that was refused after its transaction was taken is refused for ever; a torn DKIM key file fails every later start; the dns
  commands overwrite a key the server has loaded.

## 6. What is not modelled

* Queue: loss of unsynced data on power failure (a crash is a process crash, files keep
  their content), the temporary file of updateMetadataOnDisk, the retry delay as a
  number, DSN text. Targets are assumed truthful: one that reports success has the
  message.
* Session: the order of commands is what go-smtp guarantees; header fixes of the submission
  endpoint and reply wording are left out. Only the source scope of the limits is kept,
  since the keys of the others cannot change.
* Pipeline: parsing of its configuration; the DMARC evaluation has a nondeterministic
  outcome there and is modelled in `Checks`.
* Remote: certificates and TLSA records are reduced to "usable" and "matches"; the pool is one
  idle connection per domain, its concurrency is that of `ConnPool`.
* Storage: the SQL library, IMAP commands and their translation; updates are numbers, and a
  process has one connection to the socket.
* Configuration: words are tagged, not spelled; quoting and numbers are what the parser
  makes of them. A module is what its kind opens and refers to; only the directives of the
  endpoints, the queue and the reloading modules are listed.
* Authentication: hash functions are equality of passwords; the protocols of dovecot, LDAP,
  netauth and the helpers are their outcomes.
* The blocking `Take` without a context and `Close` of the limiters, which the server
  never calls.
* The components with status `not_modelled` in `PROJECT.json`. `app` and `ante` wire modules
  of the Cosmos SDK and of the EVM, whose state machines are libraries; the methods of
  the account-abstraction precompile keep no state and mostly return constants; the chain
  commands (testnet, init, keys) write files once; DSN generation, address parsing and
  logging are text processing; the dovecot SASL and metrics endpoints adapt libraries.

## 7. What is left

The parts that carry the server's own logic are modelled, and the safety of all
of them but the configuration parser and the chains of rewriting tables is proved. Those two
need induction over data and stay with TLC, as does liveness.
