# Financia in TLA+

Financia (`src/src/`, TypeScript on Node.js and Express) keeps accounts, assets
and positions, and lets *agents* move quantities between accounts. An intent to
transfer becomes a transaction; a token adapter performs the transfer in an
external system; the result is reconciled with the transaction; only then do
the internal positions move and the ledger get its two entries. Everything is
kept in memory and in one JSON file.

This directory holds a TLA+ model of the parts where things can go wrong in
ways a unit test does not reach, the TLC runs that check it on small instances,
and TLAPS proofs of its main invariants for all instances. `PROJECT.json` lists
components, runs, the lines of code behind every definition, mutants (a
plausible bug for every property, which makes TLC report it), findings,
hazards and theorems.

## 1. Inventory

| Component (under `src/src/`) | State | Operations that change it | Correct when |
|---|---|---|---|
| **Transaction engine** `engines/transactionExecutionEngine.ts` and `transactionEngine`, `settlementInstruction*Engine`, `externalSettlementEngine`, `settlementEngine`, `ledgerEngine`, `positionEngine` | positions, ledger, settlement instructions, external settlements; a transaction that only its run holds until the end | `executeTransaction` | positions, ledger and transaction statuses tell one story; nothing is overdrawn; settled means backed by evidence; terminal statuses are final; every run ends |
| **State machines** `engines/stateMachine.ts`, `transactionLifecycleEngine.ts` | none (tables) | transition functions | no path ends in a refused step |
| **Authorization** `permissionEngine.ts`, `policyEngine.ts` | none | pure | the first policy with an opinion decides |
| **Reconciliation** `reconciliationEngine.ts`, `reconciliationCoordinator.ts`, `representationEngine.ts` | none | pure | a match names the same accounts, quantity and asset |
| **Token adapters** `adapters/` | external balances and transactions | `transfer`, `confirm`, `fail` | what they report is what happened |
| **Intents** `api/routes/intents.ts`, `engines/intentExecutionEngine.ts` | intents | POST, execute | an intent is decided once, by a transaction of its own |
| **Transactions routes** `api/routes/transactions.ts` | transaction records | POST, re-execute | a transaction that settled does not settle again; a record tells what happened |
| **Settlement of several movements** `settlementEngine.ts`, `externalSettlementEngine.ts` on a longer list | positions, ledger | `settleTransaction` | a batch settles as a whole; every movement has evidence of its own |
| **Settlement instruction routes** `settlementInstructions.ts` | instructions made by hand | create, execute | one instruction makes one transfer at most, and none for a decided transaction |
| **Evidence routes** `settlements.ts`, `externalSettlements.ts`, `reconciliations.ts`, `externalTransactions.ts` | evidence | none: they read | |
| **Positions, representations routes** | positions, representations | POST | a position is opened once |
| **Registry routes** parties, accounts, assets, agents, permissions, policies | reference data; a grant in its collection and in a list of its agent | POST | references exist; the two copies of a grant agree |
| **Agent protocol** `agentProtocolEngine.ts`, `api/routes/agentProtocol.ts` | intents | POST | what was authorised when it was proposed stays so, or it is known why not |
| **Idempotency** `api/idempotency.ts` | one record per key | middleware of every POST | a retry gets the first answer and changes nothing |
| **JSON file storage** `storage/jsonFileStorage.ts` | live file, backup, temporary file, lock file, memory | `load`, every write | one writer at a time; a crash leaves a file that loads; what was saved stays saved |
| **Persistent collections** `storage/persistentCollection.ts`, `store/memoryStore.ts` | proxies over the collections | array and object writes | every write reaches the file, and an interruption between two writes loses nothing that was said to be done |
| **Server lifecycle** `server.ts`, `api/lifecycle.ts` | draining flag, timer, connections | shutdown | the process ends; with code 0 only when every request ran to its end |
| **Health, metrics, HTTP plumbing, SDK, tokenization, movement, asset registry engines** | none of the domain | | |

How they interact. `api/app.ts` runs every request through the idempotency
middleware, then the API key, then a router. Three routes call
`executeTransaction`: `POST /intents/:id/execute` (through `executeIntent`),
`POST /transactions` and `POST /transactions/:id/execute`. All share the
collections of `store/memoryStore.ts`, which write the whole file on each
change. The engine calls adapters through the registry by representation type.

What is hard here:

* **Interleaving at awaits.** Node serves requests on one thread, but a run
  gives it up while it waits for `adapter.transfer` and
  `adapter.getTransaction`. What it read before (position quantity, intent
  status, idempotency record) may be stale after.
* **Two systems.** The external transfer is done before the internal one is
  certain; an answer may be lost, late or different from what was asked.
* **Crashes.** A run in flight is lost with its transaction; its external
  transfer is not.
* **Several ways in.** Three routes execute intents and each guards itself with
  a different field; a fourth executes instructions past all of them.
* **Many writes of one change.** A settlement is some eight assignments, each
  with a save of the whole file that may throw; a grant is two.
* **Files.** A lock file, a temporary file, a backup and a rename, by processes
  that may die between any two system calls.
* **Shutdown.** A timer races the last answers, and a handler goes on when its
  client has hung up.

## 2. Modules

| Module | Models | Uses |
|---|---|---|
| `StateMachine` | the transition tables and the walks through them | |
| `Authorization` | permissions and policies | |
| `Reconciliation` | matching of movements with external movements | |
| `TransactionExecution` | the engine, the adapters, positions and representations routes | the three above |
| `AtomicIntent` | abstract: what executing an intent promises | |
| `IntentApi` | intents and their execution; refines `AtomicIntent` | `TransactionExecution` |
| `TransactionApi` | the transactions routes beside the intents route | `IntentApi` |
| `SettlementInstructionApi` | instructions made and executed by hand, beside all of these | `TransactionApi` |
| `BatchSettlement` | the engine's functions on transactions of several movements | `StateMachine`, `Reconciliation` |
| `DurableSettlement` | executing an intent write by write, in memory and on the disk | `StateMachine` |
| `Registry` | reference data and the two writes of a grant | `Authorization` |
| `AgentProtocol` | intents proposed by agents over a registry that grows | `Registry` |
| `Idempotency` | the middleware around a handler that changes something | |
| `JsonFileStorage` | the file storage, several processes | |
| `ServerLifecycle` | shutdown against open connections | |
| `Sums` | the sum of a function over a finite set, in which the books are stated | |
| `MC...` | the small instances TLC checks | |
| `...Proofs` | theorems about the module of that name; `ExecutionProofs` about `TransactionExecution`, `IntentApi`, `TransactionApi` and `SettlementInstructionApi` | |
| `SumLemmas` | lemmas about sums, for the proofs | `Sums` |

### TransactionExecution

A *run* is one call of `executeTransaction`. `pc` says where it is:

    idle -- Start... --> transfer -- Transfer... --> lookup -- Lookup... --> done
      \-> rejected                         (Crash: --> lost)

The code between two awaits is one action, because nothing else runs there:
`executeTransaction` up to the call of `adapter.transfer` (`StartSettlement`,
or `RejectCreation` and `StartUnresolvable` when it ends before); the answer of
`transfer` (`TransferReturns`, or one of the failures that `settleExternally`
catches); the answer of `getTransaction` and everything after it
(`LookupFails`, `LookupMismatched`, `LookupUncovered`, `LookupSettles`). The
`await`s between the engine's own functions resolve in microtasks, which Node
drains before it serves another request, so they are no places to interleave.
The two adapters in the repository also answer in microtasks; runs of one
process then never overlap. The model lets them overlap, because the adapter
interface is asynchronous for adapters that do I/O; where that matters, the
constant `OverlappingExecutes` of `IntentApi` says so.

State and code: `positions`, `ledger`, `representations` are the collections of
the same names, a position keyed by account and asset; `status[r]` is
`executionStatus` of the transaction of run `r`, `instruction[r]` the status of
its settlement instruction, `evidence` the runs whose external settlement was
returned, `external[r]` and `balances` the adapter's own state. A transaction has one movement,
the only kind `createTransaction` makes. `opened` is history. The
statuses are computed by `Walk`, which takes the statuses of a path one at a time
through the transition table and stops at the first refused one, as
`setTransactionStatus` does for its callers.

Faults are chosen by the constant `Faults`: `reject` (the adapter throws),
`timeout` (it performs the transfer and the call throws), `lookup`
(`getTransaction` throws), `short` (it delivers another quantity). `ConfirmExternal`
and `FailExternal` are the external world deciding a transfer left pending.

`Crash`: memory is gone, the process loads its file. Every write of any
collection saves the whole state, and each segment that changes something ends
in such a write. The exception is the mark `executing`, set on an object that is
not a proxy: it reaches the disk with the next write of anybody. `unsaved`
remembers the run whose mark has not; after a crash that instruction reads
`pending`. A crash comes at an await and a segment is saved as a whole here:
that is what its requests leave when no write of it is interrupted
(`SavedAtRest` of `DurableSettlement`), and `torn_settlement` shows what an
interruption inside it leaves instead. Whatever this module and the three built on
it say of crashes is to be read so. In particular `IntentExecutedOnce` is no claim
about a crash or a failing save between the ledger entries and the intent's
status: that leaves a booked intent pending, and a retry settles it again
(`RepeatExplained`). The adapter is an external system and outlives the crash.

`SettledBacked` asks that the external transaction is confirmed where the adapter
settles at once; the runs here have both modes, so that conjunct is carried by
the theorem `SettledIsBacked` alone.

### IntentApi and AtomicIntent

`executeIntent` reads `intent.status`, awaits the engine and writes the intent
from what it read: `ExecuteIntent` and `FinishIntent`. A refused creation
leaves the intent as it was, so that it can be executed again. `AtomicIntent`
has one action that moves the quantity, journals debit and credit and marks the
intent executed; `IntentApi` implements it with positions mapped to positions,
the ledger to the journal and the intents' statuses to the outcomes (`Journal`, `Outcome`).
That they change in one step is so for every other request and for crashes at
awaits; on the disk they are separate writes (`torn_settlement`).

### TransactionApi

The two transactions routes with a `records` function (the stored transaction
for each intent) and `caller`, the route of each run. `POST /transactions`
stores an intent without a status and never writes one; `FinishReexecution`
writes no record, because the route looks for the identifier of a transaction it
has just made. There is no `Crash`: the module asks what the routes do to each
other while the process lives. The re-execution route also does not write the
store after a failed transfer, so what a crash would leave differs; that is
left out with the crash. `beside` is history: for each run, the runs of
the same intent that were under way when it started, which is what tells two
settlements that overlapped from one that came after the other.
`SettledAgainExplained` states exactly which guards keep out a second
settlement: each route's own guard works, and there is none between the routes
and none between two re-executions.

### SettlementInstructionApi

`POST /settlement-instructions` makes an instruction for a stored transaction
that is `created` or `pending`; such a record exists only while
`POST /transactions`, which stored it, waits for its own transfer.
`POST /settlement-instructions/:id/execute` calls the adapter and keeps nothing
but the instruction's status. `standalone[k]` holds the instruction, the record
it was made for (`run` is the run the record showed then, `None` before its
first execution ended, which stands for the record's identifier), the calls
under way, and, as history, the transfers performed. The two calls to the
adapter are one action, because nothing is read or written between them.
`settleExternally` asks once more for the transaction's status; a record still
found under its identifier is undecided, so this never refuses, and
`NoLateInstruction` holds without it.

### BatchSettlement

`createTransaction` makes transactions of one movement; every function behind it
takes a list, and the repository's tests call them with longer ones. The
module puts the functions together in the order of `executeTransaction`: one
transaction with any batch, the adapter called for one movement after the other
(`TransferNext`, `TransferFails`), then `Finish` with the two verdicts and
`settleTransaction`, whose check of all movements comes before the first
change. `Applied` is the loop that applies the movements, `Recorded` the one that
enters them. `FullMatchIsOneToOne` compares `reconcileTransaction` with a reference
definition, the existence of a pairing. Nothing but tests calls
`reconcileTransaction`: there is no `POST /reconciliations`.

### DurableSettlement

The collections are proxies: an assignment through one changes memory and then
saves all of memory. `memory` and `disk` are both a record of positions, ledger,
instructions and intents. Each action is one assignment of
`POST /intents/:id/execute`, in the order of the code (`pc` names the next one):
the instruction, its end, the new destination position, source, destination,
debit entry, credit entry, the intent's transaction, its status. `Saved` is an
assignment whose save succeeds; `NotSaved` one whose save throws, which leaves
the change in memory, unwinds the request and is made good by the next write
of anybody (`OtherWrite`). `Push` has the three saves of one `push`. A
destination position the settlement made itself is a raw object (`raw`): its
credit is saved by the ledger's push. `Crash` reloads the file. The array
`externalSettlements` the engine pushes to is made by the route for each call
(`intents.ts:303`) and is no collection, so it is no write. Requests do not overlap
here; `TransactionExecution` has the overlapping.

### Registry and AgentProtocol

Every POST of the six routes, with the references they check. A permission or a
policy for an agent is two writes: `listing` is the second one when it has not
been made, `Crash` loses it (the process dies, or the first write throws after its
assignment), `unlisted` remembers that. `AgentProtocol` adds
`Propose`, `POST /agent/intents`; `proposals` records the answer and, as history,
how many policies there were, so that the properties can compare the
authorisation then with the one at execution. Identifiers of agents are taken to
differ from those of parties and accounts (`RegistryAssumption`): the routes
prefix them with their kind.

### ServerLifecycle

`conn` tells of each connection what `http.Server` knows of it, plus `gone`: the
client hung up and the handler still waits. `beginShutdown` and `server.close`
run in one tick, so `Shutdown` is one action. `Closed` is the callback of
`server.close`, `ForceExit` the timer, `EmptyLoop` Node.js ending a process that
has nothing left to wait for. The connections, handlers and event loop are
Node.js and marked external in the map.

### Idempotency

Requests with keys and bodies around a handler: middleware lookup (`Reused`,
`Replay`, `Handle`), awaits (`Await`, `Resume`), the handler's writes one at a
time (`Change`), before and after an await, the record and the answer as further
steps, a crash. `Writes` is how many writes a handler makes that goes through. It may
refuse (`RecordRefused`) or throw (`Throw`) after any of them: a failed
execution answers 422 when intent, transaction and instruction are stored, and
the middleware records and replays that. A response is its status class and the
request whose handler composed it, which is what tells a replay from a second
execution. The handler is any POST that changes something; writes of the
storage succeed.

### JsonFileStorage

One action per system call that another process can see: create the lock, judge
it stale, remove it, time out; open (and truncate) the temporary file, write it,
begin and end the copy to the backup, rename, clean up, unlock. Writing, copying
and renaming may fail (`WriteFails`, `CopyFails`, `RenameFails`), which runs
`finally` and throws. A document is the set of updates it holds, or `Torn`.
`descriptor` follows a file through the rename of another process. A lock is
judged stale only when its creator died: a live process is assumed to hold it
for less than `STALE_LOCK_MS` (30 s). `saved` collects what the caller was told
is saved.

## 3. Runs

All runs of one module share the module's definitions; only constants differ.

| Run | Instance | Question and answer |
|---|---|---|
| `engine` | 2 runs chosen among 5 intents (a payment of 2 that a position of 3 covers once, a refund, a transfer to oneself, one without permission, one over the policy's limit), 2 accounts, one routable and one unroutable representation, all four faults, both settlement modes, 1 crash | Do positions, ledger, instructions, evidence and statuses stay consistent, and does every run end? Yes. |
| `failed_evidence` | 1 intent, adapter that leaves transfers pending | Is a transaction settled only on an external transaction that is alive? No: reconciliation does not read its status. |
| `intents` | 3 runs, 2 competing intents and one of an unknown agent, timeouts, both settlement modes, 1 crash, executes of one intent not overlapping | Is every intent decided once and does the API implement `AtomicIntent`? Yes. |
| `routes` | 3 interchangeable runs, 2 intents, three routes, timeouts, both settlement modes, overlapping at will, 1 instruction made by hand | What keeps an intent from being settled twice, does a record tell what happened, and can a hand-made instruction transfer twice or late? Each route's guard and nothing across routes; it does; it cannot. |
| `reexecuted_transaction` | 1 intent, 3 runs that do not overlap | Is a transaction that settled refused from then on? Not when it settled on re-execution: its record is never updated. |
| `idempotency` | 3 interchangeable retries, 1 reuse of the key with another body, 2 writes, 1 crash | Are replays the original answer, is a change made twice only after an error, a crash or an overlap, and does an answer end it? Yes. |
| `storage` | 2 processes, 3 updates, 2 crashes, any write, copy or rename failing | Does the lock exclude, does the file always load, is the backup the previous document, does every call end? Yes, the first three until a lock is removed as stale. |
| `durable` | 4 interchangeable executions of 3 intents (two payments to an account without a position, a transfer to oneself), 2 interruptions, each a crash or a failing write, between any two writes | What can an interruption leave? Quantity may be lost and is never made, the ledger never runs ahead of the positions, executed means booked, and an intent is booked twice only after an interruption. |
| `torn_settlement` | 1 intent, 2 executions, 1 interruption | Do positions and ledger change together? No: they are separate writes and nothing undoes the first. |
| `agents` | 1 party, account and asset, 2 agents, 1 permission, 2 policies of three kinds in any order, 2 requests, 1 crash | Do references exist, and what may a policy let through or refuse later? They do; a limit is passed only behind an approval threshold, and only a younger policy refuses. |
| `batch` | every batch of up to 3 of 4 movements of 2 assets, 2 openings, 4 sets of representations, deliveries of 1 or 2 | Do batches settle as a whole, when is a position overdrawn, what do the two reconciliations accept? As a whole; only by several movements from one position; a one-to-one match unless two movements are equal. |
| `lifecycle` | 3 connections | Does the process end after a signal, and does code 0 mean that nothing was cut off? Yes, unless it comes to wait for nothing but handlers whose clients hung up; yes. |

**Bounds and why they are enough.** Every conflict in this code is between two
actors (two runs for a position, two executes of an intent, two processes for a
lock, two policies of an agent); two show them, and a third run in `intents` and
`routes` is the retry after one that failed or was lost. Quantities are small and
chosen around the boundary: an opening quantity covers one of the competing
payments and not both in `engine` (3 against 2 and 2) and `intents` (2 against 2
and 1), both with nothing left in `routes` (3 against 1 and 2), which leaves a
second settlement of either to fail or to starve the other; in `batch`, 2 covers each of the
movements and not all of them. Interruptions are bounded by `MaxCrashes` and
`MaxFaults`: one where a crash may happen once per request, two in the storage,
so that a process can die while it recovers from the death of another, and two
in `durable`, so that a retry can be interrupted as well. `Updates` bounds the
number of writes: three let one process write over the document of the other and
be written over. Three connections can be in the three places that matter at the
signal (idle, waiting, hung up). One key is enough in `idempotency`: requests of
different keys share only the thread, and the theorems have any number of keys. Symmetry is used where runs or requests differ
in nothing but their names, and in no run that checks liveness. Deadlock is not
checked: all models stop when the requests, updates or runs are used up.

**Fairness.** `TransactionExecution` and `IntentApi` assume that every call to
an adapter is answered, with a result or an error (weak fairness of the answer
of each run): the code has no timeout of its own and cannot go on otherwise.
Clients, the external world and crashes are not forced. `JsonFileStorage`
assumes that a process that has begun `persist` goes on until it returns or
dies: the function is synchronous and its busy wait is bounded by
`LOCK_TIMEOUT_MS`. `ServerLifecycle` assumes that timers fire, that Node.js calls
callbacks that are due and that it ends a process whose event loop is empty; it
does not assume that clients leave, or that an adapter ever answers a handler,
whose client waits or has hung up. Hence the exception in `ShutdownEnds`: the
callback of `server.close` clears the timer while a handler whose client hung up
may still wait, and from then on only the adapter bounds the shutdown. Without
the exception TLC refutes the claim at once, with a client that hangs up before the
signal.
The other modules assert no liveness.

## 4. Findings

| Run | Code | Said by |
|---|---|---|
| `failed_evidence` | reconciliation compares accounts and quantity, never the external transaction's status | SPECIFICATION.md:117 |
| `reexecuted_transaction` | the record of a re-executed transaction is looked up by an identifier that was never stored | api/routes/transactions.ts:442, SPECIFICATION.md:106 |
| `torn_settlement` | `settleTransaction` saves source, destination and the two entries one by one, and nothing undoes the first | README.md:103 |

Behaviour that a reader may not expect and that passing properties pin down:

* An intent can be settled twice by overlapping executes, across routes, or by
  two re-executions (`SettledAgainExplained`); without overlap each route's own
  guard holds.
* A change can be made twice under one idempotency key, after a crash or an
  exception between the change and its record, or by a retry that arrives while the
  first request still waits (`ChangedTwiceExplained`). What was changed the first
  time may be a part of what the handler stores.
* A refusal may come after the handler has stored the intent, the transaction and
  the instruction. It is recorded under the key, and every retry is told it again
  (`ReplayIsOriginal`).
* The storage lock excludes only until a lock is removed as stale: the judgement
  and `unlinkSync` are two system calls (`LockProtects`).
* An approval threshold listed first hides the limits after it
  (`LimitHiddenOnlyByApproval`), and an intent proposed under one set of policies
  may be refused under a later one (`AuthorizationLasts`).
* Two movements from one position can overdraw it together
  (`OverdraftExplained`), and `reconcileTransaction` can match two equal movements
  with one external movement (the premise `Distinct` of `FullMatchIsOneToOne`).
  No route makes such transactions.
* The shutdown is not always bounded by `SHUTDOWN_TIMEOUT_MS`, as api-contract.md:85
  and README.md:38 have it: once the last connection has ended the timer is cleared,
  and a handler whose client hung up keeps the process up until its adapter answers
  (`OnlyHungUpLeft`, the exception in `ShutdownEnds`).
* A request that arrives during shutdown on a connection kept alive is still
  served; since `server.close` drops idle connections in the tick in which readiness
  goes down, only a connection that was waiting then can ever see the 503 of
  `GET /health/ready`.

## 5. Proofs

`tlapm` checks every theorem, for all values of the constants that satisfy the
named assumptions of the modules (`DataAssumption`, `NoneAssumption`,
`NoIntentAssumption`, `StorageAssumption`, `RequestAssumption`,
`DurableAssumption`, `BatchAssumption`, `RegistryAssumption`): quantities of
intents are positive, opening quantities and balances natural, the model values
that stand for "nothing" are no data, identifiers of agents are none of parties
and accounts; of `DurableSettlement` also that there are finitely many accounts,
over which its totals run, and of `BatchSettlement` that identifiers of
representations are unique, as the route that makes them sees to.

**SumLemmas.** What the books need to know of sums: the type (`SumType`), that any
element may be taken out first (`SumTake`), what changing a value does to the sum
(`SumChange`) and what a longer interval adds (`SumAppend`). The fold behind
`SumOver` takes its elements in an order that `CHOOSE` fixes and is itself a
function picked by `CHOOSE`; `SumsExist` and `SumsAgree` show that there is one and
that any two agree. Where one would use induction on the set, each lemma takes a smallest
set for which it fails (`SmallestSet`: strict inclusion of subsets of a finite set
is well-founded, from the library) and derives a contradiction.

**ExecutionProofs.** First the engine, `TransactionExecution`. `TypeOK` and the safety properties are not
inductive: that a settled transaction has its evidence depends on what its run
did two segments earlier. The invariant `IInv == TypeOK /\ RunsConsistent` says
for each place a run can be in what holds of its transaction, instruction,
external record and evidence (`Untouched`, `Underway`, `Recorded`, `Ended`).
The steps of the proof are the actions; the walks through the status table are
computed once, in lemmas. From it follow `TypeCorrect`, `SettledIsBacked` and
`InstructionTells`. `NoOverdraft` is inductive given `IInv`,
because `LookupSettles` looks at the position in the step that spends it
(`NeverOverdrawn`). `OrphansExplained` needs `ShortfallExplained`: a run in
flight whose position no longer covers it has a settled competitor that spent
it. `LedgerIsSettlements` and `TerminalsAreFinal` follow the entries through the
sequence. `PositionsAreBooked` adds up what one pair of entries does to the net of a
position (`NetOfPair`) and compares it with what `Transferred` does to it
(`SettlementBalances`), the transfer to oneself included; it needs that what was
never opened nor booked has no position (`Unopened`).

Then `IntentApi`. On top of the engine's `IInv`, for clients whose executes
of one intent do not overlap (`OverlappingExecutes = FALSE`, stated in each
theorem, and what the two adapters of the repository bring about): two runs in
flight execute two intents (`OneAttempt`), a run in flight finds its intent
undecided and a run that ended has decided it (`Tied`), and every decision
names the run it came from (`Decided`). From these follow
`IntentsMatchTransactions`, `IntentsExecuteOnce` and `DuplicatesNeedCrashes`,
through retries, lost answers and crashes at awaits. They say nothing of a crash or a
failing save inside a segment, which can let an intent be settled twice:
`RepeatsAreExplained` of `DurableSettlementProofs` is the theorem about those.

`IntentsAreAtomic` proves the refinement of `AtomicIntent` by a step simulation.
The abstract state needs two more facts of the runs (`PromiseIInv`): the intent of
a run in flight was posted (`AttemptsPosted`), so that its outcome is pending, and
every ledger entry belongs to an ended run (`EntriesEnded`), so that the journal does
not change behind it. `PostIntent` is `Post`, `OpenPosition` is `Open`, a run that
settles is `Execute`, one that ends in any other way is `Fail`, and every other
step, crashes at awaits included, is a stutter.

Then `TransactionApi`, where requests overlap at will. `RouteIInv` ties each run to the record of
its intent (`RouteTied`: while the run that stores the record is in flight the
record reads `created` and shows no run, and once it has ended the record is the run's),
says where records come from (`Recorder`), and keeps for any two runs of one intent
what the second's guard saw of the first (`Kept`, of all pairs: `RivalsKept`). A guard reads
a record, so the two parts are needed together: a re-execution that starts after
the first run has ended reads in the record what that run has become. From it follow
`RecordsTellTheirRuns` and `SecondSettlementsAreExplained`.

Last `SettlementInstructionApi`. An instruction is `pending` only until its
first execute, which marks it before the await; calls and transfers together
never exceed one (`Progress`, of all instructions: `HandInv`). That gives
`InstructionsTransferOnce`. `InstructionsAreNotLate` follows from a record's run being
unknown exactly while it is undecided (`UndecidedRecord`), which is where
an instruction made by hand needs all of `RouteIInv`.

**DurableSettlementProofs.** Memory and disk are each a state the writes of some
run led to. For `ExecutedIntentsAreBooked` the invariant (`Sound`) is therefore stated of
any such state and never relates the two; `At` says what the place of the run
under way implies of the entries it has written. It holds through every crash
and every failing write.

The other four theorems rest on a second invariant, `BInv`. `Books` weighs the
positions against the ledger: any state, of memory or of the disk, has no more than
the opening total and a gap between positions and entries only on the side that an
interruption may leave (`Left`); while a run is under way the same holds of
memory once what the run has taken and not yet given (`InTransit`), and what it
has moved and not yet booked (`Unbooked`), are counted. `Saves` says what the disk
may lack, `Once` that a run which came to its end has decided its intent in memory and on the
disk, so that no later run begins with it. Every write of a run preserves total and
gaps so corrected, which is stated once (`Advances`) and shown of each write;
the steps of the proof then no longer look at which write it was. From `BInv`
follow `QuantityIsNeverMade`, `EntriesFollowMoves`, `RestIsSaved` and
`RepeatsAreExplained`.

**BatchSettlementProofs.** `IInv` says of a settled transaction that every movement was
covered on its own by the position it leaves, that the verdict was "matched", and that
positions and ledger are what `Applied` and `Recorded` make of the batch; of any
other, that nothing has moved. What this means for a position is argued movement by
movement: after each, the position is its opening quantity plus the net of the entries so far,
and at least that quantity less what has left it (`Balanced`, from `OneMovement`). `Applied` is a
recursive function, so that there is one needs an argument of its own
(`FollowingExists`); both arguments look at the least number of movements for which the claim fails.
From these follow `BatchesAreAtomic` and `OverdraftsAreExplained`, for batches of any
length. `FullMatchesAreOneToOne` needs that identifiers of representations are
unique: then two movements matched by one external movement are equal (`OneExternal`).

**IdempotencyProofs.** The invariant says of a record that the request it names
has got past it, was told what it says if it was told anything, and made all its
writes if it says created (`Owned`), of a replayed answer that it is the first
record of its key (`Replayed`, with `FirstsExist`), and of two requests of one key
that both got into a handler why both did (`PairsExcused`): `Live` counts a request
that has written anything, be it later refused or cut off. From it follow `ReplaysAreOriginal`,
`SecondChangesAreExplained` and, as a property of steps, `AnswersEndHandling`.

**JsonFileStorageProofs.** A process in `persist` is alone there in two
situations: no lock was ever removed as stale, so the lock is its own
(`LockHeld`), or no other process has ever run (`Solo`). In both, the invariant
says what the files hold at each place of `persist` (`FilesConsistent`): the
temporary file is the one this process opened, and what it renames is the
document it composed. `SoloConsistent` adds that memory always contains what is
on disk, so that a rename loses nothing. From these follow `TypeCorrect`,
`LockExcludes`, `LiveStaysComplete` and `SavedIsKept`, the last even through
stale locks of the process's own. `BackupPrecedesRename` adds that a process which
is about to rename has the live document in the backup (`Backed`), as long as
the lock excludes.

**AgentProtocolProofs.** `RegistryStaysConsistent` needs what the second write of
a grant relies on: the grant it is about to list is stored, for that agent and
under that identifier (`ListingExists`, `PermissionsListed`, `PoliciesListed`).
`LimitsHiddenByApproval` and `AuthorizationsLast` follow from `ProposalsHeld`: the
policies there were at the proposal are still the first ones, and what they say of
it has not changed. The least decisive policy exists because the naturals are
well-founded (`LeastNatural`, from the library).

**ServerLifecycleProofs.** `CleanExits`: a closed server never has a connection
again, so that an empty event loop has nothing left to cut off; the one action
that cuts sets the exit code.

**Only model-checked.** Liveness (`RunsFinish`, `ExecutionDecides`,
`PersistEnds`, `ShutdownEnds`), which needs fairness and `ENABLED`. Every invariant and
every action property that a passing run checks is a theorem. The theorems of
`IntentApi` that assume `OverlappingExecutes = FALSE` say so in their statements,
as the run `intents` does.

## 6. Not modelled

* Quantities are whole numbers: binary floating point is out of TLC's reach. The
  code compares quantities with `===`, so sums of fractions can drift.
* Storage writes that fail under `Idempotency`, `TransactionExecution` and the
  modules built on it, crashes inside a segment under the latter, and any crash under
  `TransactionApi` and `SettlementInstructionApi`: each of these modules asks what its
  own part does; `DurableSettlement` and `JsonFileStorage` have the failing writes and
  the crashes between writes. Under `Registry`, a failing save of the second write of
  a grant.
* `deleteProperty`, `splice` and the other mutators of `persistentCollection.ts`:
  no route uses them. `inMemoryStorage.ts` is for tests.
* Registration of adapters: a constant. Only the two adapters' behaviour and the
  faults of a networked one are modelled.
* Evidence routes, health and metrics: they read.
* Authentication, headers, envelopes, pagination, request identifiers, the SDK: no
  state of the domain.
* `tokenizationEngine.ts`, `movementEngine.ts`, `assetRegistryEngine.ts`: called
  by tests only.

## 7. Plan

What is left:

Failing writes of the storage under `Idempotency`, where a replay may come
from a record no file holds.
