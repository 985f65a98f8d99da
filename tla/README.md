# A TLA+ model of the Lido alerting bots

The repository holds some twenty Forta bots. Each is a Node.js process that a scan node feeds with
blocks and transactions and asks for *findings* (alerts). The bots keep a little state between two
calls (caches, counters, timestamps that throttle an alert, an SQLite table in two of them) and
read everything else from an Ethereum or L2 node over RPC. Node.js runs one callback at a time, so
a handler is atomic between two `await`s and interleaves with every other handler at each of them.
That, requests that fail or answer late in the middle of a handler, handlers that are retried or
have timed out, processes that end and start again, and alerts that are computed but never
delivered are what the model is about. What an alert says, and the arithmetic of token amounts, is
left out wherever no property depends on it.

Contents: [inventory](#inventory) - [modules](#modules) - [runs](#runs) -
[bounds](#bounds-and-why-they-are-enough) - [fairness](#fairness) - [proofs](#proofs) -
[disagreements](#where-code-and-documentation-disagree) -
[what is not modelled](#what-is-not-modelled) - [plan](#plan).

## Inventory

### ethereum-steth

One gRPC server; the scan node calls `Initialize`, `EvaluateBlock`, `EvaluateTx`, `HealthCheck`.

| part | state | operations | hard behaviour | correct when |
|---|---|---|---|---|
| `main.ts`, `handlers/*` | the array of start-up findings shared by `main`, `InitHandler` and `BlockHandler` | initialize, evaluateBlock, evaluateTx, healthCheck | the block handler replaces the shared array; gRPC calls interleave at awaits; results of services are matched by position; a service that throws ends the process | every finding is delivered exactly once |
| `health-checker` | error count, start of the error window, two flags | check, isHealth | lazy window, judged only when a call comes | unhealthy only when earned, and always noticed |
| `gate-seal` | the gate seal's address, two throttle timestamps | initialize, handleBlock (two concurrent tasks), handleTransaction | the address is read, awaited on, read again and cleared; one runner shared by all requests | a newly created gate seal is never forgotten |
| `storage-watcher` | none (slots and expected values are constants) | handleBlock | a draw by block number picks a ninth of the slots | every slot is read within one round, and changes are reported |
| `withdrawals` | an SQLite table of requests, a cache of counters and timestamps | initialize, handleBlock, handleTransaction | statuses are read at a block and written after an await, over flags that events have set meanwhile | the table converges to the chain and never regresses; throttled alerts are not lost |
| `steth_operation` | the previous four blocks, buffered ether, last-alert times, share rate | initialize, handleBlock (four concurrent tasks), handleTransaction | reorganisations, missed blocks, calls that overlap on one window of blocks, a request that throws, a share rate cached by the transaction handler | every decrease of the buffered ether is compared once, at a block the chain keeps; ether that waits is told of daily |
| `pools-balances` | cached pool sizes and prices, last report times | init, handleBlock | concurrent tasks share the cache | a report compares with the last reported value |
| `vault`, `aave` | none, or last alert times | handleBlock, handleTransaction | two blocks are compared that are read in different requests | |
| `clients/eth_provider.ts` | one gate seal runner | RPC calls with retries | may answer `Left` on any call, and `getUnbufferedEvents` (134) throws; arrays with missing items are shortened | |

### The sub-agent bots

`arb-subgraph`, `ethereum-huge-tx`, `ethereum-validators-set`, `l2-bridge-ethereum`,
`lido-on-polygon`, `multisig-watcher`, `phishing-detect`, `polygon` and `voting-watcher` share
one `agent.ts`, a runner: it hands every block and transaction to all sub-agents at once, gives
each several attempts, races each run against a timer, and answers when all races are settled.
A run that has lost its race goes on. A sub-agent is a module with global `let` state.

| part | state | operations | hard behaviour | correct when |
|---|---|---|---|---|
| `agent.ts` | the launch finding; per call the runs and their findings | initialize, handleBlock, handleTransaction, timeout | retries, exceptions, hanging handlers, late runs | every event is answered; no sub-agent fails silently; the launch is told once |
| `lido-on-polygon/agent-dao-ops.ts` | five throttles, two buffer timers, the last reward distribution | five block checks, transaction events | a check sets its throttle in a call whose findings are dropped; late checks of older blocks write older timestamps | what a block gives reason for is reported; "for more than" means what it says |
| `.../agent-withdrawals-monitor.ts` | a cache of recent withdrawals, the last report | handleBlock, handleTransaction | the cache is filtered before an await and summed up and emptied after it | no withdrawal is lost or counted out of its period |
| `.../agent-node-operators-v2.ts` | validators reported as inactive, two throttles | three block checks, admin events | a request that is not awaited, and whose rejection nobody handles; news lost with a failed or late call | the last news of a validator is true |
| `ethereum-validators-set` | last report times, overdue counters, members' last reports, sanity limits | ten oracle and registry sub-agents | counters across retries; transactions that update what blocks compare | an overdue report is told at every threshold, once |
| `ethereum-huge-tx` | vault balances, read on every 69th block | balance diff, transfers of transactions | a retry compares with a balance already replaced | a change is told once |
| `voting-watcher` | map of active votes | votes of transactions; block checks | the map is changed by attempts and late runs whose findings are dropped | the end of a vote and each threshold before it are told once |
| `l2-bridge-ethereum` | last implementations and admins | proxy watcher, bridge events | as the L2 proxy watcher | |
| `multisig-watcher`, `phishing-detect`, `polygon`, `arb-subgraph` | a last block, a counter, or last balances | block and transaction checks | | |

### The L2 bridge bots

`l2-bridge-base`, `-linea`, `-mantle`, `-scroll` and `-zksync` are five copies of one program on
the Forta SDK. Forta does not know these chains, so every L1 block makes the bot fetch the L2
blocks since a cursor. `l2-bridge-arbitrum` does the same behind gRPC calls, without the flag, and
its cursor is the greatest row of a table of L2 blocks in an SQLite database in memory. To
`l2-bridge-optimism` the scan node gives the L2 blocks one by one, so it has no cursor.

| part | state | operations | hard behaviour | correct when |
|---|---|---|---|---|
| `agent.ts`, block client | the flag `isHandleBlockRunning`, the cursor `cachedBlockDto` | initialize, handleBlock | L1 blocks that come during a call are dropped; chunks of requests fail; every way out must clear the flag | no L2 block is passed over without a reported cause; the bot never goes silent |
| `proxy_watcher.ts` | last implementations and admins | initialize, handleBlocks | a failed request drops earlier findings of the check | a change of a proxy is told |
| `monitor_withdrawals.ts` | store of withdrawals of 48 hours, last report | initialize, handleBlocks | | huge sums are reported |
| event watchers, `bridge_balance.ts` | none | handleLogs, handleBlock | | |
| arbitrum store | tables of L2 blocks and withdrawals, in memory | handleBlock, initialize | calls overlap on one table; the cursor is stored before the logs of its blocks are handled; rows grow old and are removed; one row holds the withdrawals of one transaction; rows that are held while the proxy watchers are awaited; a restart empties the tables | what the cursor passes is handled or lost for a named reason; a withdrawal is kept for its 48 hours |

### csm-alerts, ethereum-governance, bsc-adi-governance

gRPC servers behind the health checker: event watchers, with a few periodic checks.

| part | state | operations | hard behaviour | correct when |
|---|---|---|---|---|
| csm `CSModule` | the `NodeOperatorAdded` events, counts of their addresses, a throttle for each alert | initialize, handleBlock, handleTransaction | the counts outlive a block; calls overlap, an older block may be counted after a younger one; one throttle for all addresses; a request that fails rejects a promise nobody catches, and the process ends | an address that too many operators share is told of daily, and no other is |
| csm `CSFeeOracle`, `CSAccounting` | the last report, last alert times | handleBlock, handleTransaction | | |
| governance `agent.ts` | the flag of the L2 agents | handleBlock | every way out must clear it | |
| governance votes, stonks | votes by block; pending orders | handleBlock, handleTransaction | | each threshold is told once |
| governance ENS, ACL, proxies; bsc-adi | none, or throttle times | handleBlock, handleTransaction | | |

## Modules

| module | code | state and actions |
|---|---|---|
| `HealthChecker` | `ethereum-steth/.../health-checker.srv.ts` | `errorCount`, `errorStartedAt`, `isAppOk`, `isBotOutdated` are the fields; `check` is the method, with `CheckFlood` its early return and `CheckWindow` the rest; `Tick` moves the clock. `calls` is a history of what was reported when |
| `GateSeal` | `gate-seal/GateSeal.srv.ts`, `.cache.ts`, three methods of `eth_provider.ts` | `handleBlock` starts both tasks, `handlePauseRole` and `handleExpiryGateSeal` are what follows their await, for every call that is open; `handleNewGateSeal` the transaction. `runner` is the provider's contract object, to which retried requests go |
| `StorageWatcher` | `storage-watcher/StorageWatcher.srv.ts` | `part(n)` is the draw; `handleBlock` reads a part with any reads failing; `change` is the chain |
| `StethWithdrawals` | `withdrawals/Withdrawals.srv.ts`, `.repo.ts`, `.cache.ts` | `table` is the SQLite table (the two flags of a request), `lastAlert` and the other cache variables are the cache. A block call is `handleBlock`, `lastRequestIdRead`, `refresh`, then three checks side by side, each with its awaits: `handleQueueOnParWithStakeLimit`; `unfinalizedRead`, `handleUnfinalizedRequestNumber`; `unclaimedRead`, `unclaimedWritten`, `finalizedRead`, `removed`, `balanceAnswered`. A transaction call is `handleTransaction` and the handler of its event. `chain` (external) is the queue as of every block, so that a status can be written later than it was read |
| `StethBuffer` | `steth_operation/StethOperation.srv.ts`, `handleBufferedEth` | `prev4Blocks` is the cache's array of four; a call, of which several may be open, is cut at its awaits: `handleBlock`, `handleBufferedEth`, `prevAnswered`, `bufferAnswered`, `eventsAnswered`, and `answers` once the other services are done. `fails` is a request that answers an error, `throws` the one that throws, after which the process is down until `initialize`. The chain may be reorganised (`reorganised`), and then gives its new blocks to the bot again |
| `DepositableEther` | the same method, for every hundredth block | the timer and the throttle are the fields; `handleDepositable` is a sample, `fails` one that is lost, `depositorTx` the transaction that resets the clock of three days |
| `StethHandlers` | `main.ts`, `init.handler.ts`, `block.handler.ts` | the two variables `onAppFindings` and `onAppStartFindings` are the array of `main` and the one `BlockHandler` puts in its place (`shared` tells whether they are one); a block call is cut at its awaits: `handleBlock`, `latestBlockAnswered`, `servicesDone`, `respond`. `servicesReject` is a service that throws: all open calls are gone, and another `life` of the process begins |
| `SubAgentRunner` | `lido-on-polygon/src/agent.ts` | `run[e][a]` is the run of a sub-agent for an event: attempts left, what became of its handler, who won its race. What a sub-agent does is open: `handlerReturns`, `handlerThrows`, or it hangs |
| `DaoOps` | `agent-dao-ops.ts` under that runner | `calls` is one call of `handleBlock`; each request under way is a record of `pending`, `live` while its call is the current one. `checkAnswered`, `bufferedAnswered`, `requestFails`, `callReturns`, `timeout`; `handleRewardDistributionEvent` and `checkpointsCounted` are the transactions |
| `ProxyAdminCheck` | `agent-dao-ops.ts`, `handleProxyAdmin` | the one check whose requests share a local variable, for one block with retries |
| `NodeOperators` | `agent-node-operators-v2.ts` | three checks at once; `idsAnswered`, `infoAnswered`, `ownerAnswered` are the chain of requests, the last of which nobody awaits; `ownerFails` is its rejection, which ends the process or does not; `activeSetAnswered` tells news; after `timeout` the run of the block goes on, with its retries, beside those of later blocks |
| `WithdrawalsMonitor` | `agent-withdrawals-monitor.ts` | `handleBlock` filters the cache and asks, `poolAnswered` sums up and reports, `handleWithdrawalEvent` adds; calls of several blocks overlap after a timeout |
| `L2Agent` | `l2-bridge-scroll`: `agent.ts`, `scroll_block_client.ts`, `scroll_client.ts`, `mutex.ts` | `handleBlock` enters or returns by the flag; `latestAnswered`, `blocksFetched`, `logsFetched`, `watched` are the awaits; `throws` an exception that leaves the flag set |
| `L2ProxyWatcher` | `proxy_watcher.ts` | one request after the other: `implAnswered`, `implFails` |
| `L2WithdrawalsMonitor` | `monitor_withdrawals.ts` | synchronous `handleBlocks` over a batch of blocks |
| `L2Stream` | what a bot that fetches L2 blocks itself promises, abstractly; `L2Store` implements it | a cursor passes blocks in order; what it has `passed` is under way, `seen` or `lost` for a reason with a name; nothing under way is forgotten |
| `L2Store` | `l2-bridge-arbitrum`: `block.handler.ts`, `L2Blocks.srv.ts`, `.repo.ts`, `l2_client.ts`, `monitor_withdrawals.ts`, `.repo.ts` | `l2_blocks` and `withdrawals` are the tables, `call` the calls, any number of which may be open; `latestAnswered`, `cursorRead`, `inserted`, `logsOfLatest`, `stored`, `closestRead` are the awaits up to the logs, `rowsRead` the look for the rows, which are held while the proxy watchers are awaited, `recorded` the insertion, which merges rows of one transaction, `removed` the removal of what is older than 48 hours; `storeFails`, `recordFails` and `fails` are their failures, `restart` a new process |
| `VotingWatcher` | `voting-watcher/src/agent-voting-watcher.ts` under the runner | `activeVotes` is the map, with the fields `mergeVotesInfo` keeps; a run reads the votes and then looks whether to ping; attempts that fail, and runs that time out and go on (`late`), have changed the map |
| `CsmModule` | `csm-alerts/.../CSModule.srv.ts`, its handlers | the list of events, `addressCounts` and the throttle are the fields; `calls` are the calls of `handleBlock` under way, which do not wait for one another; `summaryAnswered` counts, `checksAnswered` answers the block; `processEnds` is a rejected promise and the restart after it |
| `*_proofs` | | theorems about the module named; `StethServices_proofs`, `Bots_proofs` and `L2Agent_proofs` about the parts of `MCStethServices`, `MCBots` and `MCL2Bridge` and their composition; `StethWithdrawals_proofs` and `DaoOps_proofs` about modules that a run takes with several sets of constants, and which those instantiate with each; see [Proofs](#proofs) |
| `MC*` | | instances for TLC |

`DaoOps`, `NodeOperators`, `WithdrawalsMonitor` and `ProxyAdminCheck` each compose a sub-agent
with what `SubAgentRunner` does to it: another attempt after an exception while the requests of
the failed one go on, an answer or an error, a timer that does not stop the run. `VotingWatcher`
does the same, and `CsmModule` composes its service with the process that ends when a promise of
the service is rejected. The runner on its own leaves the sub-agent open.

`L2Store` (a cursor in a table, no flag) implements `L2Stream`: it instantiates the stream with the
logs its calls hold (`held`) as what is under way, and the property `KeepsStream` is its
specification. The causes for which it loses blocks are named where it adds to `lost`; `held` and
`lost` are bookkeeping, no state of the code. The refinement is proved as well. `L2Agent` (a cursor
in memory, kept by a flag) accounts for its blocks in the invariant `EveryBlockIsAccounted`, to
which the stream would add nothing.

What ends a process: ethereum-steth and csm-alerts run on Node 20 (`Dockerfile`), where a rejected
promise that nobody handles ends the process, and neither installs a handler for it. `StethBuffer`
and `StethHandlers` have the one request of ethereum-steth that throws, `CsmModule` any of its
requests. The other modules of ethereum-steth model one life of the process: their caches begin
again with `initialize`. `lido-on-polygon` runs on Node 16 inside the host of the Forta SDK, whose
code is not in the repository, so in `NodeOperators` a rejection may end the process or not.

Definitions next to a definition of the code, introduced with
"a bug would", are its mutants: each is a plausible mistake in that line, and each property is
known to fail for one of them.

History variables (marked so in each module) record what was reported, seen or dropped; no
action of the code reads them.

## Runs

Modules that share no state are checked in one run as alternatives: the first state picks a part,
and the others rest.

| run | configuration | what it shows |
|---|---|---|
| `steth_handlers` | `MCStethHandlers.cfg` | health checker: the window agrees with the calls it saw, a verdict is always justified (`UnhealthyIsEarned`), and a burst that is cut in two by the tumbling window stays below twice the tolerance (`BurstIsNoticed`); handlers: the start-up findings of a life of the process reach one block only; its launch is reported once a block is handled, unless a service throws first and ends that life |
| `steth_services` | `MCStethServices.cfg` | storage watcher: every slot is looked at in any ten blocks; gate seal: with overlapping blocks, failures, retries and a second seal, the newest seal is watched unless it was created during a block call; withdrawals: with overlapping block and transaction calls, failures and late writes, the table never says more than the chain (`TableIsTrue`), no request is passed over, the scan finds the claims nobody told of, and an alert whose throttle is set leaves the bot; depositable ether that stays too much or too long is told of within the day (`EtherIsTold`); buffered ether: with two calls that overlap at any await, blocks left out, a reorganisation, requests that fail and one that throws and ends the process, a decrease no event explains is reported unless the one call that compares its block failed or never came (`DrainIsReported`), and what is reported has happened, at the block that was to be checked, on the chain that is left (`DrainIsTrue`); both leave open a check that overlapped another one and the two checks after it, whose window such an overlap may have shifted |
| `runner` | `MCSubAgentRunner.cfg` | the launch is told with one block; no sub-agent fails silently; every event is answered although handlers may hang |
| `bots` | `MCBots.cfg` | withdrawals monitor: no withdrawal of the window is lost between cache and reports, whatever late runs do; a burst is reported; a report counts its own period; node operators: the last news of a validator is true, unless later news was lost with a call that failed or timed out, or with the process; proxies: those another contract administers are told although answers share a variable; DAO operations: what a block gives reason for is reported within the throttle's window, unless a call of that window failed (`DueIsReported`), and the timers mean what the alerts say (`StartIsSustained`); voting: the end of a vote is told with the next block that is answered, unless an attempt of the bot took it out of the map (`EndIsTold`); csm-alerts: an address that too many operators share is alerted within a day of being counted, whatever blocks are left out, while two calls overlap and across a restart (`SharedIsTold`) |
| `l2_bridge` | `MCL2Bridge.cfg` | every L2 block the cursor passes is handled, under way or hidden by a named failure; calls do not move the cursor back; every block is reached in the end; a changed implementation is told unless a later request of its check failed |
| `l2_store` | `MCL2Store.cfg` | the table of Arbitrum is a stream as well, with two calls that share it, chunks that are missing, statements that fail, rows that grow old and a restart (`KeepsStream`); the last withdrawal of every transaction whose logs were handled is in its table for 48 hours or left out for a named reason (`WithdrawalsAreRecorded`) |
| `gate_seal_expired` | `MCStethServices_Expired.cfg` | *violated*: the alert "is expired" names a seal that has not expired |
| `steth_delivery` | `MCStethHandlers_Delivered.cfg` | *violated*: findings of two services leave the bot |
| `steth_rebase` | `MCStethServices_Rebase.cfg` | *violated*: a big sum of requests since a rebase is alerted |
| `storage_reported` | `MCStethServices_Reported.cfg` | *violated*: a changed slot is reported |
| `csm_duplicates` | `MCBots_Duplicates.cfg` | *violated*: an address alerted as shared is shared by more operators than may: one operator, which has one address for both purposes, is counted twice with its first block and four times after its second, more than the limit of two |
| `l2_huge` | `MCL2Bridge_Huge.cfg` | *violated*: huge withdrawals are alerted |

Some properties leave a case open that the code really loses (`raced`, `untold`, `overtaken`,
`dropped`, `thrown`, `hidden`, `late`, `lost`, `unchecked`, `overlapped`). The condition names
exactly the cause, so the property says that nothing else has that effect; the causes themselves are listed
[below](#where-code-and-documentation-disagree).

`CHECK_DEADLOCK FALSE` stands in every configuration but that of the store: clocks, blocks and
calls are bounded, so a behaviour ends when the last block is done; and a process whose
initialization fails really stops.

## Bounds and why they are enough

* `MCStethServices`: 9 slots (one a part) and 15 blocks, more than one round of ten from the
  middle of a round. Two seals are enough for one that replaces the other, two block calls for
  every overlap of a read and a write; a day is one block, the last block leaves room for two
  alerts two weeks apart. Withdrawals: two calls for every overlap, three requests (one stored at
  the start, one the start has to fetch, one that comes) and four blocks, every second of which
  stands for one of a hundredth; a row is old enough to be removed after one block. Two checks of
  hundredth blocks never overlap, which lie twenty minutes apart. The daily alerts are checked
  with one call at a time, and so are the rebases, with four requests and six blocks. Buffered
  ether: two calls for every overlap, blocks 5 to 8: the window of four blocks before the start with
  the fourth after it; the decrease in each of the blocks that these check (2 to 5; one an event
  explains in the first after the start), so that a block is checked before, during and after an
  overlap; a reorganisation of one block, where the code waits for three; the process may end as
  often as a call awaits events. Depositable
  ether: nine samples, an hour of two, a day of four, three days of six, so that the throttle closes
  and opens again. The calls are symmetric; no property of this run is temporal.
* `MCStethHandlers`: health checker: border of 2, limit of 3, at most 3 errors a call, 5 calls in
  6 instants, so that a window can be opened, filled, judged late, closed and opened again, and a
  burst can lie across two windows. Handlers: one service whose results are kept, one whose are
  not; two calls and three blocks, so that two blocks compete for the array and a third finds it
  empty; two initialize calls, the first of which may fail; two lives of the process.
* `MCSubAgentRunner`: two sub-agents, two attempts, two of three events at once.
* `MCBots`: withdrawals monitor: four blocks, of which two may report; one withdrawal in each
  block; three proxies, for one of each kind; two attempts. Node operators:
  one validator and one operator, whose NFT has another owner (`Wrong`: the finding whose request
  nobody awaits) and whose statistics are bad (`Stats`); four blocks; a block comes, or a failed
  call is repeated, while at most one request of before is under way (`MaxOrphans`). DAO operations:
  two attempts and three blocks, windows of one and two blocks, so that a throttle is set, holds
  and opens again. The throttled checks are alike, so one stands for them; the buffer is checked
  in a part of its own, at two of its three levels (the middle one only separates the two timers,
  which the code keeps apart). Voting: one vote, which starts and ends at any of the blocks 1 to 6
  so that it is known from the start or comes later, two attempts and one run in the background:
  votes do not influence one another in the map. Csm: two operators with two addresses of which
  more than one may not share one, a day of one block, four blocks, two calls (`MaxCalls`), so that
  the younger may be counted or answered first, two transactions, so that an event is recorded
  twice, and one restart.
* `MCL2Bridge`: two L1 calls, four L2 blocks, a node at most one block behind; three proxies, so
  that there is a first, a middle and a last; seven blocks in batches of up to three.
* `MCL2Store`: two calls, three L2 blocks of which the first is too old when the third comes, a
  node at most one block behind, one restart: enough for a call that reads a cursor, stores rows
  and looks for them while the other does the same, before and after the tables are emptied. A
  withdrawal is kept for one block (`Keep`), so that the third removes those of the first; the one
  transaction of a block makes one withdrawal, in the second block two, which are merged (`Sent`).
  The calls are symmetric. `KeepsStream` says what no step may do and has no liveness, so symmetry
  does not weaken it.

The theorems below hold for every value of these bounds.

## Fairness

* `StethHandlers!FairSpec`: the start and every open block call proceed. `eth_provider` bounds its
  retries and answers or throws in the end; a call whose service throws ends the process, and it is
  not assumed that this does not happen: the property names it.
* `SubAgentRunner!FairSpec`: the timer of a run fires (`setTimeout`), and an event whose races
  are settled is answered (`Promise.allSettled`). No fairness for handlers: they may hang.
* `MCL2Bridge!MCSpec`: L1 blocks keep coming, as the scan node sends them; a request that is
  awaited is answered or fails (timeouts of the RPC library). Strong fairness only for the
  successful answer to the latest-block request: a node that fails for ever lets nobody see a
  block.

## Proofs

TLAPS checks each of these for every value of the constants that the assumptions admit. Modules
that are instantiated have their assumption as a definition, which the `MC` module assumes of the
constants it passes on; TLC evaluates all of them for the instances of the runs.

| assumption | what it says, and why the code justifies it |
|---|---|
| `HealthAssumption`, `MonitorAssumption`, `AgentAssumption`, `StoreAssumption`, `RunnerAssumption`, `HandlersAssumption`, `ProxyAdminAssumption`, `NodeOperatorsAssumption`, `VotingAssumption` | limits, periods and bounds are natural numbers, and at least 1 where the code has such a number (a limit of errors, attempts, a border, an age); a marker like `NoTime` is none of them; blocks and transactions differ; the blocks begin later than a period is long, as on a chain that is years old; and the start is not after the bound of the run (`Epoch <= MaxTime`, `Start <= MaxBlock`). `MonitorAssumption` is one of `WithdrawalsMonitor` and one of `L2WithdrawalsMonitor` |
| `StorageAssumption` | the length of the list of slots is a multiple of nine; it is 54 |
| `GateSealAssumption`, `DepositableAssumption`, `DaoOpsAssumption` | the same of their periods: a time of 0, which the code uses for "never", lies outside every throttle. The default seal is a seal, the marker for none is not. In `DaoOps` every check has a window and a cadence, and the buffer and the rewards, which run by rules of their own, are none of these checks |
| `BufferAssumption` | the start is not among the first blocks, and a reorganisation replaces at most three blocks, the depth the code waits for |
| `WithdrawalsAssumption` | natural numbers again, and a block to start from; of the queue before the start, what is claimed is finalized and what is finalized exists, as the queue contract sees to |
| `CsmAssumption` | the operators are numbers and finitely many; the chain is older than a day, and the start is not after the bound |
| `ServicesAssumption`, `BotsAssumption`, `MonitorIsGiven` | the assumptions above, of the constants that `MCStethServices`, `MCBots` and `MCL2Bridge` pass on; and, in `MCBots`, that `Part` names parts |
| `ProxiesAssumption` | a bot has at least one proxy |

| module | theorem | argument |
|---|---|---|
| `HealthChecker_proofs` | `TypeCorrect`, `WindowCorrect`, `VerdictCorrect` | inductive: `TypeOK /\ WindowIsFaithful /\ UnhealthyIsEarned`. The verdict needs the window: the errors that condemn the bot are those since the call that opened it. The history carries running totals, so that the errors of a run of calls are a difference and no induction over the sequence is needed |
| | `BurstCorrect` | `BurstInv` adds that there is a set of calls which have closed a window (`ClosedBy`): from any call on, the errors up to the next of them are fewer than the limit, and so are those within `BorderTime` after one of them. A burst shorter than that lies in two windows at most. The set is not a variable of the model; that it exists is the invariant |
| | `StartCorrect`, `PartsAreTyped` | `TakenOnce`: as long as the array of a life is shared, no block has a finding of its start, and the array `BlockHandler` puts in its place stays empty; what has been answered of earlier lives is of those lives. The author of such a finding is no service, so no service's result is one of them |
| `SubAgentRunner_proofs` | `TypeCorrect`, `LaunchCorrect`, `AnswersCorrect` | `LaunchIsSomewhere` follows the launch finding from the variable to one event and its answer. `EveryAgentAnswers` is not inductive: it needs `RaceIsTrue` (a race its run has won tells what became of the run) and `AnswerIsTrue` (an answer keeps this, since a run that ends afterwards has lost its race) |
| `StethServices_proofs` | `TypeCorrect`, `VisitsEverySlot` | storage watcher. `LookIsRecent`: how long ago a slot was looked at is bounded by the distance of the last digits of the block number and of its part, which `RoundTrip` turns into the ten blocks |
| | `WatchesNewestCorrect` | `CallsAskForNewest`: as long as no seal was created during a block call, each open call, and the one runner to which retries go, asks for the newest seal; so what is cleared is the newest one, which has expired |
| | `EtherIsToldCorrect` | `TimerIsEarly`: the timer began no later than the sample that first showed the ether, whatever samples are lost, and all recorded times lie behind the clock |
| | `DrainIsReportedCorrect`, `DrainIsTrueCorrect` | for any number of overlapping calls. `WindowFollows`: of two blocks kept side by side the older is the one before the newer, unless the newer was put there by a check that overlapped another (`OverlapIsNoted` says which are). A check that is alone still finds its parent there when it ends (`CheckFollows`), so that it compares the third and the fourth block before its own (`ChecksAreTrue`), which with `ReportedIsDeep` lie too deep for a reorganisation; and each decrease is compared by the one call for the third block after it (`DrainIsChecked`) |
| | `TableIsTrueCorrect`, `NoRequestIsMissedCorrect`, `ClaimsAreNoticedCorrect`, `AlertsLeaveCorrect`, `QueueIsTyped` | those of `StethWithdrawals_proofs`, instantiated with the constants of the parts `requests`, `alerts` and `rebases`; the lemmas `...Same` say that the definitions of the two instances are the same |
| | `ServicesAreTyped`, `PartsAreTheirOwn`, `PartsAreTyped`, `RunIsCorrect` | the composition, [below](#the-composition) |
| `StethWithdrawals_proofs` | `TableIsTrueCorrect`, `NoRequestIsMissedCorrect`, `ClaimsAreNoticedCorrect` | what the chain says only grows (`ChainGrows`), so that what a call has read before its await still holds when it writes (`ReadHolds`); a request below a stored one is stored, claimed or hidden (`NoGaps`), from which the last id that a call has read is a point without gaps |
| | `AlertsLeaveCorrect` | `AlertsInv`: an alert that set its throttle was told, is held by the call at its checks whose time is that of the throttle, or is known to be dropped |
| | `WithdrawalsAreTyped` | the bound of `amountRequested` is the hard part: a sum to which every request on the chain is added at most once. `SumInv`: it is the cardinality of a set of requests on the chain, none of which an open call or the transaction to come is still going to add, and no two of these are going to add the same one (`AddedOnce`) |
| `Bots_proofs` | `TypeCorrect`, `NoLoss`, `BurstCorrect`, `CountedCorrect` | withdrawals monitor. `CallsAreInOrder` and `CacheIsFresh`: calls of later blocks have not begun, and a cache was filtered by the last block that began. A report then removes only what it has counted, and what is left over for a block answered in time is below the limit, by cardinalities of subsets |
| | `NewsIsTrueCorrect` | `NotedIsTrue` once the call that is waited for has asked for the active set (`Asked`: it asks once), and `ToldIsNoted` at all times: what was told last is what the sub-agent has noted, for validators of which no later news was lost. A request that is not `seen` (its call has failed, its block was answered or timed out) changes nothing that is waited for; a process that ends forgets what it had told. `OpTypes`, its type invariant, needs that the node's answers are of the kind of the question |
| | `AdminsAreToldCorrect` | `ProxyInv`: as long as no request has failed, a proxy that is answered and belongs to another contract is among the findings |
| | `DueIsReportedCorrect`, `StartIsSustainedCorrect`, `DaoOpsAreTyped` | those of `DaoOps_proofs`, instantiated with the constants of the throttled checks and with those of the buffer |
| | `EndIsToldCorrect` | `MapKeepsKnown` and `PingerHasFound`: a vote leaves the map only with a run that holds its end |
| | `SharedIsToldCorrect` | calls may be counted and answered in any order. `ThrottleTold`: when the one throttle was set, each address shared by then was alerted or is found by a call under way; from it, each call that has been counted (`ChecksTell`) and the last answer (`AnswersTold`) lie within a day of an alert of every such address. `SharedIsRecorded`: what was counted as shared stays shared, also through a restart, by cardinalities of the list of events |
| | `PartsAreTheirOwn`, `PartsAreTyped`, `RunIsCorrect` | the composition, [below](#the-composition) |
| `DaoOps_proofs` | `DueIsReportedCorrect` | `ThrottleIsReport` (a throttle that is set names a block whose report was delivered, will be, or whose run failed) and `DueIsHandled` (what gives reason is asked for by a live request or lies in the window of a report) |
| | `StartIsSustainedCorrect` | requests for one block see one level of the buffer (`Sees`); without it a late answer could report another level of the same block |
| | `DaoOpsAreTyped` | inductive as it stands, with the fields of runs and requests bounded (`BoundedRun`, `BoundedCall`) |
| `L2Agent_proofs` | `TypeCorrect`, `CursorCorrect`, `AccountCorrect` | `OneCallRuns` (the flag lets in one call), `WaitsForCursor` (what a waiting call knows agrees with the cursor) and `CursorIsPassed`. From the first, only one call moves the cursor; the accounting of blocks is then a case split on the ways a fetch may end |
| | `ChangeCorrect` | `FoundIsRecorded` and `RestIsTold`: during a check the changes found are recorded, and of all other proxies what is recorded was told |
| | `MonitorIsDeaf` | the counterpart of the violated run `l2_huge`: the withdrawals monitor reports nothing ever, whatever it is given, since nothing is recorded after the start and the sum stays 0. `handleBlocks` is a recursive function over a batch. That it exists is shown by giving it (`AfterBlock`, block by block), that it is no other by the least block at which one could differ: `<` on the naturals is well founded, which takes no induction over an operator |
| | `PartsAreTheirOwn`, `PartsAreTyped`, `RunIsCorrect` | the composition, [below](#the-composition) |
| `L2Store_proofs` | `TypeCorrect`, `KeepsStreamCorrect`, `RecordCorrect` | refinement of `L2Stream` without a flag: `CallsAreBehind` says that what a call has read of the cursor lies behind the newest row there ever was, and this only grows, whatever other calls store, remove or lose in a restart. `RowsAreFound`: a call about to record withdrawals will find the row of their block, or they are recorded already, too old or hidden for a reason; a removal reaches only what is too old by the newest block, since the rows a call holds are of the chain |

`LaunchCorrect` holds both properties of the launch finding, the one the run checks and
`LaunchKept`, that it is never lost on its way. The least or greatest member of a set of numbers
(`firstOf`, `Max`) exists because `<` on the naturals is well founded.

### The composition

A theorem about a component is one of the component's own specification (`Seal!Spec`,
`Csm!Spec`, ...), while a run checks `MCSpec`, where the first state picks a part and the others
rest. `PartsAreTheirOwn`, in each of the three modules, says that the two agree: every behaviour
of `MCSpec` is, for each component, one of its own, with the constants of the part that is taken
where the run has several. It follows from one step: a step of the run is a step of the component
or leaves its variables alone.

`RunIsCorrect` is what this makes of the invariants and action properties of `steth_services`,
`bots` and `l2_bridge`: that they hold of `MCSpec`, for all values of the constants that the
`ASSUME` of the `MC` module admits. `PartsAreTyped` does the same for the `TypesOK` of these runs.

Only model-checked:

* the liveness properties (`LaunchIsReported`, `EveryEventAnswered`, `EveryBlockIsReached`), which
  need `ENABLED` and are out of the prover's reach;
* what is false, in the violated runs.

## Where code and documentation disagree

Shown by a run: see `findings` in `PROJECT.json` and the six violated runs above.

Met while modelling, with no run of their own:

* `ethereum-steth/.../GateSeal.srv.ts:168`: the alert that the seal has no PAUSE_ROLE is built and
  its throttle set, but it is not pushed (`README.md:69` lists it).
* `ethereum-steth/.../Withdrawals.srv.ts:191`: a block call asks for the ids above the last one
  stored. A transaction call that has stored a later request first hides the ones in between from
  all block calls (`hidden`). Of an empty table the last id is 0, which the queue contract refuses.
* `Withdrawals.srv.ts:702`: an error of the update of finalized rows is not reported like the
  other database errors. A row that is claimed but was never marked finalized stays the first
  unfinalized row, and the alert of a long queue (387) goes on naming it.
* `Withdrawals.srv.ts:517`: when the balance request fails, the alert of unclaimed requests found
  just before it is dropped with its throttle set, for a day.
* `StethOperation.srv.ts:426`: two calls that overlap both shift the window of four blocks, in
  whichever order they end, and the heights in between are compared wrongly or never
  (`overlapped`).
* `ethereum-steth/src/clients/eth_provider.ts:134`: `getUnbufferedEvents` throws where the other
  requests answer `Left`. `Promise.all` of the block (`block.handler.ts:115`) rejects, nobody
  catches it, and the process ends: the block is not answered, and its findings, those of the start
  included, are lost.
* `StethOperation.srv.ts:187`: the share rate a transaction has stored is compared with the rate at
  the block of a call, which may lie before the rebase.
* `StethOperation.srv.ts:371`: the two alerts of depositable ether share a throttle, so the medium
  one silences the high one for a day.
* `agent-dao-ops.ts:295`: the alert of late rewards found by an attempt that then fails is lost
  with its throttle set. `checkpointsInLastInterval` (70) is only ever initialised.
* `voting-watcher/src/agent-voting-watcher.ts:124`: an attempt that fails later, or a run that has
  timed out, takes a vote out of the map, and nobody tells that it is over (`dropped`).
* `csm-alerts/.../CSModule.srv.ts:337`: a number is compared with a promise, so the loop over node
  operators never runs. Line 420 compares a BigNumber with a number by `!==`, which always differs.
  Lines 136 to 144 keep only the first event of a block, and once for each of its transactions.
* `csm-alerts`, `CSAccounting.srv.ts`: a `forEach` with an async callback returns before its
  findings are there.
* `ethereum-validators-set`, exit bus: a throttle is set before a request that may fail, and a
  report is counted again by a retry; `constants.ts:93` sets 8 hours and a quarter where its
  comment says 6 and a quarter.
* `ethereum-governance/src/agent.ts`: the flag is not cleared when a service rejects.
* `l2-bridge-arbitrum/.../monitor_withdrawals.ts:114`: a time in milliseconds is compared with a
  throttle in seconds. The blocks between the latest one `initialize` saw and the first one that
  is handled are not monitored.
* `l2-bridge-arbitrum/.../monitor_withdrawals.repo.ts:30`: rows are merged on the hash of the
  transaction, so of several withdrawals in one transaction the last one counts.
* `lido-on-polygon/src/agent.ts:37` says a timeout interrupts the execution; line 150 only settles
  the race.
* `agent-dao-ops.ts:312`: `proxyAdminFor` is declared outside the loop of concurrent checks, so a
  proxy for which the call reverts is judged by another's answer.
* `agent-node-operators-v2.ts:137`: `ownerOf` is neither awaited nor caught: its finding may come
  after the answer, with the throttle set, and its failure is a rejection nobody handles.
* `l2-bridge-scroll/src/services/proxy_watcher.ts:90`: a failed request returns only the network
  alert and drops findings whose state has been updated.
* `l2-bridge-scroll/src/agent.ts:70`: an exception leaves `isHandleBlockRunning` set, and the bot
  answers nothing from then on.
* `l2-bridge-scroll/src/agent.ts:86`: an early return drops the launch finding it has just taken.
* `scroll_client.ts:146`: chunks of logs that fail are only logged.
* The membership test of `l2_huge` is repeated in `l2-bridge-base` (line 162), `-mantle` (156),
  `-linea` (166) and `-zksync` (157).

## What is not modelled

* Wording and metadata of findings, logging, metrics, HTTP servers, generated code (ABI bindings,
  protobuf), build files.
* Event watchers: pure maps from logs to findings, with no state.
* Amounts: sums, rates and percentages of tokens are compared with limits; the models have the
  comparison and count equal amounts.
* Components with status `not_modelled` in `PROJECT.json`, each with its reason; the stateful ones
  among them are in the plan.
* `ethereum-validators-set`: the exit bus and accounting oracle sub-agents, 900 lines of reports
  read at one block; `ethereum-governance`: votes and stonks; `l2-bridge-optimism`: their state is
  that of modules named in the table of components, and the rest is single events.
* Of `ethereum-steth`, the share rate and the staking limits of `steth_operation`, pools, vault.
* A reorganisation is modelled where the code reacts to one, in `StethBuffer`.
* Most lines of the repository are the package manager's bundles (`.yarn/releases`) and tables of
  addresses, which no bot's behaviour depends on step by step.

## Plan

Modelled: the parts above. What is left, the most important first:

1. An abstract specification of `StethWithdrawals` (the table is the chain's at some block not
   after the last).
2. The oracle reports of `ethereum-validators-set`, the votes of `ethereum-governance`.
3. A sub-agent under `SubAgentRunner` by INSTANCE, with the runner of `DaoOps`, `NodeOperators` and
   `VotingWatcher` shown to refine it.
