# TLA+ models of the EVM contract state engine

These modules model two parts of the repository, and TLC checks them:

- `evm_runtime::state` (`src/contract/src/state.cpp`) stores Ethereum world
  state (accounts, code, storage) in eosio multi-index tables. It also
  collects the storage and code that deleted accounts leave behind, in a
  deferred and budgeted way.
- The `eth_getLogs` handler of silkrpc (`src/silkrpc/commands/eth_api.cpp`)
  answers log queries from a node's database.

## 1. Inventory of the system

| Part | Source | State | Operations |
|---|---|---|---|
| Account directory | state.cpp 80-145, 178-266 | `account_table`: rows `{id, eth_address, nonce, balance, code_hash?}` with a `by.address` index | `read_account`, `update_account` (create / modify / delete), implicit creation in `update_account_code` and `update_storage` |
| Storage store | state.cpp 46-72, 216-266 | `storage_table` with one scope per account id: rows `{key, value}`, where a zero value means no row | `read_storage`, `update_storage` |
| Code store | state.cpp 26-44, 110-144, 178-214 | `account_code_table`: rows `{id, code_hash, code, ref_count}` | `read_code`, create-or-increment in `update_account_code`, decrement-and-queue in `update_account` |
| GC queues | state.cpp 110-176 | `gc_store_table` (storage scope ids) and `gc_code_table` (code row ids), both FIFO by primary key | enqueue when an account is deleted; `gc(max)` drains the queues |
| Per-transition caches | state.cpp 20-21, 29-30, 50-59 | `addr2id` and `addr2code` | filled by the read paths; dropped when the transition ends |
| Unimplemented chain surface | state.cpp 268-319 | none | abort with `eosio::check(false)` or return constants |
| `eth_getLogs` | eth_api.cpp 196-408 | read-only database transaction and Roaring bitmaps of block numbers | narrow the blocks by topics and addresses, then read the receipts and filter the logs |
| Other RPC handlers | eth_api.cpp 40-195, net_api.cpp | read-only transaction | check the params, parse a block id, read a value or a block, format it |
| gRPC KV stub | kv.grpc.pb.cc | none | generated code |
| Test harness | src/tests | none | fixtures |

**How the parts interact.** The interpreter (silkworm, not in this
repository) runs one transition at a time:

1. It reads through `read_account`, `read_code` and `read_storage`. These
   fill the caches.
2. At commit it calls `update_storage` for each written slot of a live
   account.
3. It calls `update_account` for each touched address, with the initial
   and current snapshots.
4. It calls `update_account_code` right after the `update_account` of an
   address that receives new code.

Deleting an account does not erase its storage or code. It queues the
storage scope, and it queues the code row if that row's `ref_count` falls to
zero. The administrative `gc(max)` drains these queues later. It works
outside transitions, on a budget shared by both queues.

**Hard behaviours.**
- Id allocation through `available_primary_key()`.
- Commit calls arriving in any order: `update_storage` can create an
  account before `update_account` does.
- Code that is queued at ref_count 0 and then adopted again before gc runs.
- The budget boundary inside `gc`.
- Cache lifetime.
- Whether gc ever finishes its work.

## 2. Modules

| Module | Models | Correspondence |
|---|---|---|
| `EvmState` | state.cpp: the tables and the `state` methods | `accounts` is a set of records `[id, addr, data, code]`. Nonce and balance are abstracted to `data`; a `code` of `NoCode` is the C++ `nullopt`. `storage` maps each account id to a slot map (0 = no row). `codes` is a set of `[id, hash, rc]`; code bytes are identified with their hash. `gcStore` and `gcCode` are sequences in primary-key order. `addr2id` and `addr2code` are the caches. Each method is an operator of the same name (`ReadAccount`, `UpdateAccount`, `UpdateAccountCode`, `UpdateStorage`, `Gc`). `NextId` is `available_primary_key()`. The two `gc` loops are the RECURSIVE operators `GcStoreLoop` and `GcCodeLoop`. |
| `EvmDriver` | the interpreter's use of the engine (from spec sections 2, 4.2 and 5) | `phase` goes idle → exec → commit → idle. `Execute` chooses any outcome for every account: unchanged, deleted, data changed, or code deployed on an account without code. It also chooses any write for the slots of live contracts. The commit actions make the engine calls in any order the commit loop allows. `EndTx` drops the caches. `Collect(m)` is the `gc` action, run only while no transaction is active. |
| `EvmWorld` | what the engine promises (spec sections 3, 4 and 8) | one account and one storage map per address; deleting an account clears its storage at once |
| `MC_EvmDriver` | model values for TLC | two addresses, one code hash, one storage key |
| `EthGetLogs` | eth_api.cpp 198-408: `handle_eth_get_logs`, `get_topics_bitmap`, `get_addresses_bitmap`, `filter_logs` | `headers` is every header the database knows, as `[num, hash, logs, stored]`; receipts are flattened to their logs, and `stored` says whether they are in the database, which `GetReceipts` (`get_receipts`) reads. `canon` is the canonical hash per number. `Mine` and `Unwind` are the node growing and reorganising the chain. The indices `TopicIndex` and `AddressIndex` cover the canonical blocks only. `Serve` is one request, answered atomically, because the handler reads one snapshot through one read-only transaction. Its reply is `GetLogs(f)`, which has one operator per step of the handler: the range, `TopicsBitmap` and `AddressesBitmap` (folds over the filter), `Narrow`, and the recursive `Scan` with `GetReceipts` and `FilterLogs`. `Respond` sends the reply. `Expected(f)` is the reference answer: the logs of the block with that hash, or of the canonical blocks in range, that match the filter as go-ethereum's `filterLogs` does. |
| `MC_EthGetLogs` | model values for TLC | two addresses and two topics, with symmetry over each |
| `EthBlockApi` | eth_api.cpp 41-195 and net_api.cpp: the block and node-status handlers | It EXTENDS `EthGetLogs` and reads the same chain. `synced` is the Finish stage's progress, which `get_current_block_number` reports; `FinishStage` moves it to the head, and `BlockUnwind` pulls it back. `ServeBlock` is one request of any of these handlers, answered atomically from one snapshot. Each handler is an operator: `BlockNumberReply`, `ChainIdReply`, `ProtocolVersionReply`, `SyncingReply`, `NetReply`, `ReadBlockByHash`, and `GetBlockByNumber`. `GetBlockByNumber` runs the params-count check, `ParseBlockId` (the tags, and `std::stol` with its throw in `Parses` and its conversion to `uint64_t`), `ResolveNumber` (`core::get_block_number`), and `ReadBlockByNumber`. A throw is the `Error` reply. |
| `MC_EthBlockApi` | model values for TLC | one address, no topics or logs, four headers |

`EvmDriver` instantiates `EvmWorld` with the refinement mapping
`world <- View(a)` and `slots <- storage[Row(a).id]`, read through the
`by.address` index.

## 3. Runs

| Run | cfg | Expect | What it shows |
|---|---|---|---|
| `core_safety` | `MC_EvmDriver.cfg` | pass (about 963K states) | `CodeRefCount`: between transactions each hash has at most one code row, and its `ref_count` equals the number of accounts using it. `ZeroRefQueued`: every row at ref_count 0 is in `gc_code_table`. `GcBudget`: `gc(max)` does at most `max` units of work, and when `max` covers the backlog it drains both queues and returns true. |
| `storage_reclaimed` | `MC_EvmDriver_live.cfg` | pass (about 133K states) | `StorageReclaimed`: the slots of every deleted account are eventually erased, under fair gc calls. |
| `gc_two_slots` | `MC_EvmDriver_slots.cfg` | pass (about 2.6M states, 45 s) | This run uses two storage locations, so a `gc` budget can run out inside a scope. `StorageAccountedFor`: every scope holding slots belongs to a live account or still has a `gc_store_table` entry. `GcBudget` is checked again on this instance. |
| `account_id_reuse` | `MC_EvmDriver_reuse.cfg` | violation | `WorldRefinement` fails. Contract a2 (id 0, slot k1 = 1) self-destructs. In the same commit a contract is deployed at a1, and `available_primary_key()` gives it id 0 again, so a1 reads slot k1 = 1 where the world has 0. The scope of id 0 is still queued, so the next `gc` call also erases a1's live slot. The spec says ids are never reassigned. This is a code bug. |
| `code_gc_starvation` | `MC_EvmDriver_starve.cfg` | violation | `CodeReclaimed` fails. Every transaction deletes an account, which queues a storage scope, and every `gc(1)` spends its budget on the storage queue. The code row at ref_count 0 is never erased. The spec (section 4.4) calls the queues independent, but the code shares one budget and serves storage first. |

These runs check `eth_getLogs`:

| Run | cfg | Expect | What it shows |
|---|---|---|---|
| `getlogs_exact` | `MC_EthGetLogs.cfg` | pass (about 941K states, 22 s) | `RangeLogsExact` holds for every range query whose topic list is absent or names a topic: the reply is exactly the expected logs, in block order. The topic index ignores positions, empty unions are skipped, an empty intersection restarts, and the scan stops at the first number past the head. None of these loses or adds a log. |
| `getlogs_wildcard_topics` | `MC_EthGetLogs_wildcard.cfg` | violation | `RangeLogsComplete` fails, which is a code bug. Topics `[]` (or only empty positions) give an empty topics bitmap, and the handler then returns no logs. `filter_logs` treats an empty position as a wildcard, so those filters should match. |
| `getlogs_receipts_silent` | `MC_EthGetLogs_nostore.cfg` | violation | `RangeLogsExact` fails when a block's receipts are not stored. `get_receipts` returns no receipts, because re-executing the block is a TODO in the code. The block then contributes no logs, and the reply is still a success. |
| `getlogs_u32_range` | `MC_EthGetLogs_overflow.cfg` | violation | `RangeLogsSound` fails once clients may send block numbers up to 2^64-1, which is a code bug. `addRange(start, end + 1)` fills a 32-bit Roaring bitmap: `end + 1` wraps at 2^64-1, and both range ends are cut to 32 bits. A query for blocks 2^32 to 2^32+1 scans blocks 0 and 1 and returns their logs. A query from the latest block to `to_block = 2^32` gets the empty range and no logs, so `RangeLogsExact` fails too. |
| `getlogs_block_hash_reorg` | `MC_EthGetLogs_blockhash.cfg` | violation | `BlockHashLogs` fails. A block is mined with a log and then unwound. A query by that block's hash reads the canonical block at the same number, so it returns another block's logs or none. EIP-234 says such a query returns the logs of the block with that hash. |

These runs check the block handlers:

| Run | cfg | Expect | What it shows |
|---|---|---|---|
| `block_by_number` | `MC_EthBlockApi.cfg` | pass (about 1.4K states) | `BlockByNumberExact`: `eth_getBlockByNumber` returns exactly the canonical block its id names, or an error when there is none. The ids are the three tags, the numbers 0-5 (4 and 5 are above `LONG_MAX` at the scaled width) and an unparsable string. The chain grows to four blocks and unwinds. |
| `block_by_negative_number` | `MC_EthBlockApi_negative.cfg` | violation | `BlockByNumberExact` fails for negative ids. `std::stol` accepts a sign, and the long is stored in a `uint64_t`, so -1 and -2 become 2^64-1 and 2^64-2. Those are silkrpc core's latest and pending tag numbers, and the request returns the latest block instead of an error. The tag values are taken from silkrpc core, which is not in this repository. |

Each property of a passing run has a mutant in `PROJECT.json`: a variant of
the code's operator with a plausible bug that TLC detects. The mutants are:
- a code row id taken from the account table;
- no ref_count decrement;
- queueing only at `ref_count < 1`;
- the storage loop overrunning its budget by one;
- the storage loop stopping at an emptied scope;
- the last unit of a budget that runs out inside a scope erasing the scope's entry instead of a slot;
- the `eth_getLogs` scan returning nothing, instead of the logs gathered so far, at a missing canonical hash;
- `"earliest"` parsed as the latest block's number.

## 4. Bounds

The models use:
- two addresses, so one account can be deleted while another is created;
- one code hash, shared by both, so ref_count reaches 2;
- one key, or two keys in `gc_two_slots`;
- `Vals = {1}`;
- `Data = {0, 1}` for the safety runs, so data-only changes occur;
- `MaxAcctId = 2` and `MaxCodeId = 1`;
- queues of length 2;
- gc budgets `0..2`.

`BeginTx` starts a transaction only if the rows it may create and the queue
entries it may add stay within these bounds (`WithinBounds`).

The interesting cases all occur within these bounds:
- an id is reused;
- code is queued and then re-adopted;
- the budget runs out right after a scope is emptied or a code row is erased, or inside a scope (with two keys);
- a deletion and a creation happen in one commit.

For `eth_getLogs` the bounds are:
- logs with up to two topics, so topic positions matter;
- one log per block;
- canonical blocks 0-2, of which block 0 (genesis) has no logs;
- three headers, so either two blocks with logs exist, or one block is unwound and replaced;
- filters that list up to two topic positions;
- from/to values that include one number past the largest head.

The bit widths are scaled down, with `U32 = 4` standing for 2^32 and `U64 = 8` for 2^64:
- In the passing run, from/to go up to 3, so no conversion wraps.
- In `getlogs_u32_range`, from/to go up to 7, which stands for 2^64-1.
- `AddRange` follows `roaring_bitmap_add_range` as documented by CRoaring: nothing if `max <= min` or `min > 2^32`, else the closed range with both ends cut to 32 bits.
- The CRoaring version is not pinned in this repository. Versions differ only for `min > 2^32`, and the trace does not depend on that case.

The cases the properties are about all occur within these bounds:
- a position-blind index hit;
- an empty subtopic union;
- an empty intersection;
- a range running past the head;
- a reorganised block.

Missing receipts are chosen per block when it is written (`ReceiptsStored =
{TRUE, FALSE}`) in `getlogs_receipts_silent`. Every other run stores all receipts.

For the block handlers the chain has up to four headers and four canonical
blocks. Logs are left out, because no property reads them. With `U64 = 8`,
`LONG_MAX` stands for 3. The ids run from 0 to 5, so numbers past the head
and numbers above `LONG_MAX` both occur. The negative run adds -2 and -1.

In the liveness run `Data = {0}`, which keeps the state space small.
Deletions and new scopes still happen there. Its bounds stop new
transactions once the queues are full, so gc must then make progress.

## 5. Fairness

- **Weak fairness on `Execute`, the commit actions and `EndTx`.** A
  transition runs synchronously inside one eosio action and has no
  suspension point.
- **Strong fairness on `gc` with a positive budget.** This is the operator's
  obligation in spec section 4.4. It is strong fairness because `gc` is
  disabled during every transaction.
- **No fairness on `BeginTx`.** Nothing forces users to send transactions.

## 6. Not modelled

- **Nonce, balance and code bytes.** Only equality of these values matters,
  so they are abstracted to `data` and the hash.
- **The chain stubs.** They abort.
- **The CPU limit that bounds `gc(max)`.** The ledger's CPU accounting and transaction rollback are not in this repository.
- **Cache coherence.** `addr2id` and `addr2code` are filled only by reads
  during execution. No engine write and no `gc` happens while they are in use,
  and the cache lifetime (dropped when the transition ends) is set by code
  outside `src/`. A coherence property would hold by construction, so none is
  checked. The caches stay in the state because the read operations fill them.
- **What `RangeLogsExact` does not reach.** The restart after an empty
  intersection in `get_topics_bitmap` needs three topic positions, and the
  runs allow two. Wildcard-only topic lists are excluded from it; they are
  `getlogs_wildcard_topics`. Block numbers stay at 3 or below, so the 32-bit
  range is covered only by `getlogs_u32_range`.
- **Reply formatting.** Hex strings, the `full_tx` flag and total difficulty are not modelled; every stored block is taken to have its total difficulty.
- **silkrpc core** (`get_current_block_number`, `get_block_number`, and the tag numbers). It is not in this repository. Its behaviour is modelled at the boundary, as described in its comments in `EthBlockApi`.
- **Parts of `eth_getLogs`.** The parameter-count check, which returns an error before any database access.
- **Generated gRPC code and the tests.** They are not modelled.
- **The driver itself.** It is modelled from the spec, since the
  interpreter is not in `src/`.

## 7. Plan

1. Done: `EvmState`, `EvmDriver` and `MC_EvmDriver`, with safety, gc budget
   and reclamation.
2. Done: the `EvmWorld` refinement (finds id reuse) and code-GC liveness
   (finds starvation).
3. Open: the repaired id allocation. The test harness reads a `config2`
   table with `next_account_id` (src/tests/basic_evm_tester.hpp:62), but the
   contract code that maintains it is not in `src/`. It can be modelled once
   that code is present. The refinement should then pass.
4. Done: `EthGetLogs`, which finds the wildcard-topics bug and the block-hash divergence after a reorganisation.
5. Done:
   - the two-key engine instance (orphaned storage, a budget that runs out inside a scope);
   - the 32-bit Roaring range in `eth_getLogs`.
6. Done:
   - missing receipts in `eth_getLogs`, which are dropped silently;
   - the block and node-status handlers, which find the negative block id.
7. Not feasible within the time limit: a three-address engine instance for
   `CodeRefCount`. The two-address instance already has
   about 1M states, and its two-key liveness run took 19 minutes.
