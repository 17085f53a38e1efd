# TLA+ models of boxd

This directory holds TLA+ models of the parts of the boxd sources under `src/` and TLC configurations that check them.
`PROJECT.json` lists every component, run, mutant, finding and hazard, and maps each definition to the source lines it translates.

## The system and its parts

| Part | Source | State | Operations | Concurrency |
|---|---|---|---|---|
| Script interpreter | `src/script/script.go` 467-878 | script bytes, pc, stack, scriptPubKeyStart | `Validate`, `evaluate`, `parseNextOp`, `execOp`, `AddOperand`, templates |
| Script builder | `src/script/script.go` 29-118 | the script being built and its first error | `NewBuilder`, `AddOp`, `AddData` / `addData`, `Script` | none | none: `Validate` runs in the caller's goroutine |
| Older interpreter | `src/script/script.go` 1-465 | the same | `Evaluate`, `parseNextOp`, `execOp` (error texts via `errors.New`) | none |
| Signature hash | `src/script/script.go` 788-838 (`verifySig`, `CalcTxHashForSig`) | the transaction's `Vin[i].ScriptSig` | `CalcTxHashForSig` rewrites every input's script and restores it | shared transaction if inputs are verified in parallel |
| Peer score | `src/p2p/pscore/dynamicpeerscore.go` | `lastUnix`, `punishment`, `achievement`, `connRecords`, `mtx` | `Award`, `Punish`, `Int`, `String`, `Disconnect`, `Reset` | any goroutine; mutex for the fields, none for `connRecords` |
| Circulation test | `src/integration_tests/circulation.go` 1-282 | shared channels `collAddrCh`, `cirInfoCh`, one quit channel per partition | `NewCirculation`, `Run`, `doTx`, `txRepeatTest` (`txOneToManyTest`, `txManyToOneTest` are never called here) | one goroutine per partition, plus the driver at the other end of the channels |
| Chain engine | `src/integration_tests/circulation.go` 283-1361 | key/value db (`BlockKey`, `BlockHashKey`, `TailKey`, `EternalKey`, utxo set, tx index), LRU caches `cache` and `heightToBlock`, `tail`, `eternal`, orphan pool | `processBlockMsg`, `ProcessBlock`, the sync reads `LocateForkPointAndFetchHeaders` and `FetchNBlockAfterSpecificHash` and `CalcRootHashForNBlocks`, `LoadTxByHash`, `tryAcceptBlock`, `tryConnectBlockToMainChain`, `reorganize`, `findFork`, `revertBlock`, `applyBlock`, `processOrphans`, `SetTailBlock`, `SetEternal`, `NewBlockChain` | one processing loop (`chainLock`); `SetEternal` from the consensus |
| Wallet messages | `src/script/script.go` 880-2295 | none | generated protobuf marshalling | none |

How the script parts interact: `Validate(scriptSig, scriptPubKey)` concatenates `scriptSig || OPCODESEPARATOR || scriptPubKey` and evaluates it.
If `scriptPubKey` is pay-to-script-hash, it then takes the first two pushes of `scriptSig` (signature, redeem script) and evaluates `push(sig) || OPCODESEPARATOR || redeem`.
`OP_CHECKSIG` verifies a signature over the script from the last executed `OPCODESEPARATOR` on.

Hard behaviours:
- the concatenation seam;
- the ignored parse errors of the P2SH step;
- the 4-byte length read as 16 bits;
- the two interpreters drifting apart;
- `CalcTxHashForSig` rewriting the shared transaction's ScriptSigs in place while other goroutines verify it;
- the Builder's small-integer opcodes and length limits (75/76, 255/256);
- for the chain engine:
  - reorganizations that attach side blocks without validation;
  - the height cache that keeps detached blocks, through which `LoadTxByHash` reads the wrong block;
  - `processOrphans` returning at the first rejected child;
  - `findFork` reading through an LRU that may have evicted a block;
  - a stop between `revertBlock` and `SetTailBlock`;
  - the sync server's uint32 range test, off by one at exactly `MaxBlocksPerSync` remaining blocks;
- for the circulation test:
  - every goroutine closing the shared `collAddrCh` on an interrupt;
  - the recover comparing against a panic text the runtime never produces;
  - `rand.Int63n(0)` for a small balance;
  - a one-address partition sending to itself;
- for the peer score:
  - a non-reentrant mutex re-locked by `String`;
  - `Disconnect` touching the list and the clock outside the mutex;
  - uint32 arithmetic on the score;
  - events in the same second being dropped.

## Modules

| Module | Models | State / actions |
|---|---|---|
| `Script` | opcodes, `AddOperand`, the `Builder` (`NewBuilder`, `AddOp`, `AddData`, `addData`, `BuilderScript`; `BuildPushes` chains them), `parseNextOp`, script numbers, templates | pure operators; the opcode values and script numbers come from files not under `src/` (marked `spec_modelled`) |
| `ScriptVM` | `evaluate` | variables `script, pc, sep, stack, status`. One action per branch of `execOp`: `PushData`, `PushNumber`, `OpDup`, `OpAddSub`, `OpEqual`, `OpHash160`, `OpCodeSeparator`, `OpCheckSig`, `BadOpcode`. Plus `ParseFail` (parse error), `Finish` (`validateTop`), and the history `checked` of verified signatures |
| `SigHash` | `verifySig`, `CalcTxHashForSig` | variables `vin` (the shared `tx.Vin[i].ScriptSig`), and per verifier `pc, i, old, sigHash, result`. Actions: `DecodeFails`, `IndexOutOfBound`, `Start`, `Save` (one iteration of the save-and-overwrite loop), `Hash` (`CalcTxHash` over the inputs as they are), `Restore` (one iteration of the restore loop; the last returns the signature check). The verifiers, their jobs and `CalcTxHash` are constants |
| `MCSigHash` | instance for TLC | two verifiers on a two-input transaction, for inputs 0 and 1; `MCTxHash` is injective on the drafts that occur |
| `ScriptEvaluateOld` | older `Evaluate` | `EvaluateOld(s, c)`, a RECURSIVE operator over the whole script, on a transaction whose hash cache is `c`: none, the whole transaction's hash (`WholeTxHash`), or a draft's. `TxHashOld` is the old `CalcTxHashForSig`: `tx.TxHash()` returns the cached hash when there is one, and caches the draft's otherwise |
| `ScriptValidate` | `Validate` | composes `ScriptVM` with `scriptSig, scriptPubKey, phase, result, redeem`. Actions: `Evaluate` (one loop step), `ReturnAfterFirst`, `StartRedeem` (the P2SH re-parse), `ReturnAfterRedeem` |
| `MCScriptValidate` | instance for TLC | Hash160 is a one-byte mixing function (`HashLen = 1`). A signature is `<<0x30, key, digest of the signed script>>`. Locking scripts: P2PKH to key 1, P2SH of `OP_2 OP_ADD OP_3 OP_EQUAL`, and that script bare. ScriptSigs: up to two pushes of interesting operands, every byte string of length ≤ 2 (≤ 3 for the PUSHDATA4 run) over an alphabet of push lengths and opcodes, and the scripts `BuildPushes` makes of one or two data items (`BuilderData`): the bytes 0, 1, 16, 17, 0x80, 0x81, the empty data, and data of 75, 76, 255 and 256 bytes |
| `PeerScore` | `DynamicPeerScore` | the struct fields, `mtx` (holder), the clock `now`, and per goroutine `pc`, `arg`, `t`, `snap`, `ret`. Steps: `Call`, then `Award` / `Punish` / `IntCall` (lock, body, unlock), `String` (lock, then wait in `Int`), `PushBackRead`, `PushBackWrite`, `Reset`; `Tick` moves the clock |
| `MCPeerScore` | instance for TLC | two goroutines, 3 calls. Award events 80 and 20, punish events 100 and 25. Clock readings 1, 2, 3, 1805 |
| `Chain` | the chain engine | state: `capacity, cache` (the LRU as a sequence, least recent first), `stored` (`BlockKey`s), `hidx` (`BlockHashKey`s), `heightToBlock`, `txIndex` (the tx index: height and position of each transaction), `tail, longest, eternal, orphans, children, applied` (utxo set), `events` (`TopicChainUpdate` messages), `dbTail, dbEternal`, and the locals of the running call `phase, cur, fromOrphans, detachQ, attachQ, accepted, ai, kids`. Actions: `ReceiveKnown`, `ReceiveOrphan` and `ReceiveBlock` (`ProcessBlock` up to `tryAcceptBlock`); `AcceptNoParent`, `AcceptExtend`, `AcceptExtendRejected`, `AcceptSide`, `AcceptReorg` and `ForkPanic` (`tryAcceptBlock`); `Detach`, `Attach`, `AttachFails` and `ReorgDone` (`reorganize`); `OrphanTry`, `OrphanNextBlock` and `OrphansDone` (`processOrphans`); `SetEternal`; `Restart` (`NewBlockChain` over the same db; when `loadFilters` finds a height without a loadable block (`LoadFiltersOk`), it fails and the node stays `down`). The sync reads are operators over the state: `LocateForkPointAndFetchHeaders`, `FetchNBlockAfterSpecificHash` and `CalcRootHashForNBlocks` (the blocks the Merkle root commits to), and `LoadTxByHash`, which reads `txIndex` and then the block through `LoadBlockByHeight`. `applyBlock` writes the entries of the block's transactions (`WriteTxIndex`) and `revertBlock` deletes them (`DelTxIndex`). They are built on `FetchHeights` (successive `LoadBlockByHeight` calls) and `FewerThan` (the uint32 range test) |
| `MCChain` | instance for TLC | genesis `G` and two branches: `A1 A2 A3` and `B2 B3 B4` forking at `A1`. The constant `Setups` is a set of records `[capacity, kind]`, one chosen in `Init` (variable `kind`): all valid with a cache of 6, all valid with a cache of 2 (eviction), `B2` with a bad coinbase, `B3` with a missing input, and `B2` bad with `B3` missing together, with caches of 1 and 2 (the `chain` run takes the all-valid setup and these two). `MCTxs` gives each block a coinbase and puts one transaction `x` in both `A2` and `B3`, so a reorganization moves it to another height and position |
| `LongestChain` | what the chain engine promises | variable `chain`; one action `Switch(b)`: the main chain becomes the chain of a strictly higher block. `Chain` instantiates it with `chain <- ChainTo(tail)`, and `LongestChainRule == LC!Spec` is checked as a property: the detailed engine implements it |
| `Circulation` | the circulation test | per goroutine `pc, addrIdx, toAddr, info`; the quit channels `quit`; `collClosed`, `cirClosed`; the driver `coll`; the recorded `errors`; `signals`. Actions: `Signal` (the interrupt, sent by `signal.Notify` to every quit channel), `QuitClose`, `NoQuit`, `Send`, `SendOnClosed`, `Recv`, `TxTest` (`doTx` and `txRepeatTest`), `CollectorStop` (the driver). `TxRepeatErrors` computes what `txRepeatTest` records, with unsigned subtraction of `Width` bits |
| `MCCirculation` | instance for TLC | addresses `a1 a2 a3`, `partLen` 2 (two goroutines, the second with one address), `times` 100, balances 0, 200 and 1000, one interrupt |

Abstractions:
- **Crypto:** the `CONSTANT` operators `Digest` and `SigValid` stand for Hash160 and the signature check. `SigValid` holds only for the exact script that was signed.
- **Floats:** the scores are kept in thousandths.
- **Decay:** `math.Exp(-dt·ln2/halflife)` is `DecayPerMille`, which uses whole halvings plus a cubic polynomial. Its error is below 2% (1.7% at half a half-life); no property depends on the exact value.
- **uint32 results:** a result is a pair of 16-bit halves, because TLC integers are 32-bit signed.
- **Block checks:** `tryConnectBlockToMainChain`'s script, input, fee and coinbase checks are the block's `kind`. `processBlockMsg`'s unmarshal, repeated-mint and timeout checks are taken to pass for the delivered blocks.
- **LRU caches:** `golang-lru` (not under `src/`, so `spec_modelled`) is a sequence. `Add` moves a key to the end and evicts the head, `Get` moves it to the end, `Contains` leaves the order alone. The capacity, 512 in the code, is scaled to the model's seven blocks: 6 (no eviction), or 1 and 2 (eviction).
- **Genesis:** `genesisBlockKey` is taken to be `BlockKey(GenesisHash)`, so the genesis is found by hash.
- **Circulation driver:** the code that creates `collAddrCh` and `cirInfoCh` is not under `src/`. It is modelled as a collector on unbuffered channels: it receives an address, answers with a `CirInfo` for that address, and closes `cirInfoCh` once `collAddrCh` is closed. With this driver doTx's `ok == false` branch cannot be taken, so it is not an action.
- **Balances:** `balanceFor`, `execTx` and `waitBalanceEnough` act on a chain taken to be correct: every transaction lands and costs `Fee`. The uint64 arithmetic is kept at `Width` = 16 bits, which is enough for the balances used, so the wrap below zero still happens.
- **`container/list` race:** the data race in `PushBack` is modelled as its lost-update outcome. Each of two concurrent pushes links after the tail it read.

## Runs

| Run | Expect | Shows |
|---|---|---|
| `validate` | pass | `Validate` returns (`ValidateReturns`, under weak fairness: `evaluate` is a loop in one goroutine). The owner's three spends are accepted (`HonestSpendAccepted`). A script built with `Builder.AddData` pushes exactly its data, the single byte 0 as the empty operand (`BuilderPushesData`). 4781 states |
| `validate_unauthorized_spend` | violation | `SpendsAuthorized`: a P2PKH output is spent only with its owner's signature and a P2SH output only by running the committed script. TLC's trace is the scriptSig `<<7>>`, which pushes the separator and the P2PKH script as data, so the output is spent without a signature. `MCScriptValidate_P2SHRunsCommittedScript.cfg` shows the second half failing on its own: `push(redeem)` alone spends the P2SH output with an empty redeem script |
| `sighash_concurrent` | violation | `VerifyLeavesTxUnchanged`: two goroutines verify inputs 0 and 1 of one transaction. Each `CalcTxHashForSig` saves the other's draft as "old" and writes it back, so after both return the transaction's ScriptSigs are not the originals (and a verifier may hash the other's draft) |
| `peerscore` | pass | `TypeOK` with `String` in play: all fields and returned scores have their types, and the returned score is a well-formed uint32. Its mutant is a signed conversion to uint32. 297891 states |
| `peerscore_string` | violation | `String` deadlocks on its own mutex |
| `chain` | pass | one run over several setups (`Setups`): all blocks valid with a cache of 6, and blocks that fail the checks with caches of 1 and 2; one restart anywhere. In every setup, every `ProcessBlock` returns, panics in `findFork`, or is cut short by a stop after which `NewBlockChain` fails in `loadFilters` (`ProcessBlockReturns`), and the engine implements `LongestChain` (`LongestChainRule`). When every block is valid, nothing is evicted and no restart happened (`FaultFree`): the chain-update messages replay to the main chain (`FaultFreeEventsFollowChain`), the db holds exactly the main chain (`FaultFreeMainChainPersisted`), no orphan waits on a stored parent (`FaultFreeOrphansResolved`), and every transaction's index entry names its main-chain block and position, or nothing (`FaultFreeTxIndexMatchesMainChain`). 68132 states |
| `chain_tx_lookup` | violation | `TxLookupServesMainChain`: after a reorganization `heightToBlock` still holds the detached block at a height, so `LoadTxByHash` for a main-chain transaction reads the wrong block and fails with a hash mismatch, or indexes past its transactions (a panic) |
| `chain_reorg_unvalidated` | violation | a side block with an overpaying coinbase joins the main chain through `reorganize` |
| `circulation` | pass | two goroutines in the full scope with one interrupt, competing for the one collector. `EveryAddressCirculates`: until the interrupt, each goroutine keeps testing from every address of its partition in turn; it needs strong fairness (under weak fairness one goroutine can starve) and fails if `addrIdx = toIdx` is left out. `RunReturns`: `Run` returns after the interrupt. 786 states |
| `circulation_quit_panic` | violation | the interrupt reaches both goroutines; the second `close(collAddrCh)` panics with "close of closed channel", which the recover does not match, so the test records an error |
| `chain_orphan_stuck` | violation | `processOrphans` returns at the rejected `B2` and leaves its valid sibling `A2` in the pool for good |
| `chain_sync_headers` | violation | with tail `A2` and `MaxBlocksPerSync = 2`, a locator naming `A1` leaves exactly `MaxBlocksPerSync` blocks to the tail; `LocateForkPointAndFetchHeaders` takes its second branch, asks for height 3 and returns an error instead of the header of `A2` (`SyncServesMainChain`). With a larger `MaxBlocksPerSync` the same property fails only after a reorganization, through the stale height index |

Each property of a passing run has a mutant in `PROJECT.json`, a plausible bug in the mapped code that TLC must catch:
- a separator that records the wrong position;
- `addData` choosing the small-integer opcode one too high;
- a parser that does not advance;
- a signed conversion to uint32;
- `Reset` without `Unlock`;
- `acceptedBlocks` started empty, or an accepted orphan not appended;
- `StoreBlockToDb` without the height key;
- the attach list applied tip first;
- a side chain of equal length already reorganizing;
- a select that takes its default without looking at the quit channel, a send that leaves `addrIdx` where it was;
- `processOrphans` not advancing;
- `revertBlock` leaving the tx index entries of the detached block.

More configurations on disk show further disagreements. Each checks one property and TLC finds it violated, but they are not in the run list:
- `MCScriptValidate_PushData4ReadsFourByteLength.cfg`: PUSHDATA4 reads 16 bits of its length.
- `MCPeerScore_ScoreInRange.cfg`, `_EventsCounted`, `_ResetClearsScores`, `_LastUnixMonotonic`, `_RecordsComplete`: uint32 underflow, a dropped same-second event, `Reset` keeping the punishment, `lastUnix` moving backwards, a lost `connRecords` entry.
- `MCChain_ReorgPartial.cfg`: a failed `applyBlock` in `reorganize` leaves the chain half switched, with the tail unchanged.
- `MCChain_EvictPanic.cfg`: with a cache of 2, `findFork` reads an evicted block and dereferences nil.
- `MCChain_Eternal.cfg`: `reorganize` detaches the block `SetEternal` finalized.
- `MCCirculation_TxRepeatTestSound.cfg`: a balance of 200 makes `base` 0 and `rand.Int63n(0)` panics. With `Balances = {1000}` the one-address partition sends to itself, the wait times out and `toGap` wraps.
- `MCChain_HeightIndex.cfg`: after a two-block reorganization `LoadBlockByHeight` returns the detached block (the cause of `chain_tx_lookup`).
- `MCScriptValidate_P2PKHNeedsOwnerSignature.cfg`, `_P2SHRunsCommittedScript.cfg`: the two halves of `SpendsAuthorized`, one at a time.
- `MCScriptValidate_AgreesWithOldEvaluate.cfg`: the older `verifySig` / `CalcTxHashForSig` (lines 417-465) hash with `tx.TxHash()`, which returns the hash cached in the transaction. On a transaction whose hash was computed before the script runs, the old `Evaluate` checks the owner's signature against the whole transaction's hash and rejects the P2PKH spend the newer `evaluate` accepts. The spec's signature-hash rule asks for a fresh hash.
- `MCChain_CrashMidReorg.cfg`: a stop after the first `revertBlock` restarts with a `TailKey` whose block was deleted.

## Bounds and fairness

- **Script bounds:** the script bounds reach every opcode branch and every parse error. This includes PUSHDATA1 and PUSHDATA4 with missing bytes, and the seam. The Builder data sit on both sides of every limit `addData` tests, except the PUSHDATA4 one (65536 bytes); the PUSHDATA4 decoding is covered by its own configuration.
- **Test hash:** `MCDigest` sums the weighted bytes by halving the range, which keeps TLC's recursion shallow on scripts of 500 bytes.
- **Script fairness:** weak fairness on `Next` only, since `Validate` is sequential.
- **Peer score bounds:**
  - Two goroutines and three calls are enough for every two-party race: lock contention, a stale `t`, concurrent `PushBack`.
  - Three consecutive seconds give dt = 0, 1 and 2.
  - The jump to 1805 exceeds `PunishLifetime` (1800), which exercises `verifyLifeTime`.
- **Peer score fairness:** weak fairness per goroutine step. The Go scheduler runs every runnable goroutine, and with bounded calls a free mutex is eventually taken. The callers and the clock need no fairness.
- **Chain bounds:** seven blocks in two branches give extensions, side blocks, reorganizations of one and two blocks, orphans whose parent arrives later, and a fork below the eternal block. `MaxMsgs = 7` delivers every block once, with room for duplicates. `MaxRestarts = 1` in `chain`: one restart anywhere in any setup; the properties that need a clean db are stated under `FaultFree`, since a restart mid-reorganization breaks them (`MCChain_CrashMidReorg.cfg`). `MaxBlocksPerSync` is 1024 in the code and 2 in the model: the off-by-one sits at exactly that many remaining blocks, whatever the value.
- **Chain fairness:** weak fairness on `Process`, the steps of a running `ProcessBlock`. The processing loop runs each call to its end under `chainLock`. Message delivery, `SetEternal` and restarts need no fairness.
- **Signature hash bounds and fairness:** two verifiers and two inputs are the least for one verifier to save the other's draft. Weak fairness on `Next`: both goroutines run to their return.
- **Circulation bounds:** three addresses with `partLen` 2 give two goroutines, the least for a double close, and a one-address partition. One interrupt is enough: every quit channel then holds it.
- **Circulation fairness:** strong fairness per goroutine step and weak fairness on the driver's stop. The Go scheduler runs every runnable goroutine. A goroutine blocked sending on the unbuffered `collAddrCh` waits in the channel's FIFO queue of senders, so it gets the collector when its turn comes, even while the other goroutine keeps sending. Strong fairness is weaker than that queue. The interrupt needs none, and `RunReturns` assumes one has arrived.
- **Deadlock checking:** deadlock is not checked (`CHECK_DEADLOCK FALSE`), because `Validate` returns and the callers stop after their bounded calls. A goroutine stuck in `String` is shown by `CallsReturn` in `peerscore_string`. The chain stops when no more messages arrive, and unfinished calls are caught by `ProcessBlockReturns`. After `Run` returns the circulation driver may wait for good, and a stuck `Run` is caught by `RunReturns`.

## Not modelled (yet)

Planned, most important first:
1. The older `CalcTxHashForSig`'s in-place rewrite under parallel verification (its hash cache is modelled in `ScriptEvaluateOld`).
2. In the chain engine:
   - `verifyRepeatedMint` and `repeatedMintCache`;
   - the sync triggers;
   - the bloom filters (`loadFilters` is modelled only by whether every height loads; the utxo and filter loading are taken to succeed);
   - `util.BuildMerkleRoot` itself (not under `src/`), and `CalcRootHashForNBlocks` with `num = 0`, which depends on it;
   - `SetEternal` racing `ProcessBlock` (it takes no lock; the model runs it between calls).

Not modelled at all:
- the generated wallet protobuf code;
- `message.proto`;
- the event-bus topic strings;
- the token tests, whose code is not under `src/`;
- `txOneToManyTest` and `txManyToOneTest`, which nothing in this file calls;
- the circulation test's account setup and teardown (key files);
- the basic scope of the circulation test (`Basic = TRUE`): whether that driver ranges over `collAddrCh` is decided outside `src/`.
