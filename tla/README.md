# ironsign, modelled in TLA+

ironsign signs with threshold ECDSA (CGGMP24, n of n) and keeps party 0 on an
air-gapped machine. All cryptographic interaction happens ahead of time: a
presignature set is generated for all parties at once, and to sign, each party
spends its share of one set without talking to the others. The safety of the
scheme rests on one rule: **a presignature is used for one message at most**. The
programs keep that rule by moving files: pools are deleted when they are loaded,
queues are popped in step, counters name the outputs. This directory models those
programs, checks them with TLC and proves with TLAPS what they keep true.

## 1. The system

| part | source | state it keeps | operations |
|---|---|---|---|
| initialization | `src/bin/initialization.rs` | key shares and batch in memory; `key_shares/`, `public_key/`, `node_<i>/` on disk | load or regenerate the shares, publish the key, make and export a batch at the start and at every ENTER |
| offline node (party 0) | `src/bin/offline_node.rs` | presignature and ppd queue, `sig_counter` | load pools (deleting them), sign a payload file, export partial and ppd, delete the payload, reload |
| coordinator | `src/bin/coord_runtime.rs`, `main` | `round`, `remaining_presigs`, the partials of the round | initialize all nodes with retries, read a payload, run the online pass, load the offline output, combine, export |
| online node tasks (parties 1..n-1) | same file, `spawn_online_node` | `Option` of a queue | `Init`: load and delete the pool; `Sign`: pop and issue a partial |
| queue | `src/fifo_queue.rs` | a `VecDeque` | `push`, `pop_next`, `len`, `is_empty` |
| ppd serializer | `src/ppd_serializer.rs` | none | conversion |
| Bitcoin auxiliary | `src/bin/btc_auxiliary.rs` | one transaction | fund, write the sighash as payload, read a signature, broadcast, confirm |
| transports and demos | `examples/in_memory.rs`, `minimal_delivery.rs` | a router and an inbox per party for each protocol run; `in_memory` also a presignature pool | send, receive; `main` runs one protocol after the other and collects the results of the tasks |
| party tasks | `examples/coord_party_tasks.rs` | command mailbox, aux info and key share of each task; two networks that live as long as the tasks | `RunAuxInfo`, `RunKeygen`, `GetSharedPublicKeyBytes`, `Shutdown`; broadcasts that wait for all replies |
| simulation example | `examples/sim_example.rs` | none | calls of the library's simulator |

How they meet: files that an operator copies (pool directories, payloads, offline
outputs, signatures); within the coordinator, an unbounded mpsc channel per node
and a oneshot per command. The main program never awaits two replies at a time.

What is hard here: two places keep the same count (`remaining_presigs` and the
queues); several operations delete their input before they can still fail; a
failed pass over the nodes leaves some of them changed; any program may be stopped
between two file operations; the programs match their rounds by file name only;
the size of a pool stands for its identity. `PROJECT.json` lists each of these
hazards at its line with the properties that cover it.

What makes each part correct:
- initialization: the shares on disk and in memory are of one key; started with one `n` throughout, it publishes a key
  only when all shares of it are stored, and keeps them (with another `n` it may not, see section 3); what it hands out fits together and is never handed out again;
- offline node: no presignature twice, pools aligned, outputs complete, no request lost;
- coordinator and nodes: no presignature twice, count and pools in step, passes
  all or nothing, no stale pool in use, no signature overwritten within a session, a retry with all pools supplied ends;
- auxiliary: the shared address is spent only by a transaction all parties signed;
- transports: nobody sends to an inbox that was dropped, parties stay within one round of
  each other, the networks of the party tasks are empty between the phases, every demo ends;
- together: the promise of `OneTimeSigning`, the two machines in step over
  reloads, every payment confirmed.

## 2. Modules

| module | models |
|---|---|
| `FifoQueue` | the queue, as operators on sequences |
| `Presignatures` | the data: batches, the pool file of a batch, partial signatures, when they combine |
| `CoordRuntime` | coordinator, online node tasks, their files; operator and offline node as environment |
| `OfflineNode` | the offline node, one action per file operation; its operator |
| `Initialization` | the initialization, one action per file operation; its operator |
| `OneTimeSigning` | the abstract specification: what the signer promises |
| `BtcAuxiliary` | one run of the Bitcoin auxiliary after another; the chain as external state |
| `IronSign` | coordinator, offline node and auxiliary on two machines, with the operator between them; either machine may be switched off |
| `OneDirectory` | the same programs and the writes of initialization in one directory |
| `Execution` | one run of a protocol by tasks over an in-memory network of the examples |
| `Demos` | `in_memory` and `minimal_delivery`: protocols one after the other, and the pool |
| `PartyTasks` | `coord_party_tasks`: command tasks over two networks, two instances of `Execution` |
| `MC...` | instances for TLC (batch sizes, party counts, symmetry sets) |
| `CoordRuntime_proofs`, `OfflineNode_proofs`, `Initialization_proofs`, `IronSign_proofs`, `OneDirectory_proofs`, `Demos_proofs`, `PartyTasks_proofs` | theorems about the module of that name |
| `Execution_proofs` | lemmas about one run of a protocol, which the proofs of the examples cite |

**Data.** A presignature set is `[batch, index]`; the presignature of a party and the
ppd of the same set carry the same name, and so does a pool file (the batch it
holds). A partial signature is the set it spends and the payload it signs.
`combine` succeeds when the partials of all `n` parties are there, for the message and for the set of
the ppd. The message is a function of the payload (hashed, or taken as is with
`--prehashed`), so the payload stands for it. `PoolSize[b]` is the argument `k`
of a run and may be 0 and differ between batches.

**`CoordRuntime`.** `pc` names the place where `main` (or
`init_all_nodes_with_retry`) waits: before and at an await of a node, in the ten
seconds' sleep, at one of the three prompts. A step runs from one wait to the next. A
step of a node handles one command, which is atomic in the code as well: no await
inside. `mailbox[i]` is the channel, `reply` the oneshot. `SendInit`/`RecvInit` and
`SendSign`/`RecvSign` are one iteration of the two loops over the handles: the await returns when the node
has handled its command (`CommandHandled`), and anything but the expected answer, a dropped oneshot
included, is a failure of that node. The
tests after the loops are `InitPassEnds` and `SignPassEnds`. The
environment supplies pool files in any order and any mixture of batches, lets foreign
files appear, and delivers offline outputs under any round, for any payload, with
any set node 0 has not used: it is wider than `OfflineNode`, from which it takes
only that party 0 never uses a set twice. A ppd (`DeliverPpd`) may be of any set, since
the crash of an offline node between its two writes pairs a new partial with an
older ppd; it is brought while a partial of the round is there.
`Restart` is a crash of the process between two steps. One state is left out:
`load_offline_partial_and_ppd` removes two files, and a crash between them leaves
a ppd without its partial; the next session can only overwrite it.

**`OfflineNode`.** A sequential program whose interesting points are its file
operations: `read_pools`, the two removals, `remove_dir`, then per signature
the pop (in memory), two writes and a deletion. `Crash` may come between any two;
`LoadPanics` are the panics of `load_pools`; the one
for a payload that is there but cannot be read is `Crash` at the prompt. A write is complete or not begun. With `SingleDir` the outputs
of the node are in the directory its pools are loaded from.

**`Initialization`.** The four phases of `main`. `remove_dir_all` is one step per
share, in any order; a crash may come between any two steps and, in the writes,
leave the file absent or `Torn` (unparsable). An absent `key_shares` folder is one
without files: the code treats both alike. The presigning protocol is one step,
which fails when the loaded shares are not all the shares of one key; with `k = 0` (`presigs`) it does not run,
and such a start reaches the prompt.

**`BtcAuxiliary`.** One action per interaction: fund address B, write the payload under its
fixed name, read the named signature, broadcast, confirm. Every failure is a panic and
ends the run: a signature that is missing or refused, and any failure of the Bitcoin node or the disk between the
funding and the payload or after the broadcast (`RunFails`). The Bitcoin node is external and accepts exactly a signature that is valid for
the sighash.

**`IronSign`.** `C`, `O` and `B` are instances of the three program modules. Of these it uses the
actions of the programs; what their environment may do freely there, the operator does
here, following "Running the full demo" (`src/README.md:197`): all pool files of a batch
are in place before a program is started or ENTER is pressed for a reload; both
machines get the batches in the same order (`Deliveries`); each payload is entered once
at the coordinator and copied once to the offline node, in either order, also
too early or too late; the two files of an output are taken together and arrive one after
the other (`carried`). There is one operator, who lets what he started run to its next prompt
before he does the next thing (`AtPrompts`); the machines share nothing but what he carries, so only
orders of independent steps are left out.
`Unreliable` says what may be switched off in a run: `"none"`, and then the operator is careful
(he names the signature of the payment's round, once it is there), exports succeed and the Bitcoin node answers; or one of the two machines, at
any point (`CrashCoordinator`, `CrashOffline`), after which the payload is brought there
again, exports may fail, a run of the auxiliary may fail, and any signature file may be named at any time. A new session
of a program counts its rounds from 0 again and overwrites files of the old one.
`initialization` is represented by the batches it hands out; that these are complete, disjoint and
handed out once is `OutputAgreesAtPrompt` and `PoolsNeverReissued` of its own module.
The composition closes the argument about `CoordRuntime`, whose environment is an
assumption: `CoordinatorEnvironmentHolds` is `C!Spec`, so every step of the composed system is
a step the coordinator's module allows, and what is checked and proved there holds here, crashes
of the offline node included. The coordinator's bound on delivered outputs is therefore that of all
sessions of the offline node, `MaxSessions * MaxOutputs`, and a session makes at most `MaxRound + 1` outputs
(`IronSignAssumption`), so that every output counter is the name of a round.

**`OneDirectory`.** The note at `src/README.md:220` puts all programs into one directory. The
instances share their file variables: `node_0` is where initialization writes two pools, where the
offline node reads and removes them and leaves its outputs, and what the coordinator removes after a round; to
`load_offline_partial_and_ppd` a pool file is a foreign file (`Strays`). Programs run side by side,
file operation by file operation, and the client writes the one payload that both signers read and the
offline node deletes. It works out under three rules, written as guards: batches are
regenerated only when both machines ask for it; the coordinator gets a payload first; the next
payment begins when the offline node is done with the last. What happens without the first is finding 2;
without the third the offline node could delete a payload it has not signed.

**`Execution`.** The library's protocols are rounds: a party sends its messages, then reads until it has
one of the round from everybody else, keeping what is early, ignoring its own and what is late, failing on a duplicate. The code of the
examples is around it: the fan-out in index order, one inbox at a time (`Deliver`; tasks run in
parallel threads, so others act between two sends), the echo of a broadcast to its sender in `minimal_delivery`
(`echo`), receivers that may be gone (`open`). The rounds are parameters (`Plan`): the library's
number of rounds is larger, but parties are never more than a round apart, so two and three rounds
with both kinds of destination show what a longer run repeats.

**`Demos`.** One state machine for both programs, chosen at `Init`, because they have the same tasks and differ in three places:
a lost receiver is ignored (`let _ =`) or a panic (`SendPanics`), a broadcast is echoed or not, results
are awaited together (`JoinAll`, the first panic ends main) or in order (`CollectNext`). Each phase has
fresh tasks and a fresh network, and a task that ends drops its inbox. `ProtocolFails` is an error of the library, which every task unwraps.

**`PartyTasks`.** `SendCommand` is one element of the broadcast functions' map over the handles, `Joined` what follows
`try_join_all`. A task takes a command when it is done with the last, and all its protocol
messages go over networks that are created once.

## 3. Runs

`PROJECT.json` gives, for each property of each passing run, a mutant of the
code, which TLC finds to violate it.

| run | instance | states | question |
|---|---|---|---|
| `coord_mixed_batches` | N=3, two batches of 2, 2 rounds, 1 crash | 216,721 | mixtures of batches that the size test cannot see; single use; no stale pool in use; refinement of `OneTimeSigning` |
| `coord_liveness` | N=3, batches of 1 and 0, foreign files, 2 rounds, fairness | 246,976 | types, lockstep, signing passes all or nothing when removals fail and pools are empty; the retry loop ends |
| `coord_failed_load` | two batches of 1, 2 rounds | violated | see findings |
| `offline_crashes` | batches of 2 and 1, 2 sessions, 3 outputs, foreign files | 22,312 | crashes between any two file operations; what holds until the first of them |
| `offline_one_dir` | two batches of 2 in one directory | violated | see findings |
| `init_resize` | n in {2, 3}, k in {0, 1}, 3 keys, 3 batches, 2 crashes | 597,720 | shares never mix; with one n a published key keeps its shares, a folder is given up on resize only; files agree at the prompt; no pool twice |
| `system` | N=3, two batches of 2, 4 payments | 16,187 | the machines stay in step over a reload; every payment is confirmed |
| `system_crashes` | N=3, batches of 1 and 2, 2 payments, one crash of either machine, any signature named | 949,802 | no session overwrites its own signatures; the coordinator's environment assumption; the promise, with the real offline node |
| `system_one_dir` | N=3, two batches of 2, 4 payments | 9,321 | the single directory works out under the operator's three rules |
| `demos` | 3 parties, 2 rounds, 2 presignatures, 2 failures | 413,148 | dropped inboxes, results awaited together or in order, the pool |
| `party_tasks` | 3 parties, 3 rounds each, 2 failures | 26,248 | phases do not overlap, networks are empty between them, main ends |

Several results need their condition. Resizing: a crash
while `key_shares` is written or deleted can leave what looks like a complete folder
for another `n`. A start with 3 that is stopped after two shares, followed by a start with 2, publishes a key of
three whose last share was never written; the presigning then panics (`PresignPanics`). `PublishedKeySpendable` is
therefore about a program whose `n` does not change; shares of two keys never mix even so
(`SharesOfOneKey`). `DeletedPayloadWasTaken` says that the coordinator has read the payload, not that its nodes have
signed it: the offline node may be faster than the online pass. `OutputsComeInPairs` and
`OutputsNeverOverwritten` hold until the offline node's first crash: after it the counter is 0 again.
`NoRoundDiscarded` holds only for the careful
operator: one who names a missing or older signature ends the auxiliary's run, the next run writes
another payload to the same fixed name, and the coordinator and the offline node may then sign
different payloads; `combine` fails and the round is discarded. A crash discards rounds
as well. Funds move only when all parties have signed in all these cases (theorem `FundsMove`). `DemoEnds` and `MainEnds` except
protocol failures where the code does: `collect_ordered` and the replies of `coord_party_tasks` have no
timeout, and a party that waits for one that failed waits forever.

**Bounds, and why they suffice.** Two online nodes are the least number for which a pass can
half fail, sizes can differ and batches can mix. Two batches are the least for a
stale pool or a mixture. Batches of 2 let a pool be used in part; 2 and 1 differ in
size; 0 is the size that leads past the reload prompt. Two rounds let an output be of the wrong round. One crash
gives two sessions over the same files. Two payloads let parties sign different messages. Four payments over two batches
of 2 use up both and reload both machines; with batches of 1 and 2 a reload comes after the first payment,
and a crash may fall before, in or after it. Three parties let two of them be a round apart from the third.
The bounds (`MaxRound`, `MaxRestarts`, `MaxOutputs`, `MaxSessions`, `MaxKeys`,
`MaxRuns`, `MaxCrashes`, `MaxFailures`) appear only as guards of the actions they count. The largest
instance takes about two minutes.
Symmetry over payloads, and over batches when they have the same size, is used
in runs without liveness only. Deadlock is not checked: at a bound, or at a prompt
nobody answers, the programs do stop.

**Fairness.** `FairSpec` of `CoordRuntime` assumes weak fairness of the coordinator's
steps between prompts and of each node task. Tokio runs every ready task and a
sleep ends, so the code justifies it. Nothing is assumed of the operator, the offline node
or crashes, so no property says that a signature is eventually made.
`Spec` of `IronSign`
and of `OneDirectory` adds that the operator always does some next thing there is to do, which is the premise of
`PaymentsConfirm`; which one is open, and fairness of each single action of the operator is not assumed.
`Demos` and `PartyTasks` assume weak fairness of `main` and of each task, again Tokio's; protocol failures are not fair.
`RetryRecovers` is checked without crashes: a crash between the loads of two nodes loses a
pool for good, and then the remaining files can be of different sizes.

**Findings.** The two runs that TLC finds violated:
1. *A failed load deletes what it asks to be fixed* (`coord_failed_load`).
   `load_offline_partial_and_ppd` deletes both files of the round before it finds
   that `node_0` holds anything else; the operator is told to fix the files and retry.
2. *One directory for everything* (`offline_one_dir`). A reload of the offline node while
   outputs are waiting in `node_0` deletes the new pools and panics at `remove_dir`.

## 4. Proofs

All theorems hold for every value of the constants that the named assumptions allow: any number
of parties, any set of batches and sizes (0 and unequal ones included), any payloads, party counts and
protocol rounds, and any bounds. The assumptions are those of the modules
(`CoordAssumption`, `OfflineAssumption`, `InitializationAssumption`, ...), which TLC evaluates
in every run: that numbers are naturals, that at least two parties take part, that `PoolSize` gives every
batch a size, that the batches of `Deliveries` are different, and that the model value `None` is none
of the values it is told apart from: batches and payloads (`BatchAssumption`), sets and partial
signatures (`NoneAssumption`), keys, rounds and what the operator carries (`AbsentAssumption` of three modules).
Each inductive invariant was checked with TLC on the instances above before it was proved.
Every safety property of the passing runs, invariant or action property, is proved.
`PublishedKeySpendable` states its premise ("`n` is always `m`") as a temporal formula, and is proved as it stands.

| module | theorem | establishes |
|---|---|---|
| `CoordRuntime_proofs` | `IInvHolds` | `IInv`, the inductive invariant |
| | `TypeCorrect`, `Lockstep`, `AllOrNothing` | `TypeOK`, `PoolsInLockstep`, `SignPassAllOrNothing` |
| | `SingleUse` | `NeverSignedAgain` |
| | `SameSet` | `SameBatchSameSet` |
| | `CompleteBatches` | `NoStalePoolSurvivesInit` (action property) |
| | `SessionFiles` | `SessionKeepsSignatures` |
| | `KeepsPromise` | `ImplementsOneTimeSigning` (refinement) |
| `OfflineNode_proofs` | `IInvHolds`, `TypeCorrect` | `IInv`, `TypeOK` |
| | `Aligned`, `SingleUse` | `PoolsAligned`, `NeverSignedAgain` |
| | `CompleteOutputs`, `NeverOverwritten` | `OutputsComeInPairs`, `OutputsNeverOverwritten` (action property) |
| | `PayloadKept` | `PayloadKeptUntilExported` (action property) |
| | `UsedOnce` | `IssuedInv`: one partial signature per set, at most `MaxOutputs` per session |
| `Initialization_proofs` | `IInvHolds`, `TypeCorrect` | `IInv`, `TypeOK` |
| | `OneKey`, `OutputAgrees` | `SharesOfOneKey`, `OutputAgreesAtPrompt` |
| | `PublishedSpendable` | `PublishedKeySpendable`: with one `n` throughout |
| | `KeyKept`, `NeverReissued` | `KeyDiscardedOnlyOnResize`, `PoolsNeverReissued` (action properties) |
| `IronSign_proofs` | `IInvHolds` | `IInv`, the invariants of the programs and of what is carried between them |
| | `EnvironmentHolds` | `CoordinatorEnvironmentHolds` (refinement) |
| | `KeepsPromise` | `SystemKeepsPromise` (refinement) |
| | `FundsMove`, `SessionFiles` | `FundsMoveOnlyWhenSigned`, `SignatureFilesKept` |
| | `NoRoundLost` | `NoRoundDiscarded` |
| `OneDirectory_proofs` | `IInvHolds` | `IInv`, payload file, output counter and rounds of the single directory |
| | `DeletesWhatWasTaken` | `DeletedPayloadWasTaken` (action property) |
| `Demos_proofs` | `IInvHolds`, `TypeCorrect` | `IInv`, `TypeOK` |
| | `NoDroppedInbox` | `NoSendToDroppedInbox` |
| | `KeepsPromise` | `PoolKeepsPromise` (refinement) |
| `PartyTasks_proofs` | `IInvHolds`, `TypeCorrect` | `IInv`, `TypeOK` |
| | `SeparatePhases`, `Drained`, `SmallInboxes` | `PhasesNeverOverlap`, `NetworksDrained`, `InboxesStaySmall` |

**The coordinator.** *Lockstep* is not inductive: it speaks of prompts, and the facts it needs are
made in the middle of a pass. `IInv` says, for every control point, which command is in which
mailbox and whether a reply is on its way (at most one of the two, and only for the node under
the cursor); that `poolSizes` holds the sizes of the pools of the nodes already asked, as long as
none has failed; and that in a signing pass the nodes before the cursor hold one presignature less
than `remaining` and the others exactly `remaining`. A pass over pools in lockstep then fails for
all nodes (when the count is 0) or for none, which is `SignPassAllOrNothing`.
*Single use* needs another invariant, `FreshInv`, for each online node: its pool in memory is of one
batch, in increasing order of index; that batch was supplied to it and is no longer the file in its directory;
a file in its directory was supplied; and whatever the node signed is of a batch that left the disk the same way, with a
smaller index than anything left in the pool of that batch. Single use itself does
not say that a batch, once loaded, never comes back as a file.
*Same set* follows from `SameSetInv`: a pool in lockstep is the rest of its batch after as many pops as the
count says, so equal batches at equal lengths have equal heads.
*The promise* needs `PromiseInv`: every delivered or collected partial signature is in `issued` of its
party, no published signature used its set, and the partials of a complete pass come from all nodes in order.
`CombineSucceeds` is then a `Publish`, `NodeSigns` and `DeliverPartial` an `Issue`, and everything else a stutter.

**The offline node.** Single use has one exception that the invariant must name: between reading
the pools and removing the first file, a batch is on disk and in memory, and nothing has been signed with it
(`PoolFresh`). `JobInv` ties the partial signature in memory to the payload file and to the
files written so far; `PayloadKept` is its consequence for `DeletePayload`. The two results
about outputs are about the first session (`OutputInv`: counters after the current one have no files).

**Initialization.** `FolderInv` says that the files of `key_shares` are all of one key, possibly
with gaps and torn files, at every point of loading, writing and removing; `OutputInv` how far the
publication and the export of the current batch are; `ExportInv` that a run writes its batch to each directory once.
`PublishedSpendable` adds `OnePartyCount`, the invariant of a behaviour whose `n` is always the same: every key is of that `n`,
and from the publication on the folder is complete. A folder that loads is then complete for its key (`LoadedIntact`), so it is
never discarded.

**The system.** `IronSign_proofs` takes the proofs of the two programs as instances (`CP`, `OP`), having proved their
assumptions from its own (`Assumptions`). `TransportInv` says that a partial signature
the offline node has made is in one place: about to be written, in the output directory, carried,
or with the coordinator. With `IssuedInv` of the offline node (no set twice, and not more than its
sessions allow) this makes `BringPartial` a `DeliverPartial` of the coordinator's module, which is the heart of
`EnvironmentHolds`; from there every theorem about `CoordRuntime` holds in the system. For the promise
the arrival of a partial is a stutter, since party 0 has signed before. `FundsMove` adds `FundsInv`:
what the client has read or broadcast is in `published`, hence signed by all; that the file it names is
the latest of that name needs the existence of a latest session, a fact about well-founded orders. The statement of
`FundsMove`, `FundsMoveOnlyWhenSigned`, is not in a run: given the promise it follows from the guards of `Broadcast`.

*No round lost* is about the careful operator, who crashes nothing: `combine` never finds partial signatures
of different sets or payloads, although nothing in the files names a batch. Its invariant `CarefulInv` is inductive only as a
whole, and only while `careful` holds.
- `OnlineInv` and `OfflineInv`: each machine has consumed the batches of `Deliveries` in order.
  After the first `j` of them, with `left` sets of the `j`-th in its pool, exactly the sets `Used(j, left)` are used
  and the pool is `Rest(j, left)`. In the middle of a reload some nodes hold the old (empty) pool and some the new one; in the middle of
  a signing pass those before the cursor hold one set less. The count of used sets (`Counted`) determines `j`
  and `left` but for empty batches, which the lemma `Earlier` takes care of: what is used is a prefix of one fixed order.
- `PlacesInv`: the number of sets used before a set is its *place* (`At`); every output of the offline node, on its way
  or delivered, has its place for a counter, and every online partial of the pass is at the place of the round. `SamePlace`: two sets at one place are equal. It
  rests on the cardinality of `Used`, and replaces the identity that the file formats do not carry.
- `PaymentInv`: the payment is at one of the stages `Settled`, `ToSign`, `InOutput`, `OnTheWay`, `Arrived`, which fix
  where its payload and its output are, and whether the counter is the round or one more.

Both partials then have the counter of the round for a place, so they are of one set, and the payload of the one payment in progress,
so they combine (`CarefulCombines`). That the round is over only by a signature, never by a discarded round, is needed
to keep the counters in step: each step assumes `~C!CombineFails`, which the invariant before it gives.

**The single directory.** The offline node deletes the file that the client wrote and the coordinator reads. `SigningInv` and
`OutputInv` say what the theorem needs of the state before the deletion. `SigningInv`: the client has not begun another payment, and the file, the partial signature
and what was entered at the coordinator are the same. `OutputInv`: the output counter is exactly the number of the payment, or one more once its payload is deleted, and the files of that number are what the offline node has in memory, until the round is over.
`PoolInv`: while a payload can be signed no pool file waits in `node_0`, so a load of the output cannot delete it and fail. `SigningInv` is kept because the client waits while a payload is entered and
not signed offline (`WaitInv`), and that needs that no signature of this round can be there yet. A round ends only when
the output of its number is there, and there is none above the counter, which is never ahead of the
round (`CountInv`). Thus the proof relates the three programs' counters, though the statement is about
one file. A panic of the offline node ends its only session, and nothing is deleted from then on (`Alive`).

**The examples.** `Execution_proofs` is about one run of a protocol over one network: a party
receives nothing before it was sent and nothing twice, a party in a round has everybody's messages of
the rounds before, so nobody is more than one round ahead. `Demos` and `PartyTasks` instantiate it for their
networks. A finished party has everything, so nobody sends to it any more (`NoDroppedInbox`); an inbox holds at
most the messages of two rounds of a sender (`SmallInboxes`); and a network whose parties are all done is empty (`Drained`).

**Only model-checked.** All liveness (`RetryRecovers`,
`PaymentsConfirm` of both compositions, `DemoEnds`, `MainEnds`): fairness and ENABLED are beyond the prover. In the single directory
this leaves to TLC also that no round is discarded there and that no load panics, of which `PaymentsConfirm` is the consequence.
The two findings are counterexamples, and nothing is to be proved of them.

## 5. Not modelled

The cryptography (key generation, presigning, combination are single steps with
the outcome the callers rely on), serialization (lossless by the serde derives), wording and
logging, failures of the operating system that the programs only report (a disk that refuses a write),
corrupted pool files, and `n < 2` (main returns).

- `ppd_serializer.rs`: a lossless conversion of one type, without state; what it preserves is one name in `Presignatures`.
- `examples/sim_example.rs`: straight-line calls of the library's simulator, without state or concurrency of their own.
- `src/lib.rs`, `src/main.rs`, `gen_payload.sh`, `docker-compose.yml`: module list, placeholder, random bytes, container.
- In the examples: message ids (drawn and never read); `run_sign_once_n_of_n` of `in_memory` (never called; like
  any other protocol phase); the length tests of `PresignatureSet::from_raw`, a failing `combine` and the verification,
  which are about what the library returns.
- In the compositions: foreign files (they are in the modules of the single programs), a second
  crash, both machines failing in one run, and a crash of a program in the single directory.

## 6. Plan

Order of work, most important first:

1. *Done.* `FifoQueue`, `Presignatures`, `CoordRuntime` with its environment, `OneTimeSigning`,
   and the proofs of the inductive invariant and of single use.
2. *Done.* `OfflineNode`, `Initialization`.
3. *Done.* `BtcAuxiliary`, `IronSign` with and without crashes, `OneDirectory`.
4. *Done.* `Execution`, `Demos`, `PartyTasks`: the examples.
5. *Done.* The proofs of section 4.
6. *Done.* `NoRoundLost` and `DeletesWhatWasTaken`, the last two safety properties of the passing runs.
7. Possible next: `NoRoundLost` for the single directory, where the offline node signs while the coordinator collects, so
   that the invariants of `OfflineNode` about its outputs do not carry over.
