---------------------------- MODULE CoordRuntime ----------------------------
(***************************************************************************)
(* src/bin/coord_runtime.rs: the coordinator and its online node tasks     *)
(* 1 .. N-1, the input directory they consume, and the operator and the    *)
(* offline node (party 0) as their environment.                            *)
(*                                                                         *)
(* Every online node is a tokio task with an unbounded mailbox; the        *)
(* coordinator sends one command, awaits the oneshot reply, and goes on to *)
(* the next handle.  A step of the coordinator runs from one await, sleep  *)
(* or prompt to the next; a step of a node task handles one command.       *)
(***************************************************************************)
EXTENDS Presignatures, FiniteSets

CONSTANTS
  N,             \* number of parties, the offline node included
  MaxRound,      \* bound: no payload is accepted in round MaxRound
  MaxRestarts,   \* bound: crashes of the coordinator process
  MaxOutputs,    \* bound: partial signatures the offline node delivers
  StrayFiles     \* bound: whether foreign files may appear in node_<i>

ASSUME CoordAssumption ==
  /\ N \in Nat /\ N >= 2            \* main returns at once when n < 2
  /\ MaxRound \in Nat
  /\ MaxRestarts \in Nat
  /\ MaxOutputs \in Nat
  /\ StrayFiles \in BOOLEAN

Online  == 1 .. N - 1
Parties == 0 .. N - 1
Rounds  == 0 .. MaxRound

VARIABLES
  (* main and init_all_nodes_with_retry *)
  pc,            \* where the coordinator waits
  caller,        \* which call of init_all_nodes_with_retry is running
  cursor,        \* `for handle in handles`
  poolSizes,     \* nodes_pool_sizes
  failedNodes,   \* failed_nodes
  remaining,     \* remaining_presigs
  round,
  payload,       \* the bytes read at the prompt
  partials,      \* online_partials
  signErrors,    \* nodes in online_errors
  (* node tasks *)
  mailbox,       \* the mpsc channel of each node
  reply,         \* the oneshot the coordinator awaits
  initialized,   \* nodes whose presig_pool is Some
  presigPool,    \* that pool
  (* files *)
  poolFile,      \* node_<i>/presig_pool.msgpack: the batch it holds, or None
  stray,         \* parties whose node_<i> holds a file of another kind
  partialFile,   \* node_0/offline_partial_sig_<r>.msgpack
  ppdFile,       \* node_0/ppd_<r>.msgpack
  (* history and bounds *)
  supplied,      \* pool files the operator has copied into the input directory
  issued,        \* what each party ever signed with each set
  published,     \* every signature_<r>.msgpack ever written
  restarts

mainVars == <<caller, round, remaining, payload>>
initVars == <<poolSizes, failedNodes>>
signVars == <<partials, signErrors>>
passVars == <<initVars, signVars>>
nodeVars == <<initialized, presigPool>>
fileVars == <<poolFile, stray, partialFile, ppdFile>>
history  == <<supplied, issued, published, restarts>>
program  == <<pc, cursor, mainVars, passVars, mailbox, reply, nodeVars,
              published, restarts>>
vars     == <<program, fileVars, supplied, issued>>

InitPcs == {"init_send", "init_wait", "retry_sleep"}
SignPcs == {"sign_send", "sign_wait"}
Pcs     == InitPcs \cup SignPcs
             \cup {"reload_prompt", "payload_prompt", "offline_wait"}

InitCommand    == [cmd |-> "Init"]
SignCommand(p) == [cmd |-> "Sign", payload |-> p]
Commands       == [cmd : {"Init"}] \cup [cmd : {"Sign"}, payload : Payloads]

NoReply         == [tag |-> "none"]
ErrReply        == [tag |-> "err"]
SizeReply(size) == [tag |-> "size", size |-> size]
SignReply(sig)  == [tag |-> "partial", sig |-> sig]
Replies == [tag : {"none", "err"}] \cup [tag : {"size"}, size : Nat]
                                  \cup [tag : {"partial"}, sig : Partial]

Published == [session : 0 .. MaxRestarts, round : Rounds,
              set : PresigSet, payload : Payloads]

(***************************************************************************)
(* Spawning: all tasks idle and empty, the coordinator about to send Init  *)
(* to the first handle, in the call of main at line 293.                   *)
(***************************************************************************)
ProcessInit ==
  /\ pc = "init_send" /\ caller = "startup" /\ cursor = 1
  /\ poolSizes = <<>> /\ failedNodes = {}
  /\ remaining = 0 /\ round = 0 /\ payload = None
  /\ partials = <<>> /\ signErrors = {}
  /\ mailbox = [i \in Online |-> <<>>]
  /\ reply = NoReply
  /\ initialized = {}
  /\ presigPool = [i \in Online |-> <<>>]

Init ==
  /\ ProcessInit
  /\ poolFile = [i \in Online |-> None]
  /\ stray = {}
  /\ partialFile = [r \in Rounds |-> None]
  /\ ppdFile = [r \in Rounds |-> None]
  /\ supplied = {}
  /\ issued = [i \in Parties |-> {}]
  /\ published = {}
  /\ restarts = 0

\* The top of main's loop: an exhausted pool asks for a reload first.
LoopTop(left) == IF left = 0 THEN "reload_prompt" ELSE "payload_prompt"

-----------------------------------------------------------------------------
(* Initialization of the online nodes *)

SendInit ==
  /\ pc = "init_send"
  /\ mailbox' = [mailbox EXCEPT ![cursor] = Append(@, InitCommand)]
  /\ pc' = "init_wait"
  /\ UNCHANGED <<mainVars, cursor, passVars, reply, nodeVars, fileVars,
                 history>>

\* A node task receives its next command ...
TakesCommand(i, cmd) ==
  /\ mailbox[i] # <<>>
  /\ Head(mailbox[i]).cmd = cmd
  /\ mailbox' = [mailbox EXCEPT ![i] = Tail(@)]

\* ... and sends the result of handling it through the oneshot.
Answer(msg) == reply' = msg

\* The directory or a readable pool file is missing: nothing changes on disk,
\* and a pool loaded earlier stays in memory.
NodeInitMissing(i) ==
  /\ TakesCommand(i, "Init")
  /\ poolFile[i] = None
  /\ Answer(ErrReply)
  /\ UNCHANGED <<pc, mainVars, cursor, passVars, nodeVars, fileVars, history>>

RemovePoolFile_Kept(i) == i \in Online /\ UNCHANGED poolFile

\* remove_file
RemovePoolFile(i) == poolFile' = [poolFile EXCEPT ![i] = None]

\* remove_file succeeds and remove_dir finds another file: the pool is lost.
NodeInitDirNotEmpty(i) ==
  /\ TakesCommand(i, "Init")
  /\ poolFile[i] # None
  /\ i \in stray
  /\ RemovePoolFile(i)
  /\ Answer(ErrReply)
  /\ UNCHANGED <<pc, mainVars, cursor, passVars, nodeVars, stray, partialFile,
                 ppdFile, history>>

NodeInitLoads(i) ==
  /\ TakesCommand(i, "Init")
  /\ poolFile[i] # None
  /\ i \notin stray
  /\ presigPool' = [presigPool EXCEPT ![i] = PoolOf(poolFile[i])]
  /\ initialized' = initialized \cup {i}
  /\ Answer(SizeReply(PoolSize[poolFile[i]]))
  /\ RemovePoolFile(i)
  /\ UNCHANGED <<pc, mainVars, cursor, passVars, stray, partialFile, ppdFile,
                 history>>

PassRejected_SomeFailed(sizes, failed) ==
  failed = Online \/ \E k \in DOMAIN sizes : sizes[k] # sizes[1]

PassRejected_AnySizes(sizes, failed) == sizes = <<>> \/ failed # {}

\* A node failed, or some size differs from the first one.
PassRejected(sizes, failed) ==
  failed # {} \/ \E k \in DOMAIN sizes : sizes[k] # sizes[1]

\* After the last handle: a rejected pass puts the coordinator to sleep, else
\* the common size is the new count.  The call at startup is followed by the
\* top of the loop, the one at a reload by the payload prompt, whatever the size.
InitPassEnds(sizes, failed) ==
  IF PassRejected(sizes, failed)
    THEN pc' = "retry_sleep" /\ UNCHANGED remaining
    ELSE /\ remaining' = sizes[1]
         /\ pc' = IF caller = "startup" THEN LoopTop(sizes[1])
                                        ELSE "payload_prompt"

\* The node has handled the command and its arm is over: the coordinator's await
\* returns, with the answer or, had the arm dropped the oneshot unanswered, with
\* a RecvError.  (A task ends only when its handle is dropped, so a send to it
\* cannot fail.)
CommandHandled == mailbox[cursor] = <<>>

\* Anything but a size is a failure of the node.
RecvInit ==
  /\ pc = "init_wait"
  /\ CommandHandled
  /\ IF reply.tag = "size"
       THEN poolSizes' = Append(poolSizes, reply.size) /\ UNCHANGED failedNodes
       ELSE failedNodes' = failedNodes \cup {cursor} /\ UNCHANGED poolSizes
  /\ reply' = NoReply
  /\ IF cursor < N - 1
       THEN cursor' = cursor + 1 /\ pc' = "init_send" /\ UNCHANGED remaining
       ELSE InitPassEnds(poolSizes', failedNodes') /\ UNCHANGED cursor
  /\ UNCHANGED <<caller, round, payload, signVars, mailbox, nodeVars,
                 fileVars, history>>

StartInitPass_KeepsFailures ==
  /\ pc' = "init_send"
  /\ cursor' = 1
  /\ poolSizes' = <<>>
  /\ UNCHANGED <<round, remaining, payload, failedNodes, signVars, mailbox,
                 reply, nodeVars, fileVars, history>>

StartInitPass ==
  /\ pc' = "init_send"
  /\ cursor' = 1
  /\ poolSizes' = <<>>
  /\ failedNodes' = {}
  /\ UNCHANGED <<round, remaining, payload, signVars, mailbox, reply,
                 nodeVars, fileVars, history>>

\* The ten seconds are over: every node is initialized again.
RetryInit == pc = "retry_sleep" /\ StartInitPass /\ UNCHANGED caller

\* ENTER at "Presig pools exhausted".
PressEnterReload ==
  pc = "reload_prompt" /\ StartInitPass /\ caller' = "reload"

-----------------------------------------------------------------------------
(* The online signing pass *)

\* An empty name or an unreadable file: `continue`.
EnterBadPayload ==
  /\ pc = "payload_prompt"
  /\ pc' = LoopTop(remaining)
  /\ UNCHANGED <<mainVars, cursor, passVars, mailbox, reply, nodeVars,
                 fileVars, history>>

EnterPayload(p) ==
  /\ pc = "payload_prompt"
  /\ round < MaxRound
  /\ payload' = p
  /\ partials' = <<>>
  /\ signErrors' = {}
  /\ cursor' = 1
  /\ pc' = "sign_send"
  /\ UNCHANGED <<caller, round, remaining, initVars, mailbox, reply, nodeVars,
                 fileVars, history>>

SendSign ==
  /\ pc = "sign_send"
  /\ mailbox' = [mailbox EXCEPT ![cursor] = Append(@, SignCommand(payload))]
  /\ pc' = "sign_wait"
  /\ UNCHANGED <<mainVars, cursor, passVars, reply, nodeVars, fileVars,
                 history>>

\* "node is not initialized" or "presig pool exhausted".
NodeSignRefuses(i) ==
  /\ TakesCommand(i, "Sign")
  /\ i \notin initialized \/ IsEmpty(presigPool[i])
  /\ Answer(ErrReply)
  /\ UNCHANGED <<pc, mainVars, cursor, passVars, nodeVars, fileVars, history>>

NodeSigns(i) ==
  /\ TakesCommand(i, "Sign")
  /\ i \in initialized /\ ~IsEmpty(presigPool[i])
  /\ LET sig == IssuePartialSignature(NextItem(presigPool[i]),
                                      Head(mailbox[i]).payload)
     IN  /\ Answer(SignReply(sig))
         /\ issued' = [issued EXCEPT ![i] = @ \cup {sig}]
  /\ presigPool' = [presigPool EXCEPT ![i] = AfterPop(@)]
  /\ UNCHANGED <<pc, mainVars, cursor, passVars, initialized, fileVars,
                 supplied, published, restarts>>

\* After the last handle: one error discards the pass and forces a reload, in
\* the same round.
SignPassEnds(errors) ==
  IF errors # {}
    THEN remaining' = 0 /\ pc' = LoopTop(0)
    ELSE pc' = "offline_wait" /\ UNCHANGED remaining

\* Anything but a partial signature is an error of the pass.
RecvSign ==
  /\ pc = "sign_wait"
  /\ CommandHandled
  /\ IF reply.tag = "partial"
       THEN partials' = Append(partials, reply.sig) /\ UNCHANGED signErrors
       ELSE signErrors' = signErrors \cup {cursor} /\ UNCHANGED partials
  /\ reply' = NoReply
  /\ IF cursor < N - 1
       THEN cursor' = cursor + 1 /\ pc' = "sign_send" /\ UNCHANGED remaining
       ELSE SignPassEnds(signErrors') /\ UNCHANGED cursor
  /\ UNCHANGED <<caller, round, payload, initVars, mailbox, nodeVars,
                 fileVars, history>>

-----------------------------------------------------------------------------
(* The offline output and the combination *)

\* Both files of the round are read before anything is deleted; without them
\* the load fails and changes nothing (a stuttering step).
OutputsReadable ==
  /\ pc = "offline_wait"
  /\ partialFile[round] # None
  /\ ppdFile[round] # None

\* Does node_0 hold anything besides the two files of the round?
Node0HoldsMore ==
  \/ 0 \in stray
  \/ \E r \in Rounds \ {round} : partialFile[r] # None \/ ppdFile[r] # None

RemoveOutputs ==
  /\ partialFile' = [partialFile EXCEPT ![round] = None]
  /\ ppdFile' = [ppdFile EXCEPT ![round] = None]

\* remove_dir fails after both files are gone: an error, and the inner loop
\* waits for the same round again.
LoadOfflineDirNotEmpty ==
  /\ OutputsReadable
  /\ Node0HoldsMore
  /\ RemoveOutputs
  /\ UNCHANGED <<program, poolFile, stray, supplied, issued>>

AllPartials == <<partialFile[round]>> \o partials

NextRound_Forgotten == UNCHANGED round

NextRound == round' = round + 1

\* combine returned None: the round is discarded and the pools reloaded.
CombineFails ==
  /\ OutputsReadable
  /\ ~Node0HoldsMore
  /\ ~Combines(AllPartials, N, ppdFile[round], payload)
  /\ RemoveOutputs
  /\ remaining' = 0
  /\ NextRound
  /\ pc' = LoopTop(0)
  /\ UNCHANGED <<caller, cursor, payload, passVars, mailbox, reply, nodeVars,
                 poolFile, stray, history>>

\* The signature is exported, or the export fails and is only logged; the
\* round is over in both cases.
CombineSucceeds(exported) ==
  /\ OutputsReadable
  /\ ~Node0HoldsMore
  /\ Combines(AllPartials, N, ppdFile[round], payload)
  /\ RemoveOutputs
  /\ published' = IF exported
                    THEN published \cup
                         {[session |-> restarts, round |-> round,
                           set |-> ppdFile[round], payload |-> payload]}
                    ELSE published
  /\ remaining' = remaining - 1
  /\ NextRound
  /\ pc' = LoopTop(remaining - 1)
  /\ UNCHANGED <<caller, cursor, payload, passVars, mailbox, reply, nodeVars,
                 poolFile, stray, supplied, issued, restarts>>

-----------------------------------------------------------------------------
(* Crash of the coordinator process; all of its memory is lost *)

Restart ==
  /\ restarts < MaxRestarts
  /\ restarts' = restarts + 1
  /\ pc' = "init_send" /\ caller' = "startup" /\ cursor' = 1
  /\ poolSizes' = <<>> /\ failedNodes' = {}
  /\ remaining' = 0 /\ round' = 0 /\ payload' = None
  /\ partials' = <<>> /\ signErrors' = {}
  /\ mailbox' = [i \in Online |-> <<>>]
  /\ reply' = NoReply
  /\ initialized' = {}
  /\ presigPool' = [i \in Online |-> <<>>]
  /\ UNCHANGED <<fileVars, supplied, issued, published>>

-----------------------------------------------------------------------------
(* The environment: the operator's copies and the offline node *)

\* The operator moves the pool file of batch b to node_<i>, over an older one
\* if it is still there; each file is moved once.
SupplyPool(b, i) ==
  /\ <<b, i>> \notin supplied
  /\ supplied' = supplied \cup {<<b, i>>}
  /\ poolFile' = [poolFile EXCEPT ![i] = b]
  /\ UNCHANGED <<program, stray, partialFile, ppdFile, issued>>

\* A file of another kind appears in node_<i>, or is cleaned up.
ToggleStray(i) ==
  /\ StrayFiles
  /\ stray' = IF i \in stray THEN stray \ {i} ELSE stray \cup {i}
  /\ UNCHANGED <<program, poolFile, partialFile, ppdFile, supplied, issued>>

\* The offline node signs p with a set it has not used, and the partial is
\* copied to the input directory under its counter r.  Party 0 never uses a set
\* twice (module OfflineNode).
DeliverPartial(r, s, p) ==
  /\ Cardinality(issued[0]) < MaxOutputs
  /\ \A sig \in issued[0] : sig.set # s
  /\ issued' = [issued EXCEPT ![0] = @ \cup {[set |-> s, payload |-> p]}]
  /\ partialFile' = [partialFile EXCEPT ![r] = [set |-> s, payload |-> p]]
  /\ UNCHANGED <<program, poolFile, stray, ppdFile, supplied>>

\* The ppd that is brought with it.  It is the one of an earlier output when the
\* offline node was stopped between writing two files of the same counter.
DeliverPpd(r, s) ==
  /\ partialFile[r] # None
  /\ ppdFile' = [ppdFile EXCEPT ![r] = s]
  /\ UNCHANGED <<program, poolFile, stray, partialFile, supplied, issued>>

-----------------------------------------------------------------------------

Coordinator ==
  \/ SendInit \/ RecvInit \/ RetryInit
  \/ SendSign \/ RecvSign

Node(i) ==
  \/ NodeInitMissing(i) \/ NodeInitDirNotEmpty(i) \/ NodeInitLoads(i)
  \/ NodeSignRefuses(i) \/ NodeSigns(i)

\* Coordinator steps that wait for the operator at the terminal.
Terminal ==
  \/ PressEnterReload
  \/ EnterBadPayload
  \/ \E p \in Payloads : EnterPayload(p)
  \/ LoadOfflineDirNotEmpty
  \/ CombineFails
  \/ \E exported \in BOOLEAN : CombineSucceeds(exported)

Environment ==
  \/ \E b \in Batches, i \in Online : SupplyPool(b, i)
  \/ \E i \in Parties : ToggleStray(i)
  \/ \E r \in Rounds, s \in PresigSet, p \in Payloads : DeliverPartial(r, s, p)
  \/ \E r \in Rounds, s \in PresigSet : DeliverPpd(r, s)

Next ==
  \/ Coordinator
  \/ \E i \in Online : Node(i)
  \/ Terminal
  \/ Restart
  \/ Environment

Spec == Init /\ [][Next]_vars

\* Tokio runs every task that can run, and a sleep ends: the coordinator and
\* the node tasks are weakly fair.  Nothing obliges the operator, the offline
\* node or a crash, so Terminal, Environment and Restart are not.
FairSpec ==
  /\ Spec
  /\ WF_vars(Coordinator)
  /\ \A i \in Online : WF_vars(Node(i))

-----------------------------------------------------------------------------
(* Properties *)

TypeOK ==
  /\ pc \in Pcs
  /\ caller \in {"startup", "reload"}
  /\ cursor \in Online
  /\ poolSizes \in Seq(Nat)
  /\ failedNodes \subseteq Online
  /\ remaining \in Nat
  /\ round \in Rounds
  /\ payload \in Payloads \cup {None}
  /\ partials \in Seq(Partial)
  /\ signErrors \subseteq Online
  /\ mailbox \in [Online -> Seq(Commands)]
  /\ reply \in Replies
  /\ initialized \subseteq Online
  /\ presigPool \in [Online -> Seq(PresigSet)]
  /\ poolFile \in [Online -> Batches \cup {None}]
  /\ stray \subseteq Parties
  /\ partialFile \in [Rounds -> Partial \cup {None}]
  /\ ppdFile \in [Rounds -> PresigSet \cup {None}]
  /\ supplied \subseteq Batches \X Online
  /\ issued \in [Parties -> SUBSET Partial]
  /\ published \subseteq Published
  /\ restarts \in 0 .. MaxRestarts

\* The coordinator's count never drifts from the pools: whenever it offers to
\* sign, every online node holds exactly remaining_presigs presignatures, and
\* while it waits for the offline output exactly one less.
PoolsInLockstep ==
  /\ pc = "payload_prompt" =>
       \A i \in Online : i \in initialized /\ Len(presigPool[i]) = remaining
  /\ pc = "offline_wait" =>
       \A i \in Online : Len(presigPool[i]) + 1 = remaining

\* A signing pass fails on every node or on none: no node spends a
\* presignature in a pass the coordinator throws away (lines 346-355).
SignPassAllOrNothing == signErrors = {} \/ partials = <<>>

\* Online partials of one pass that come from the same batch come from the same
\* set of it, through failed initializations, reloads and crashes: only a
\* mixture of batches, which the size test of line 187 cannot see, can make
\* the online side of a combination disagree.
SameBatchSameSet ==
  \A j, k \in DOMAIN partials :
    partials[j].set.batch = partials[k].set.batch => partials[j].set = partials[k].set

\* A presignature is used at most once, the claim the scheme's safety rests on:
\* what a node has signed with is in none of its pools, in memory or on disk,
\* and no pool holds a set twice.
NeverSignedAgain ==
  \A i \in Online :
    /\ \A j, k \in DOMAIN presigPool[i] :
         presigPool[i][j] = presigPool[i][k] => j = k
    /\ \A sig \in issued[i] :
         /\ \A k \in DOMAIN presigPool[i] : presigPool[i][k] # sig.set
         /\ poolFile[i] # sig.set.batch

\* Within one run of the coordinator no signature file is written twice, on
\* whatever path (discarded pass, failed combination, lost export) rounds end.
SessionKeepsSignatures ==
  \A x, y \in published :
    x.session = y.session /\ x.round = y.round => x = y

\* An initialization that succeeds leaves every node with a complete batch: a
\* pool that survived a failed pass in memory never comes back into use.
NoStalePoolSurvivesInit ==
  [][pc = "init_wait" /\ pc' = "payload_prompt" =>
       \A i \in Online : \E b \in Batches : presigPool'[i] = PoolOf(b)]_vars

\* What the programs promise of signatures, module OneTimeSigning.
Promise == INSTANCE OneTimeSigning WITH
  Sets <- PresigSet,
  published <- {[set |-> x.set, payload |-> x.payload] : x \in published}
ImplementsOneTimeSigning == Promise!Spec

\* What can spoil a pass: a foreign file in a node directory, or pools of two
\* sizes among the files waiting there and those already loaded in this pass.
Disturbed ==
  LET waiting == {PoolSize[poolFile[i]] : i \in {j \in Online : poolFile[j] # None}}
      loaded  == IF pc = "retry_sleep" THEN {} ELSE {poolSizes[k] : k \in DOMAIN poolSizes}
  IN  stray \cap Online # {} \/ \E x, y \in waiting \cup loaded : x # y

\* A retry that finds a pool file in every node directory initializes all nodes,
\* unless the files are spoilt before it is through.
RetryRecovers ==
  pc = "retry_sleep" /\ (\A i \in Online : poolFile[i] # None)
    ~> pc \notin InitPcs \/ Disturbed

\* Lines 372-375: after a failed load of the offline output the operator is told
\* to fix the files and retry, so a failed load should leave them there.
FailedLoadKeepsOutputs ==
  [][pc = "offline_wait" /\ pc' = "offline_wait" /\ partialFile[round] # None
       => partialFile'[round] # None]_vars
=============================================================================
