-------------------------- MODULE IronSign_proofs --------------------------
(***************************************************************************)
(* Theorems about IronSign: the programs of the demo together, for every   *)
(* number of parties, every sequence of batches, whatever is switched off  *)
(* or named, and within any bounds.                                        *)
(***************************************************************************)
EXTENDS IronSign, TLAPS, FiniteSetTheorems, WellFoundedInduction

\* The facts of CoordRuntime_proofs and OfflineNode_proofs for the two programs.
CP == INSTANCE CoordRuntime_proofs WITH MaxOutputs <- MaxSessions * MaxOutputs
OP == INSTANCE OfflineNode_proofs WITH
        pc <- offPc, presigPool <- offPresigs, ppdPool <- offPpds,
        partial <- offPartial, ppd <- offPpd, poolFile <- offPoolFile,
        stray <- offStray, payloadFile <- offPayload,
        supplied <- offSupplied, issued <- offIssued

USE DEF coordMem, coordVars, offVars, btcVars, operator

-----------------------------------------------------------------------------
(* The inductive invariant *)

\* Made by the offline node, and not yet brought to the coordinator.
Unissued == offIssued \ issued[0]

\* A partial signature is in one place: on its way to the output directory, there,
\* on its way to the coordinator, or issued; and its ppd follows it.
TransportInv ==
  /\ issued[0] \subseteq offIssued
  /\ \A c \in O!Counters : partialOut[c] # None =>
       /\ partialOut[c] \in Unissued
       /\ \A d \in O!Counters : partialOut[c] = partialOut[d] => c = d
  /\ offPc = "write_partial" =>
       /\ offPartial \in Unissued
       /\ \A c \in O!Counters : partialOut[c] # offPartial
  /\ \/ carried = None
     \/ carried \in [counter : O!Counters, partial : Partial \cup {None},
                     ppd : PresigSet]
  /\ carried # None /\ carried.partial # None =>
       /\ carried.partial \in Unissued
       /\ \A c \in O!Counters : partialOut[c] # carried.partial
       /\ offPc = "write_partial" => offPartial # carried.partial
  /\ carried # None /\ carried.partial = None => partialFile[carried.counter] # None

ClientInv ==
  /\ btcPc \in {"down", "write_payload", "await_signature", "broadcast", "confirm"}
  /\ btcPc # "down" => sighash \in Payloads
  /\ btcPc = "await_signature" => payloadFile = sighash
  /\ output \in [Payloads -> {"none", "funded", "spent", "confirmed"}]

IInv ==
  /\ CP!IInv /\ OP!IInv /\ OP!IssuedInv
  /\ TransportInv /\ ClientInv

\* Every party has signed p, all with one set.
Signed(p) ==
  \E s \in PresigSet :
    LET sig == [set |-> s, payload |-> p]
    IN  sig \in offIssued /\ \A i \in C!Online : sig \in issued[i]

\* The client holds and broadcasts only what all have signed.
FundsInv ==
  /\ btcPc = "broadcast" => Signed(signature)
  /\ btcPc = "confirm" => Signed(sighash)
  /\ \A p \in Payloads : output[p] \in {"spent", "confirmed"} => Signed(p)

-----------------------------------------------------------------------------
(* The programs of IronSign are those of the two modules of proofs *)

\* What those modules assume of their constants.
LEMMA Assumptions ==
  /\ CP!CoordAssumption /\ CP!BatchAssumption /\ CP!NoneAssumption
  /\ OP!OfflineAssumption /\ OP!BatchAssumption /\ OP!NoneAssumption
<1>1. MaxSessions * MaxOutputs \in Nat
  BY IronSignAssumption
<1>2. CP!CoordAssumption /\ OP!OfflineAssumption
  BY <1>1, IronSignAssumption
     DEF CP!CoordAssumption, OP!OfflineAssumption, StrayFiles, SingleDir
<1>3. /\ CP!BatchAssumption /\ CP!NoneAssumption
      /\ OP!BatchAssumption /\ OP!NoneAssumption
  BY BatchAssumption, NoneAssumption
     DEF CP!BatchAssumption, CP!NoneAssumption, CP!PresigSet, CP!Partial,
         OP!BatchAssumption, OP!NoneAssumption, OP!PresigSet, OP!Partial,
         PresigSet, Partial
<1>4. QED
  BY <1>2, <1>3

LEMMA SameNames ==
  /\ CP!PresigSet = PresigSet /\ CP!Partial = Partial /\ OP!PresigSet = PresigSet
  /\ OP!Partial = Partial /\ C!PresigSet = PresigSet
  /\ C!Online = 1 .. N - 1 /\ CP!Online = 1 .. N - 1
  /\ C!Parties = 0 .. N - 1 /\ CP!Parties = 0 .. N - 1
  /\ C!Rounds = 0 .. MaxRound /\ CP!Rounds = 0 .. MaxRound
  /\ O!Counters = 0 .. MaxOutputs - 1 /\ OP!Counters = 0 .. MaxOutputs - 1
  BY DEF PresigSet, Partial, CP!PresigSet, CP!Partial, OP!PresigSet, OP!Partial,
         C!PresigSet, C!Online, CP!Online, C!Parties, CP!Parties, C!Rounds,
         CP!Rounds, O!Counters, OP!Counters

LEMMA PresigFields ==
  ASSUME NEW s \in PresigSet
  PROVE  /\ s.batch \in Batches /\ s.index \in 1 .. PoolSize[s.batch]
         /\ s.index \in Nat /\ PoolSize[s.batch] \in Nat
         /\ s = [batch |-> s.batch, index |-> s.index]
  BY CP!PresigFields, Assumptions, SameNames

\* A set is determined by its batch and its place in it.
LEMMA PresigExtensionality ==
  ASSUME NEW s \in PresigSet, NEW t \in PresigSet,
         s.batch = t.batch, s.index = t.index
  PROVE  s = t
  BY PresigFields

LEMMA SameCoordinator ==
  /\ C!Init => CP!Init
  /\ C!Next => CP!Next
  /\ UNCHANGED C!vars => UNCHANGED CP!vars
<1>1. C!Init => CP!Init
  BY DEF C!Init, C!NoReply, C!Online, C!Parties, C!ProcessInit, C!Rounds,
         CP!Init, CP!NoReply, CP!Online, CP!Parties, CP!ProcessInit, CP!Rounds
<1>2. C!Next => CP!Next
  BY DEF C!AfterPop, C!AllPartials, C!Answer, C!CombineFails,
         C!CombineSucceeds, C!Combines, C!CommandHandled, C!Coordinator, C!DeliverPartial,
         C!DeliverPpd, C!EnterBadPayload, C!EnterPayload, C!Environment,
         C!ErrReply, C!Init, C!InitCommand, C!InitPassEnds, C!IsEmpty,
         C!IssuePartialSignature, C!LoadOfflineDirNotEmpty, C!LoopTop, C!Next,
         C!NextItem, C!NextRound, C!NoReply, C!Node, C!Node0HoldsMore,
         C!NodeInitDirNotEmpty, C!NodeInitLoads, C!NodeInitMissing,
         C!NodeSignRefuses, C!NodeSigns, C!Online, C!OutputsReadable,
         C!Parties, C!PassRejected, C!PoolOf, C!PresigSet, C!PressEnterReload,
         C!ProcessInit, C!RecvInit, C!RecvSign, C!RemoveOutputs,
         C!RemovePoolFile, C!Restart, C!RetryInit, C!Rounds, C!SendInit,
         C!SendSign, C!SignCommand, C!SignPassEnds, C!SignReply, C!SizeReply,
         C!StartInitPass, C!SupplyPool, C!TakesCommand, C!Terminal,
         C!ToggleStray, C!fileVars, C!history, C!initVars, C!mainVars,
         C!nodeVars, C!passVars, C!program, C!signVars, C!Cardinality,
         C!IsFiniteSet, CP!AfterPop, CP!AllPartials, CP!Answer,
         CP!CombineFails, CP!CombineSucceeds, CP!Combines,
         CP!CommandHandled, CP!Coordinator,
         CP!DeliverPartial, CP!DeliverPpd, CP!EnterBadPayload,
         CP!EnterPayload, CP!Environment, CP!ErrReply, CP!Init,
         CP!InitCommand, CP!InitPassEnds, CP!IsEmpty,
         CP!IssuePartialSignature, CP!LoadOfflineDirNotEmpty, CP!LoopTop,
         CP!Next, CP!NextItem, CP!NextRound, CP!NoReply, CP!Node,
         CP!Node0HoldsMore, CP!NodeInitDirNotEmpty, CP!NodeInitLoads,
         CP!NodeInitMissing, CP!NodeSignRefuses, CP!NodeSigns, CP!Online,
         CP!OutputsReadable, CP!Parties, CP!PassRejected, CP!PoolOf,
         CP!PresigSet, CP!PressEnterReload, CP!ProcessInit, CP!RecvInit,
         CP!RecvSign, CP!RemoveOutputs, CP!RemovePoolFile, CP!Restart,
         CP!RetryInit, CP!Rounds, CP!SendInit, CP!SendSign, CP!SignCommand,
         CP!SignPassEnds, CP!SignReply, CP!SizeReply, CP!StartInitPass,
         CP!SupplyPool, CP!TakesCommand, CP!Terminal, CP!ToggleStray,
         CP!fileVars, CP!history, CP!initVars, CP!mainVars, CP!nodeVars,
         CP!passVars, CP!program, CP!signVars, CP!Cardinality, CP!IsFiniteSet
<1>3. UNCHANGED C!vars => UNCHANGED CP!vars
  BY DEF C!fileVars, C!initVars, C!mainVars, C!nodeVars, C!passVars,
         C!program, C!signVars, C!vars, CP!fileVars, CP!initVars, CP!mainVars,
         CP!nodeVars, CP!passVars, CP!program, CP!signVars, CP!vars
<1>4. QED
  BY <1>1, <1>2, <1>3

LEMMA SameOfflineNode ==
  /\ O!Init => OP!Init
  /\ O!Next => OP!Next
  /\ UNCHANGED O!vars => UNCHANGED OP!vars
<1>1. O!Init => OP!Init
  BY DEF O!Counters, O!Init, O!Kinds, OP!Counters, OP!Init, OP!Kinds
<1>2. O!Next => OP!Next
  BY DEF O!AfterPop, O!CollectOutput, O!Copying, O!Counters, O!Crash,
         O!DeletePayload, O!Ends, O!IsEmpty, O!IssuePartialSignature, O!Kinds,
         O!LoadPanics, O!Loading, O!Next, O!NextItem, O!NoCrashNext,
         O!Node0IsEmpty, O!Operator, O!PoolOf, O!PoolsReadable, O!PopPpd,
         O!PressEnterReload, O!PutPayload, O!ReadPools, O!RemoveDir,
         O!RemovePoolFile, O!Signing, O!Start, O!SubmitPayload, O!SupplyPool,
         O!ToggleStray, O!WritePartial, O!WritePpd, O!history, O!inputs,
         O!job, O!memory, O!outputs, O!pools, OP!AfterPop, OP!CollectOutput,
         OP!Copying, OP!Counters, OP!Crash, OP!DeletePayload, OP!Ends,
         OP!IsEmpty, OP!IssuePartialSignature, OP!Kinds, OP!LoadPanics,
         OP!Loading, OP!Next, OP!NextItem, OP!NoCrashNext, OP!Node0IsEmpty,
         OP!Operator, OP!PoolOf, OP!PoolsReadable, OP!PopPpd,
         OP!PressEnterReload, OP!PutPayload, OP!ReadPools, OP!RemoveDir,
         OP!RemovePoolFile, OP!Signing, OP!Start, OP!SubmitPayload,
         OP!SupplyPool, OP!ToggleStray, OP!WritePartial, OP!WritePpd,
         OP!history, OP!inputs, OP!job, OP!memory, OP!outputs, OP!pools
<1>3. UNCHANGED O!vars => UNCHANGED OP!vars
  BY DEF O!history, O!inputs, O!job, O!memory, O!outputs, O!pools, O!vars,
         OP!history, OP!inputs, OP!job, OP!memory, OP!outputs, OP!pools,
         OP!vars
<1>4. QED
  BY <1>1, <1>2, <1>3


-----------------------------------------------------------------------------
(* A step of the system is a step of each program or leaves it alone *)

\* One machine at a time: whatever is copied is copied between two steps.
LEMMA OneSide ==
  ASSUME [Next]_vars
  PROVE  UNCHANGED coordVars \/ UNCHANGED offVars
  BY DEF Next, CoordinatorStep, NodeStep, OfflineStep, ClientStep, OperatorStep,
         SupplyNode, SupplyOffline, StartCoordinator, ReloadNodes,
         StartOrReloadOffline, StartClient, EnterPayload, CopyPayload, SignOffline,
         TakeOutput, BringPartial, BringPpd, LoadOutput, EnterSignatureName,
         CrashCoordinator, CrashOffline, vars

LEMMA OfflineNodeStep ==
  ASSUME ClientInv, [Next]_vars
  PROVE  [O!Next]_(O!vars)
<1>1. CASE UNCHANGED offVars
  BY <1>1 DEF O!vars, O!memory, O!pools, O!job, O!inputs, O!outputs, O!history
<1>2. CASE OfflineStep
  BY <1>2 DEF OfflineStep, O!Next, O!NoCrashNext, O!Signing
<1>3. ASSUME NEW kind \in O!Kinds, SupplyOffline(kind) PROVE O!Next
  BY <1>3 DEF SupplyOffline, O!Next, O!NoCrashNext, O!Copying
<1>4. CASE StartOrReloadOffline
  BY <1>4 DEF StartOrReloadOffline, O!Next, O!NoCrashNext
<1>5. CASE CopyPayload
  <2>1. payloadFile \in Payloads /\ BtcPayload \in Names
    BY <1>5 DEF CopyPayload, ClientInv, Names
  <2>2. QED
    BY <1>5, <2>1 DEF CopyPayload, O!Next, O!NoCrashNext, O!Copying
<1>6. CASE SignOffline
  BY <1>6 DEF SignOffline, Names, O!Next, O!NoCrashNext, O!Signing
<1>7. ASSUME NEW c \in O!Counters, TakeOutput(c) PROVE O!Next
  BY <1>7 DEF TakeOutput, O!Next, O!NoCrashNext, O!Copying
<1>8. CASE CrashOffline
  BY <1>8 DEF CrashOffline, O!Next
<1>9. \/ UNCHANGED offVars \/ OfflineStep \/ StartOrReloadOffline \/ CopyPayload
      \/ SignOffline \/ CrashOffline
      \/ \E kind \in O!Kinds : SupplyOffline(kind)
      \/ \E c \in O!Counters : TakeOutput(c)
  BY DEF Next, CoordinatorStep, NodeStep, ClientStep, OperatorStep, SupplyNode,
         StartCoordinator, ReloadNodes, StartClient, EnterPayload, BringPartial,
         BringPpd, LoadOutput, EnterSignatureName, CrashCoordinator, vars
<1>10. QED
  BY <1>1, <1>2, <1>3, <1>4, <1>5, <1>6, <1>7, <1>8, <1>9

\* What the operator brings is what CoordRuntime expects of the offline node.
LEMMA BringPartialStep ==
  ASSUME IInv, BringPartial
  PROVE  C!Next
<1>1. /\ carried.partial \in Partial /\ carried.partial \in Unissued
      /\ carried.counter \in C!Rounds
  BY SameNames, IronSignAssumption DEF BringPartial, IInv, TransportInv
<1>2. PICK s \in PresigSet, p \in Payloads : carried.partial = [set |-> s, payload |-> p]
  BY <1>1 DEF Partial
<1>3. \A sig \in issued[0] : sig.set # s
  <2>1. carried.partial.set = s
    BY <1>2
  <2>2. QED
    BY <1>1, <2>1 DEF IInv, TransportInv, OP!IssuedInv, Unissued
<1>4. C!Cardinality(issued[0]) < MaxSessions * MaxOutputs
  <2>1. IsFiniteSet(offIssued) /\ Cardinality(offIssued) <= OP!MadeAtMost
    BY DEF IInv, OP!IssuedInv, OP!Cardinality, OP!IsFiniteSet, Cardinality, IsFiniteSet
  <2>2. /\ issued[0] \cup {carried.partial} \subseteq offIssued
        /\ carried.partial \notin issued[0]
    BY <1>1 DEF IInv, TransportInv, Unissued
  <2>3. /\ IsFiniteSet(issued[0]) /\ Cardinality(issued[0]) \in Nat
        /\ Cardinality(issued[0] \cup {carried.partial}) = Cardinality(issued[0]) + 1
    BY <2>1, <2>2, FS_Subset, FS_AddElement, FS_CardinalityType
  <2>4. Cardinality(issued[0]) + 1 <= Cardinality(offIssued)
    BY <2>1, <2>2, <2>3, FS_Subset
  <2>5. OP!MadeAtMost <= MaxSessions * MaxOutputs /\ OP!MadeAtMost \in Int
    <3>1. OP!IInv
      BY DEF IInv
    <3>2. QED
      BY <3>1, Assumptions, OP!MadeInAll
         DEF OP!OfflineAssumption, OP!BatchAssumption, OP!NoneAssumption
  <2>6. Cardinality(issued[0]) < MaxSessions * MaxOutputs
    BY <2>1, <2>3, <2>4, <2>5, FS_CardinalityType, IronSignAssumption
  <2>7. QED
    BY <2>6, Zenon DEF C!Cardinality, C!IsFiniteSet, Cardinality, IsFiniteSet
<1>5. C!DeliverPartial(carried.counter, s, p)
  BY <1>2, <1>3, <1>4
     DEF BringPartial, C!DeliverPartial, C!program, C!mainVars, C!passVars,
         C!initVars, C!signVars, C!nodeVars
<1>6. PICK r \in C!Rounds : C!DeliverPartial(r, s, p)
  BY <1>1, <1>5
<1>7. QED
  BY <1>2, <1>6, SameNames DEF C!Next, C!Environment

LEMMA BringPpdStep ==
  ASSUME IInv, BringPpd
  PROVE  C!Next
<1>1. /\ carried.counter \in C!Rounds /\ carried.ppd \in C!PresigSet
      /\ partialFile[carried.counter] # None
  BY SameNames, IronSignAssumption DEF BringPpd, IInv, TransportInv
<1>2. C!DeliverPpd(carried.counter, carried.ppd)
  BY <1>1 DEF BringPpd, C!DeliverPpd, C!program, C!mainVars, C!passVars,
              C!initVars, C!signVars, C!nodeVars
<1>3. PICK r \in C!Rounds, s \in C!PresigSet : C!DeliverPpd(r, s)
  BY <1>1, <1>2
<1>4. QED
  BY <1>3 DEF C!Next, C!Environment

LEMMA CoordStep ==
  ASSUME IInv, [Next]_vars
  PROVE  [C!Next]_(C!vars)
<1>1. CASE UNCHANGED coordVars
  BY <1>1 DEF C!vars, C!program, C!mainVars, C!passVars, C!initVars, C!signVars,
              C!nodeVars, C!fileVars
<1>2. CASE CoordinatorStep
  BY <1>2 DEF CoordinatorStep, C!Next
<1>3. ASSUME NEW i \in C!Online, NodeStep(i) PROVE C!Next
  BY <1>3 DEF NodeStep, C!Next
<1>4. ASSUME NEW i \in C!Online, SupplyNode(i) PROVE C!Next
  <2>1. PICK b \in Batches : C!SupplyPool(b, i)
    BY <1>4 DEF SupplyNode
  <2>2. QED
    BY <2>1 DEF C!Next, C!Environment
<1>5. CASE ReloadNodes
  BY <1>5 DEF ReloadNodes, C!Next, C!Terminal
<1>6. CASE EnterPayload
  <2>1. payloadFile \in Payloads /\ C!EnterPayload(payloadFile)
    BY <1>6 DEF EnterPayload, IInv, ClientInv
  <2>2. PICK p \in Payloads : C!EnterPayload(p)
    BY <2>1
  <2>3. QED
    BY <2>2 DEF C!Next, C!Terminal
<1>7. CASE LoadOutput
  <2>1. \/ C!LoadOfflineDirNotEmpty \/ C!CombineFails
        \/ \E exported \in BOOLEAN : C!CombineSucceeds(exported)
    BY <1>7 DEF LoadOutput
  <2>2. QED
    BY <2>1 DEF C!Next, C!Terminal
<1>8. CASE CrashCoordinator
  BY <1>8 DEF CrashCoordinator, C!Next
<1>9. \/ UNCHANGED coordVars \/ CoordinatorStep \/ ReloadNodes \/ EnterPayload
      \/ BringPartial \/ BringPpd \/ LoadOutput \/ CrashCoordinator
      \/ \E i \in C!Online : NodeStep(i) \/ SupplyNode(i)
  BY DEF Next, OfflineStep, ClientStep, OperatorStep, SupplyOffline,
         StartCoordinator, StartOrReloadOffline, StartClient, CopyPayload,
         SignOffline, TakeOutput, EnterSignatureName, CrashOffline, vars
<1>10. QED
  BY <1>1, <1>2, <1>3, <1>4, <1>5, <1>6, <1>7, <1>8, <1>9, BringPartialStep,
     BringPpdStep

-----------------------------------------------------------------------------
(* IInv is inductive *)

\* What the invariants of the two programs say of the files and the history.
LEMMA Types ==
  ASSUME IInv
  PROVE  /\ issued \in [0 .. N - 1 -> SUBSET Partial] /\ 0 \in 0 .. N - 1
         /\ partialFile \in [0 .. MaxRound -> Partial \cup {None}]
         /\ partialOut \in [0 .. MaxOutputs - 1 -> Partial \cup {None}]
         /\ ppdOut \in [0 .. MaxOutputs - 1 -> PresigSet \cup {None}]
         /\ offIssued \subseteq Partial
         /\ offPc = "write_partial" => sigCounter \in 0 .. MaxOutputs - 1
<1>1. CP!TypeOK /\ OP!TypeOK /\ OP!JobInv
  BY DEF IInv, CP!IInv, OP!IInv
<1>2. offPc = "write_partial" => sigCounter < MaxOutputs /\ sigCounter \in 0 .. MaxOutputs
  BY <1>1 DEF OP!JobInv, OP!SignPcs, OP!TypeOK
<1>3. /\ issued \in [CP!Parties -> SUBSET CP!Partial]
      /\ partialFile \in [CP!Rounds -> CP!Partial \cup {None}]
  BY <1>1 DEF CP!TypeOK
<1>4. /\ partialOut \in [OP!Counters -> OP!Partial \cup {None}]
      /\ ppdOut \in [OP!Counters -> OP!PresigSet \cup {None}]
      /\ offIssued \subseteq OP!Partial
  BY <1>1 DEF OP!TypeOK
<1>5. QED
  BY <1>2, <1>3, <1>4, SameNames, IronSignAssumption

\* All steps but five kinds leave every partial signature where it is.
LEMMA NothingMoves ==
  ASSUME IInv, [Next]_vars, \A c \in O!Counters : ~TakeOutput(c),
         ~BringPartial, ~BringPpd, ~SignOffline, ~(OfflineStep /\ O!WritePartial)
  PROVE  /\ UNCHANGED <<offIssued, partialOut, carried>>
         /\ issued'[0] = issued[0]
         /\ offPc' = "write_partial" => offPc = "write_partial" /\ offPartial' = offPartial
         /\ carried # None => UNCHANGED partialFile
<1> DEFINE Goal == /\ UNCHANGED <<offIssued, partialOut, carried>>
                   /\ issued'[0] = issued[0]
                   /\ offPc' = "write_partial" =>
                        offPc = "write_partial" /\ offPartial' = offPartial
                   /\ carried # None => UNCHANGED partialFile
<1> SUFFICES Goal
  OBVIOUS
<1>t. issued \in [0 .. N - 1 -> SUBSET Partial] /\ 0 \in 0 .. N - 1
  BY Types
<1>1. CASE UNCHANGED <<offVars, carried>>
  <2>1. SUFFICES issued'[0] = issued[0] /\ (carried # None => UNCHANGED partialFile)
    BY <1>1
  <2>2. CASE CoordinatorStep \/ ReloadNodes \/ EnterPayload
    BY <2>2 DEF CoordinatorStep, ReloadNodes, EnterPayload, C!Coordinator, C!SendInit,
                C!RecvInit, C!RetryInit, C!StartInitPass, C!SendSign, C!RecvSign,
                C!PressEnterReload, C!EnterPayload, C!history, C!fileVars
  <2>3. ASSUME NEW i \in C!Online, NodeStep(i)
        PROVE  issued'[0] = issued[0] /\ UNCHANGED partialFile
    <3>1. i # 0
      BY SameNames
    <3>2. issued' = issued \/ \E sig : issued' = [issued EXCEPT ![i] = @ \cup {sig}]
      BY <2>3 DEF NodeStep, C!Node, C!NodeInitMissing, C!NodeInitDirNotEmpty,
                  C!NodeInitLoads, C!NodeSignRefuses, C!NodeSigns, C!history
    <3>3. QED
      BY <2>3, <3>1, <3>2, <1>t
         DEF NodeStep, C!Node, C!NodeInitMissing, C!NodeInitDirNotEmpty,
             C!NodeInitLoads, C!NodeSignRefuses, C!NodeSigns, C!fileVars
  <2>4. ASSUME NEW i \in C!Online, SupplyNode(i)
        PROVE  UNCHANGED <<issued, partialFile>>
    BY <2>4 DEF SupplyNode, C!SupplyPool
  <2>5. CASE LoadOutput
    BY <2>5 DEF LoadOutput, C!LoadOfflineDirNotEmpty, C!CombineFails,
                C!CombineSucceeds, C!history
  <2>6. CASE CrashCoordinator
    BY <2>6 DEF CrashCoordinator, C!Restart, C!fileVars
  <2>7. CASE UNCHANGED <<issued, partialFile>>
    BY <2>7
  <2>8. \/ CoordinatorStep \/ ReloadNodes \/ EnterPayload \/ LoadOutput
        \/ CrashCoordinator \/ UNCHANGED <<issued, partialFile>>
        \/ \E i \in C!Online : NodeStep(i) \/ SupplyNode(i)
    BY DEF Next, OfflineStep, ClientStep, OperatorStep, SupplyOffline,
           StartCoordinator, StartOrReloadOffline, StartClient, CopyPayload,
           EnterSignatureName, CrashOffline, vars
  <2>9. QED
    BY <2>2, <2>3, <2>4, <2>5, <2>6, <2>7, <2>8
<1>2. CASE OfflineStep
  <2>1. O!Loading \/ O!WritePpd \/ O!DeletePayload
    BY <1>2 DEF OfflineStep
  <2>2. UNCHANGED <<offIssued, partialOut>> /\ offPc' # "write_partial"
    BY <2>1 DEF O!Loading, O!ReadPools, O!RemovePoolFile, O!RemoveDir, O!LoadPanics,
                O!Ends, O!WritePpd, O!DeletePayload, O!Kinds, O!history, O!outputs
  <2>3. QED
    BY <1>2, <2>2 DEF OfflineStep
<1>3. ASSUME NEW kind \in O!Kinds, SupplyOffline(kind) PROVE Goal
  BY <1>3 DEF SupplyOffline, O!SupplyPool, O!Operator, O!memory, O!job, O!outputs
<1>4. CASE StartOrReloadOffline
  BY <1>4 DEF StartOrReloadOffline, O!Start, O!PressEnterReload, O!history, O!outputs
<1>5. CASE CopyPayload
  BY <1>5 DEF CopyPayload, O!PutPayload, O!Operator, O!memory, O!job, O!outputs
<1>6. CASE CrashOffline
  BY <1>6 DEF CrashOffline, O!Crash, O!Ends, O!history, O!outputs
<1>7. \/ UNCHANGED <<offVars, carried>> \/ OfflineStep \/ StartOrReloadOffline
      \/ CopyPayload \/ CrashOffline \/ \E kind \in O!Kinds : SupplyOffline(kind)
  BY DEF Next, CoordinatorStep, NodeStep, ClientStep, OperatorStep, SupplyNode,
         StartCoordinator, ReloadNodes, StartClient, EnterPayload, LoadOutput,
         EnterSignatureName, CrashCoordinator, vars
<1>8. QED
  BY <1>1, <1>2, <1>3, <1>4, <1>5, <1>6, <1>7

LEMMA TransportStep ==
  ASSUME IInv, [Next]_vars
  PROVE  TransportInv'
<1>t. /\ issued \in [0 .. N - 1 -> SUBSET Partial] /\ 0 \in 0 .. N - 1
      /\ partialFile \in [0 .. MaxRound -> Partial \cup {None}]
      /\ partialOut \in [O!Counters -> Partial \cup {None}]
      /\ ppdOut \in [O!Counters -> PresigSet \cup {None}]
      /\ offPc = "write_partial" => sigCounter \in O!Counters
      /\ None \notin Partial
  BY Types, SameNames, NoneAssumption
<1>i. TransportInv
  BY DEF IInv
<1>1. ASSUME NEW c \in O!Counters, TakeOutput(c) PROVE TransportInv'
  <2>1. /\ carried = None /\ partialOut[c] # None /\ ppdOut[c] # None
        /\ partialOut' = [partialOut EXCEPT ![c] = None]
        /\ carried' = [counter |-> c, partial |-> partialOut[c], ppd |-> ppdOut[c]]
        /\ UNCHANGED <<issued, offIssued, offPc, offPartial>>
    BY <1>1 DEF TakeOutput, O!CollectOutput, O!Operator, O!memory, O!job
  <2>2. partialOut[c] \in Partial /\ ppdOut[c] \in PresigSet
    BY <2>1, <1>t
  <2>3. \A d \in O!Counters : partialOut'[d] = IF d = c THEN None ELSE partialOut[d]
    BY <2>1, <1>t
  <2>4. /\ carried'.partial = partialOut[c] /\ carried'.partial # None
        /\ carried' \in [counter : O!Counters, partial : Partial \cup {None},
                         ppd : PresigSet]
    BY <2>1, <2>2
  <2>5. Unissued' = Unissued /\ issued'[0] \subseteq offIssued'
    BY <2>1, <1>i DEF TransportInv, Unissued
  <2>6. \A d \in O!Counters : partialOut'[d] # None =>
          /\ partialOut'[d] \in Unissued'
          /\ partialOut'[d] # partialOut[c]
          /\ \A e \in O!Counters : partialOut'[d] = partialOut'[e] => d = e
    BY <2>1, <2>3, <2>5, <1>i DEF TransportInv
  <2>7. offPc' = "write_partial" =>
          /\ offPartial' \in Unissued'
          /\ offPartial' # partialOut[c]
          /\ \A d \in O!Counters : partialOut'[d] # offPartial'
    <3>1. SUFFICES ASSUME offPc = "write_partial"
                   PROVE  /\ offPartial \in Unissued'
                          /\ offPartial # partialOut[c]
                          /\ \A d \in O!Counters : partialOut'[d] # offPartial
      BY <2>1
    <3>2. offPartial \in Unissued /\ \A d \in O!Counters : partialOut[d] # offPartial
      BY <3>1, <1>i DEF TransportInv
    <3>3. offPartial # None
      BY <3>2, Types, <1>t DEF Unissued
    <3>4. QED
      BY <3>2, <3>3, <2>3, <2>5
  <2>8. \A d \in O!Counters : partialOut'[d] # carried'.partial
    BY <2>1, <2>3, <2>4, <1>i DEF TransportInv
  <2>9. partialOut[c] \in Unissued'
    BY <2>1, <2>5, <1>i DEF TransportInv
  <2>10. QED
    BY <2>4, <2>5, <2>6, <2>7, <2>8, <2>9 DEF TransportInv
<1>2. CASE BringPartial
  <2> DEFINE sig == carried.partial
  <2>1. /\ carried # None /\ sig # None
        /\ issued' = [issued EXCEPT ![0] = @ \cup {sig}]
        /\ partialFile' = [partialFile EXCEPT ![carried.counter] = sig]
        /\ carried' = [carried EXCEPT !.partial = None]
        /\ UNCHANGED <<partialOut, offIssued, offPc, offPartial>>
    BY <1>2 DEF BringPartial
  <2>2. /\ carried \in [counter : O!Counters, partial : Partial \cup {None},
                        ppd : PresigSet]
        /\ sig \in Unissued
        /\ \A c \in O!Counters : partialOut[c] # sig
        /\ offPc = "write_partial" => offPartial # sig
    BY <2>1, <1>i DEF TransportInv
  <2>3. /\ carried' \in [counter : O!Counters, partial : Partial \cup {None},
                         ppd : PresigSet]
        /\ carried'.partial = None /\ carried'.counter = carried.counter
    BY <2>1, <2>2
  <2>4. partialFile'[carried'.counter] # None
    BY <2>1, <2>2, <2>3, <1>t, SameNames, IronSignAssumption
  <2>5. issued'[0] = issued[0] \cup {sig}
    BY <2>1, <1>t
  <2> HIDE DEF sig
  <2>6. Unissued' = Unissued \ {sig} /\ issued'[0] \subseteq offIssued'
    BY <2>1, <2>2, <2>5, <1>i DEF Unissued, TransportInv
  <2>7. QED
    BY <2>1, <2>2, <2>3, <2>4, <2>6, <1>i DEF TransportInv
<1>3. CASE BringPpd
  <2>1. carried' = None
        /\ UNCHANGED <<issued, offIssued, partialOut, offPc, offPartial>>
    BY <1>3 DEF BringPpd
  <2>2. QED
    BY <2>1, <1>i DEF TransportInv, Unissued
<1>4. CASE OfflineStep /\ O!WritePartial
  <2>1. /\ offPc = "write_partial" /\ offPc' = "write_ppd"
        /\ partialOut' = [partialOut EXCEPT ![sigCounter] = offPartial]
        /\ UNCHANGED <<issued, offIssued, carried, partialFile>>
    BY <1>4 DEF OfflineStep, O!WritePartial, O!history
  <2>2. \A d \in O!Counters :
          partialOut'[d] = IF d = sigCounter THEN offPartial ELSE partialOut[d]
    BY <2>1, <1>t
  <2>3. QED
    BY <2>1, <2>2, <1>i DEF TransportInv, Unissued
<1>5. CASE SignOffline
  <2>1. /\ offIssued' = offIssued \cup {offPartial'}
        /\ UNCHANGED <<issued, partialOut, carried, partialFile>>
    BY <1>5 DEF SignOffline, O!SubmitPayload, O!outputs
  <2>2. offPartial' \notin offIssued /\ offPartial' # None
    <3>1. OP!SubmitPayload(BtcPayload) /\ BtcPayload \in Names
      BY <1>5 DEF SignOffline, O!SubmitPayload, OP!SubmitPayload, O!IsEmpty,
                  OP!IsEmpty, O!IssuePartialSignature, OP!IssuePartialSignature,
                  O!NextItem, OP!NextItem, O!AfterPop, OP!AfterPop, O!PopPpd,
                  OP!PopPpd, O!inputs, OP!inputs, O!outputs, OP!outputs, Names
    <3>2. OP!IInv
      BY DEF IInv
    <3>3. PICK f \in Names : OP!SubmitPayload(f)
      BY <3>1
    <3>4. /\ offPartial' \in OP!Partial
          /\ \A sig \in offIssued : sig.set # offPartial'.set
      BY <3>2, <3>3, Assumptions, OP!SignsUnused
         DEF OP!OfflineAssumption, OP!BatchAssumption, OP!NoneAssumption
    <3>5. QED
      BY <3>4, <1>t, SameNames
  <2>3. offIssued \subseteq offIssued' /\ offPartial' \in offIssued'
    BY <2>1
  <2>4. Unissued \subseteq Unissued' /\ offPartial' \in Unissued'
        /\ offPartial' \notin Unissued
    BY <2>1, <2>2, <2>3, <1>i DEF Unissued, TransportInv
  <2>5. \A d \in O!Counters : partialOut'[d] # None =>
          /\ partialOut'[d] \in Unissued'
          /\ \A e \in O!Counters : partialOut'[d] = partialOut'[e] => d = e
    BY <2>1, <2>4, <1>i DEF TransportInv
  <2>6. issued'[0] \subseteq offIssued'
    BY <2>1, <2>3, <1>i DEF TransportInv
  <2>7. \A d \in O!Counters : partialOut'[d] # offPartial'
    <3>1. \A d \in O!Counters : partialOut[d] = None \/ partialOut[d] \in Unissued
      BY <1>i DEF TransportInv
    <3>2. QED
      BY <3>1, <2>1, <2>2, <2>4
  <2>8. carried # None /\ carried.partial # None =>
          carried.partial \in Unissued /\ \A d \in O!Counters : partialOut[d] # carried.partial
    BY <1>i DEF TransportInv
  <2>9. carried # None /\ carried.partial # None =>
          carried.partial \in Unissued' /\ carried.partial # offPartial'
    BY <2>8, <2>4
  <2>10. \/ carried = None
         \/ carried \in [counter : O!Counters, partial : Partial \cup {None},
                         ppd : PresigSet]
    BY <1>i DEF TransportInv
  <2>11. carried # None /\ carried.partial = None => partialFile[carried.counter] # None
    BY <1>i DEF TransportInv
  <2>12. QED
    BY <2>1, <2>4, <2>5, <2>6, <2>7, <2>8, <2>9, <2>10, <2>11 DEF TransportInv
<1>6. CASE /\ \A c \in O!Counters : ~TakeOutput(c)
           /\ ~BringPartial /\ ~BringPpd /\ ~SignOffline
           /\ ~(OfflineStep /\ O!WritePartial)
  <2>1. /\ UNCHANGED <<offIssued, partialOut, carried>>
        /\ issued'[0] = issued[0]
        /\ offPc' = "write_partial" => offPc = "write_partial" /\ offPartial' = offPartial
        /\ carried # None => UNCHANGED partialFile
    BY <1>6, NothingMoves
  <2>2. QED
    BY <2>1, <1>i DEF TransportInv, Unissued
<1>7. QED
  BY <1>1, <1>2, <1>3, <1>4, <1>5, <1>6

LEMMA ClientInvStep ==
  ASSUME ClientInv, [Next]_vars
  PROVE  ClientInv'
<1>1. CASE ClientStep
  BY <1>1 DEF ClientInv, ClientStep, B!WritePayload, B!Broadcast, B!BroadcastRefused,
              B!Confirm, B!RunFails, B!Ends
<1>2. CASE StartClient
  BY <1>2 DEF ClientInv, StartClient, B!Fund
<1>3. ASSUME NEW r \in C!Rounds, EnterSignatureName(r) PROVE ClientInv'
  BY <1>3 DEF ClientInv, EnterSignatureName, B!ReadSignature, B!SignatureMissing,
              B!Ends
<1>4. CASE UNCHANGED btcVars
  BY <1>4 DEF ClientInv
<1>5. \/ ClientStep \/ StartClient \/ UNCHANGED btcVars
      \/ \E r \in C!Rounds : EnterSignatureName(r)
  BY DEF Next, CoordinatorStep, NodeStep, OfflineStep, OperatorStep, SupplyNode,
         SupplyOffline, StartCoordinator, ReloadNodes, StartOrReloadOffline,
         EnterPayload, CopyPayload, SignOffline, TakeOutput, BringPartial, BringPpd,
         LoadOutput, CrashCoordinator, CrashOffline, vars
<1>6. QED
  BY <1>1, <1>2, <1>3, <1>4, <1>5

LEMMA InitIInv == Init => IInv
<1> SUFFICES ASSUME Init PROVE IInv
  OBVIOUS
<1>1. CP!IInv
  BY SameCoordinator, Assumptions, CP!InitIInv
     DEF Init, CP!CoordAssumption, CP!BatchAssumption, CP!NoneAssumption
<1>2. OP!IInv /\ OP!IssuedInv
  BY SameOfflineNode, Assumptions, OP!InitIInv, OP!InitIssued
     DEF Init, OP!OfflineAssumption, OP!BatchAssumption, OP!NoneAssumption
<1>3. TransportInv
  BY SameNames, IronSignAssumption DEF Init, TransportInv, C!Init, O!Init
<1>4. ClientInv
  BY DEF Init, ClientInv, B!Init
<1>5. QED
  BY <1>1, <1>2, <1>3, <1>4 DEF IInv

LEMMA IInvStep == IInv /\ [Next]_vars => IInv'
<1> SUFFICES ASSUME IInv, [Next]_vars PROVE IInv'
  OBVIOUS
<1>1. CP!IInv'
  <2>1. [CP!Next]_(CP!vars)
    BY CoordStep, SameCoordinator
  <2>2. CP!IInv
    BY DEF IInv
  <2>3. CP!TypeOK'
    BY <2>1, <2>2, Assumptions, CP!TypeStep
       DEF CP!CoordAssumption, CP!BatchAssumption, CP!NoneAssumption
  <2>4. CP!Rest'
    BY <2>1, <2>2, Assumptions, CP!RestStep
       DEF CP!CoordAssumption, CP!BatchAssumption, CP!NoneAssumption
  <2>5. QED
    BY <2>3, <2>4 DEF CP!IInv, CP!Rest
<1>2. OP!IInv' /\ OP!IssuedInv'
  <2>1. [OP!Next]_(OP!vars)
    BY OfflineNodeStep, SameOfflineNode DEF IInv
  <2>2. OP!IInv /\ OP!IssuedInv
    BY DEF IInv
  <2>3. OP!TypeOK' /\ OP!PoolsAligned' /\ OP!JobInv' /\ OP!FreshInv'
    BY <2>1, <2>2, Assumptions, OP!TypeStep, OP!AlignedStep, OP!JobStep, OP!FreshStep
       DEF OP!OfflineAssumption, OP!BatchAssumption, OP!NoneAssumption
  <2>4. OP!IssuedInv'
    BY <2>1, <2>2, Assumptions, OP!IssuedStep
       DEF OP!OfflineAssumption, OP!BatchAssumption, OP!NoneAssumption
  <2>5. QED
    BY <2>3, <2>4 DEF OP!IInv
<1>3. TransportInv' /\ ClientInv'
  BY TransportStep, ClientInvStep DEF IInv
<1>4. QED
  BY <1>1, <1>2, <1>3 DEF IInv

\* Both programs keep their own invariants in the system, no partial signature is
\* in two places or lost to the output directory before it is brought, and what
\* the client prints as payload is what the operator can enter.
THEOREM IInvHolds == Spec => []IInv
  BY InitIInv, IInvStep, PTL DEF Spec

\* The coordinator's module asks nothing of its environment that the real offline
\* node, the client and the operator do not do: every behaviour of the system is a
\* behaviour of CoordRuntime.
THEOREM EnvironmentHolds == Spec => CoordinatorEnvironmentHolds
<1>1. Init => C!Init
  BY DEF Init
<1>2. IInv /\ [Next]_vars => [C!Next]_(C!vars)
  BY CoordStep
<1>3. QED
  BY <1>1, <1>2, IInvHolds, PTL DEF Spec, CoordinatorEnvironmentHolds, C!Spec

LEMMA ImplementsCoordRuntime == Spec => CP!Spec
<1>1. Init => CP!Init
  BY SameCoordinator DEF Init
<1>2. IInv /\ [Next]_vars => [CP!Next]_(CP!vars)
  BY CoordStep, SameCoordinator
<1>3. QED
  BY <1>1, <1>2, IInvHolds, PTL DEF Spec, CP!Spec

\* Within one run of the coordinator no signature file is written twice, with the
\* real offline node.
THEOREM SessionFiles == Spec => []SignatureFilesKept
<1>1. Spec => []CP!SessionKeepsSignatures
  BY ImplementsCoordRuntime, Assumptions, CP!SessionFiles, PTL
     DEF CP!CoordAssumption, CP!BatchAssumption, CP!NoneAssumption
<1>2. CP!SessionKeepsSignatures => SignatureFilesKept
  BY DEF CP!SessionKeepsSignatures, SignatureFilesKept, C!SessionKeepsSignatures
<1>3. QED
  BY <1>1, <1>2, PTL

-----------------------------------------------------------------------------
(* The system keeps the promise of one-time signing *)

\* What the coordinator's module calls issued by party 0, a partial signature that
\* has reached the coordinator, was signed by the offline node before: its step
\* changes nothing here.
LEMMA CoordinatorKeepsPromise ==
  ASSUME IInv, UNCHANGED offVars, [CP!Promise!Next]_(CP!Promise!vars)
  PROVE  [Promise!Next]_(Promise!vars)
<1> DEFINE signed == [i \in C!Parties |-> IF i = 0 THEN offIssued ELSE issued[i]]
           public == {[set |-> x.set, payload |-> x.payload] : x \in published}
<1>1. /\ issued \in [C!Parties -> SUBSET Partial] /\ 0 \in C!Parties
      /\ issued[0] \subseteq offIssued
  BY Types, SameNames DEF IInv, TransportInv
<1>2. ASSUME NEW i \in C!Parties, NEW s \in PresigSet, NEW p \in Payloads,
             CP!Promise!Issue(i, s, p)
      PROVE  [Promise!Next]_(Promise!vars)
  <2>1. /\ \A sig \in issued[i] : sig.set # s
        /\ issued' = [issued EXCEPT ![i] = @ \cup {[set |-> s, payload |-> p]}]
        /\ UNCHANGED public
    BY <1>2 DEF CP!Promise!Issue, CP!Promise!Sig
  <2>2. CASE i = 0
    <3>1. UNCHANGED signed
      BY <2>1, <2>2, <1>1
    <3>2. QED
      BY <2>1, <3>1 DEF Promise!vars
  <2>3. CASE i # 0
    <3>1. signed' = [signed EXCEPT ![i] = @ \cup {[set |-> s, payload |-> p]}]
          /\ signed[i] = issued[i]
      BY <2>1, <2>3, <1>1
    <3>2. Promise!Issue(i, s, p)
      BY <2>1, <3>1 DEF Promise!Issue, Promise!Sig
    <3>3. QED
      BY <3>2 DEF Promise!Next
  <2>4. QED
    BY <2>2, <2>3
<1>3. ASSUME NEW s \in PresigSet, NEW p \in Payloads, CP!Promise!Publish(s, p)
      PROVE  Promise!Next
  <2>1. /\ \A i \in C!Parties : [set |-> s, payload |-> p] \in issued[i]
        /\ \A sig \in public : sig.set # s
        /\ public' = public \cup {[set |-> s, payload |-> p]}
        /\ UNCHANGED issued
    BY <1>3, SameNames DEF CP!Promise!Publish, CP!Promise!Sig
  <2>2. /\ \A i \in C!Parties : [set |-> s, payload |-> p] \in signed[i]
        /\ UNCHANGED signed
    BY <2>1, <1>1
  <2>3. Promise!Publish(s, p)
    BY <2>1, <2>2 DEF Promise!Publish, Promise!Sig
  <2>4. QED
    BY <2>3 DEF Promise!Next
<1>4. ASSUME UNCHANGED <<issued, public>> PROVE UNCHANGED Promise!vars
  BY <1>4 DEF Promise!vars
<1>5. QED
  BY <1>2, <1>3, <1>4, SameNames DEF CP!Promise!Next, CP!Promise!vars

LEMMA OnlySubmitIssues ==
  ASSUME [OP!Next]_(OP!vars)
  PROVE  (\E f \in Names : OP!SubmitPayload(f)) \/ UNCHANGED offIssued
  BY DEF OP!Next, OP!NoCrashNext, OP!Start, OP!Loading, OP!ReadPools,
         OP!RemovePoolFile, OP!RemoveDir, OP!LoadPanics, OP!Ends, OP!PressEnterReload,
         OP!Signing, OP!WritePartial, OP!WritePpd, OP!DeletePayload, OP!Copying,
         OP!SupplyPool, OP!ToggleStray, OP!PutPayload, OP!CollectOutput,
         OP!Operator, OP!Crash, OP!history, OP!vars

LEMMA OfflineNodeKeepsPromise ==
  ASSUME IInv, UNCHANGED coordVars, [OP!Next]_(OP!vars)
  PROVE  [Promise!Next]_(Promise!vars)
<1> DEFINE signed == [i \in C!Parties |-> IF i = 0 THEN offIssued ELSE issued[i]]
<1>1. ASSUME NEW f \in Names, OP!SubmitPayload(f)
      PROVE  Promise!Next
  <2>1. /\ offPartial' \in OP!Partial
        /\ \A sig \in offIssued : sig.set # offPartial'.set
    <3>1. OP!IInv
      BY DEF IInv
    <3>2. QED
      BY <1>1, <3>1, Assumptions, OP!SignsUnused
         DEF OP!OfflineAssumption, OP!BatchAssumption, OP!NoneAssumption
  <2>2. PICK s \in PresigSet, p \in Payloads : offPartial' = [set |-> s, payload |-> p]
    BY <2>1, SameNames DEF Partial
  <2>3. offIssued' = offIssued \cup {[set |-> s, payload |-> p]}
    BY <1>1, <2>2 DEF OP!SubmitPayload
  <2>4. 0 \in C!Parties
    BY SameNames, IronSignAssumption
  <2>5. signed' = [signed EXCEPT ![0] = @ \cup {[set |-> s, payload |-> p]}]
        /\ signed[0] = offIssued
    BY <2>3, <2>4
  <2>6. offPartial'.set = s
    BY <2>2
  <2>7. Promise!Issue(0, s, p)
    BY <2>1, <2>5, <2>6 DEF Promise!Issue, Promise!Sig
  <2>8. QED
    BY <2>4, <2>7 DEF Promise!Next
<1>2. CASE UNCHANGED offIssued
  BY <1>2 DEF Promise!vars
<1>3. QED
  BY <1>1, <1>2, OnlySubmitIssues

\* The three programs and the operator implement the abstract specification, the
\* signatures of party 0 being counted when the offline node makes them, wherever
\* a machine is switched off.
THEOREM KeepsPromise == Spec => SystemKeepsPromise
<1>1. Init => Promise!Init
  BY DEF Init, C!Init, O!Init, Promise!Init
<1>2. Spec => [][CP!Promise!Next]_(CP!Promise!vars)
  <2>1. Spec => CP!ImplementsOneTimeSigning
    BY ImplementsCoordRuntime, Assumptions, CP!KeepsPromise, PTL
       DEF CP!CoordAssumption, CP!BatchAssumption, CP!NoneAssumption
  <2>2. QED
    BY <2>1, PTL DEF CP!ImplementsOneTimeSigning, CP!Promise!Spec
<1>3. IInv /\ [Next]_vars /\ [CP!Promise!Next]_(CP!Promise!vars)
        => [Promise!Next]_(Promise!vars)
  <2> SUFFICES ASSUME IInv, [Next]_vars, [CP!Promise!Next]_(CP!Promise!vars)
               PROVE  [Promise!Next]_(Promise!vars)
    OBVIOUS
  <2>1. [OP!Next]_(OP!vars)
    BY OfflineNodeStep, SameOfflineNode DEF IInv
  <2>2. QED
    BY <2>1, OneSide, CoordinatorKeepsPromise, OfflineNodeKeepsPromise
<1>4. QED
  BY <1>1, <1>2, <1>3, IInvHolds, PTL DEF Spec, SystemKeepsPromise, Promise!Spec

-----------------------------------------------------------------------------
(* Money moves only when everybody has signed *)

\* Among signature files of one round the one of the latest session exists.
LEMMA LatestSession ==
  ASSUME NEW S, S # {}, NEW b \in Nat, \A x \in S : x.session \in 0 .. b
  PROVE  \E x \in S : \A y \in S : y.session <= x.session
<1> DEFINE T == {b - x.session : x \in S}
<1>1. T \subseteq Nat /\ T # {}
  OBVIOUS
<1>2. PICK m \in T : \A k \in T : <<k, m>> \notin OpToRel(<, Nat)
  BY <1>1, WFMin, NatLessThanWellFounded, Zenon
<1>3. \A k \in T : ~(k < m)
  BY <1>1, <1>2 DEF OpToRel
<1>4. PICK x \in S : m = b - x.session
  OBVIOUS
<1>5. ASSUME NEW y \in S PROVE y.session <= x.session
  <2>1. b - y.session \in T
    OBVIOUS
  <2>2. ~(b - y.session < b - x.session)
    BY <1>3, <1>4, <2>1
  <2>3. QED
    BY <2>2
<1>6. QED
  BY <1>5

\* Whatever file the operator names, everybody has signed what is in it.
LEMMA FilesSigned ==
  ASSUME IInv, CP!PublishedIssued,
         NEW r \in 0 .. MaxRound, SigFile[r] # None
  PROVE  Signed(SigFile[r])
<1> DEFINE files == {x \in published : x.round = r}
           latest == CHOOSE x \in files : \A y \in files : y.session <= x.session
<1>1. files # {} /\ SigFile[r] = latest.payload
  BY DEF SigFile
<1>2. published \subseteq CP!Published
  BY DEF IInv, CP!IInv, CP!TypeOK
<1>3. \A x \in files : x.session \in 0 .. MaxRestarts
  BY <1>2 DEF CP!Published
<1>4. \E x \in files : \A y \in files : y.session <= x.session
  BY <1>1, <1>3, LatestSession, IronSignAssumption, Zenon
<1>5. latest \in published
  BY <1>4
<1> HIDE DEF latest
<1>6. latest.set \in PresigSet
  BY <1>2, <1>5, SameNames DEF CP!Published
<1>7. \A i \in 0 .. N - 1 : [set |-> latest.set, payload |-> latest.payload] \in issued[i]
  BY <1>5, SameNames DEF CP!PublishedIssued
<1>8. issued[0] \subseteq offIssued /\ 0 \in 0 .. N - 1
  BY Types DEF IInv, TransportInv
<1>9. QED
  BY <1>1, <1>6, <1>7, <1>8, SameNames DEF Signed

LEMMA SignedStays ==
  ASSUME IInv, [Next]_vars, NEW p, Signed(p)
  PROVE  Signed(p)'
<1>1. PICK s \in PresigSet :
        /\ [set |-> s, payload |-> p] \in offIssued
        /\ \A i \in C!Online : [set |-> s, payload |-> p] \in issued[i]
  BY DEF Signed
<1>2. \A i \in C!Online : issued[i] \subseteq issued'[i]
  <2>1. CP!TypeOK /\ [CP!Next]_(CP!vars)
    BY CoordStep, SameCoordinator DEF IInv, CP!IInv
  <2>2. QED
    BY <2>1, Assumptions, CP!IssuedGrows, SameNames
       DEF CP!CoordAssumption, CP!BatchAssumption, CP!NoneAssumption
<1>3. offIssued \subseteq offIssued'
  <2>1. [OP!Next]_(OP!vars)
    BY OfflineNodeStep, SameOfflineNode DEF IInv
  <2>2. QED
    BY <2>1, OnlySubmitIssues DEF OP!SubmitPayload
<1>4. QED
  BY <1>1, <1>2, <1>3 DEF Signed

LEMMA FundsStep ==
  ASSUME IInv, CP!PublishedIssued, FundsInv, [Next]_vars
  PROVE  FundsInv'
<1>c. ClientInv
  BY DEF IInv
<1>1. \A p : Signed(p) => Signed(p)'
  BY SignedStays
<1> DEFINE Quiet ==
      /\ btcPc' = "broadcast" => btcPc = "broadcast" /\ signature' = signature
      /\ btcPc' = "confirm" => btcPc = "confirm" /\ sighash' = sighash
      /\ \A p \in Payloads : output'[p] \in {"spent", "confirmed"} =>
           \/ output[p] \in {"spent", "confirmed"}
           \/ btcPc = "confirm" /\ p = sighash
<1>2. Quiet => FundsInv'
  BY <1>1 DEF FundsInv
<1>3. CASE ClientStep /\ B!Broadcast
  <2>1. /\ btcPc = "broadcast" /\ signature = sighash /\ sighash' = sighash
        /\ btcPc' = "confirm"
        /\ \A p \in Payloads : output'[p] = IF p = sighash THEN "spent" ELSE output[p]
    BY <1>3, <1>c DEF ClientInv, B!Broadcast
  <2>2. Signed(sighash)
    BY <2>1 DEF FundsInv
  <2>3. QED
    BY <1>1, <2>1, <2>2 DEF FundsInv
<1>4. ASSUME NEW r \in C!Rounds, EnterSignatureName(r), B!ReadSignature(r)
      PROVE  FundsInv'
  <2>1. /\ SigFile[r] # None /\ signature' = SigFile[r] /\ btcPc' = "broadcast"
        /\ output' = output
    BY <1>4 DEF B!ReadSignature
  <2>2. Signed(SigFile[r])
    BY <2>1, FilesSigned, SameNames
  <2>3. PICK q : q = signature'
    OBVIOUS
  <2>4. Signed(q)'
    BY <1>1, <2>1, <2>2, <2>3
  <2>5. QED
    BY <1>1, <2>1, <2>3, <2>4 DEF FundsInv
<1>5. \/ UNCHANGED btcVars \/ StartClient \/ ClientStep
      \/ \E r \in C!Rounds : EnterSignatureName(r)
  BY DEF Next, CoordinatorStep, NodeStep, OfflineStep, OperatorStep, SupplyNode,
         SupplyOffline, StartCoordinator, ReloadNodes, StartOrReloadOffline,
         EnterPayload, CopyPayload, SignOffline, TakeOutput, BringPartial, BringPpd,
         LoadOutput, CrashCoordinator, CrashOffline, vars
<1>6. ASSUME NEW r \in C!Rounds, EnterSignatureName(r) PROVE FundsInv'
  <2>1. B!ReadSignature(r) \/ B!SignatureMissing(r)
    BY <1>6 DEF EnterSignatureName
  <2>2. B!SignatureMissing(r) => Quiet
    BY DEF B!SignatureMissing, B!Ends
  <2>3. QED
    BY <1>2, <1>4, <1>6, <2>1, <2>2
<1>7. CASE ClientStep
  <2>1. ~B!Broadcast => Quiet
    BY <1>7, <1>c DEF ClientInv, ClientStep, B!WritePayload, B!BroadcastRefused,
                      B!Confirm, B!RunFails, B!Ends
  <2>2. QED
    BY <1>2, <1>3, <1>7, <2>1
<1>8. CASE UNCHANGED btcVars \/ StartClient
  <2>1. Quiet
    BY <1>8, <1>c DEF ClientInv, StartClient, B!Fund
  <2>2. QED
    BY <1>2, <2>1
<1>9. QED
  BY <1>5, <1>6, <1>7, <1>8

LEMMA CoordPromise == Spec => []CP!PromiseInv
<1>1. Spec => [](CP!FreshInv /\ CP!PromiseInv)
  BY ImplementsCoordRuntime, Assumptions, CP!PromiseHolds, PTL
     DEF CP!CoordAssumption, CP!BatchAssumption, CP!NoneAssumption
<1>2. QED
  BY <1>1, PTL

\* Money leaves address B only by a transaction which the offline node and all
\* online nodes have signed with one presignature set, whichever machine is
\* switched off, however often a payload is entered and whatever file is named.
THEOREM FundsMove == Spec => []FundsMoveOnlyWhenSigned
<1>1. Init => FundsInv
  BY DEF Init, B!Init, FundsInv
<1>2. Spec => []CP!PublishedIssued
  <2>1. CP!PromiseInv => CP!PublishedIssued
    BY DEF CP!PromiseInv
  <2>2. QED
    BY <2>1, CoordPromise, PTL
<1>3. IInv /\ CP!PublishedIssued /\ FundsInv /\ [Next]_vars => FundsInv'
  BY FundsStep
<1>4. FundsInv => FundsMoveOnlyWhenSigned
  BY DEF FundsInv, FundsMoveOnlyWhenSigned, Signed
<1>5. QED
  BY <1>1, <1>2, <1>3, <1>4, IInvHolds, PTL DEF Spec

-----------------------------------------------------------------------------
(* A careful operator: both machines use the sets in the order of Deliveries *)

\* The sets of batch j of Deliveries, and those that are left of them in a pool.
Size(j) == IF j = 0 THEN 0 ELSE PoolSize[Deliveries[j]]
Rest(j, left) ==
  [k \in 1 .. left |-> [batch |-> Deliveries[j], index |-> Size(j) - left + k]]

\* What was used before batch j has so many sets left, and how many they are.
Used(j, left) ==
  {s \in PresigSet :
     \E k \in 1 .. j : s.batch = Deliveries[k] /\ (k = j => s.index + left <= Size(j))}
Counted(j, left, n) == IsFiniteSet(Used(j, left)) /\ Cardinality(Used(j, left)) = n

\* Set s is the one that is used after n others.
At(s, n) ==
  \E j \in 1 .. Len(Deliveries) :
    \E left \in 1 .. Size(j) : s = Rest(j, left)[1] /\ Counted(j, left, n)

\* Of j batches loaded, one more may be waiting as a file.
First(j) == {Deliveries[k] : k \in 1 .. j}
Brought(got, file, j) ==
  \/ got = First(j) /\ file = None
  \/ j < Len(Deliveries) /\ got = First(j + 1) /\ file = Deliveries[j + 1]

Received(i) == {x \in Batches : <<x, i>> \in supplied}
Holds(i, j, left) ==
  Brought(Received(i), poolFile[i], j) /\ presigPool[i] = Rest(j, left)

\* The pass over the nodes has been at node i.
Passed(i) ==
  i < cursor \/ (i = cursor /\ pc \in {"init_wait", "sign_wait"} /\ reply # C!NoReply)
OffReceived(kind) == {x \in Batches : <<kind, x>> \in offSupplied}
InInit == pc \in {"init_send", "init_wait"}
InSign == pc \in {"sign_send", "sign_wait"}

\* In a pass of initialization the nodes asked so far have the next batch.
NodesInInit(j) ==
  /\ remaining = 0 /\ failedNodes = {}
  /\ \A k \in DOMAIN poolSizes : poolSizes[k] = Size(j + 1)
  /\ reply \in {C!NoReply, C!SizeReply(Size(j + 1))}
  /\ IF started THEN j < Len(Deliveries)
                ELSE j = 0 /\ pc = "init_send" /\ cursor = 1
  /\ \A i \in C!Online :
       IF Passed(i) THEN Holds(i, j + 1, Size(j + 1))
       ELSE Holds(i, j, 0) /\ (started => poolFile[i] # None)

\* Elsewhere all pools are the same rest, up to the set of a pass in progress.
NodesInLoop(j) ==
  /\ started /\ pc # "retry_sleep"
  /\ pc = "reload_prompt" => remaining = 0
  /\ \A i \in C!Online :
       Holds(i, j, IF remaining > 0 /\ (pc = "offline_wait" \/ (InSign /\ Passed(i)))
                     THEN remaining - 1 ELSE remaining)
  /\ InSign \/ pc = "offline_wait" =>
       /\ \A k \in DOMAIN partials :
            partials[k].payload = payload /\ At(partials[k].set, round)
       /\ reply.tag = "partial" =>
            reply.sig.payload = payload /\ At(reply.sig.set, round)

OnlineAt(j) ==
  /\ remaining <= Size(j)
  /\ Counted(j, remaining, round)
  /\ IF InInit THEN NodesInInit(j) ELSE NodesInLoop(j)

OnlineInv == stray = {} /\ \E j \in 0 .. Len(Deliveries) : OnlineAt(j)

OfflineAt(j) ==
  /\ Len(offPresigs) <= Size(j)
  /\ offPresigs = Rest(j, Len(offPresigs)) /\ offPpds = offPresigs
  /\ Counted(j, Len(offPresigs),
             IF offPc \in O!SignPcs THEN sigCounter + 1 ELSE sigCounter)
  /\ \A kind \in O!Kinds :
       IF offPc = "presig" \/ (offPc = "ppd" /\ kind = "ppd")
         THEN /\ j > 0
              /\ OffReceived(kind) = First(j) /\ offPoolFile[kind] = Deliveries[j]
         ELSE Brought(OffReceived(kind), offPoolFile[kind], j)
  /\ offPc \in {"read_pools", "down"} => offPresigs = <<>>
  /\ offPc = "read_pools" => \A kind \in O!Kinds : offPoolFile[kind] # None
  /\ offPc \in O!SignPcs => offPartial.set = offPpd /\ At(offPpd, sigCounter)

OfflineInv == offStray = FALSE /\ \E j \in 0 .. Len(Deliveries) : OfflineAt(j)

\* Every output on its way belongs to the round of its counter.
PlacesInv ==
  /\ \A c \in O!Counters :
       /\ partialOut[c] # None => At(partialOut[c].set, c)
       /\ ppdOut[c] # None => At(ppdOut[c], c)
  /\ carried # None =>
       /\ carried.partial # None => At(carried.partial.set, carried.counter)
       /\ At(carried.ppd, carried.counter)
  /\ \A r \in C!Rounds :
       /\ partialFile[r] # None => At(partialFile[r].set, r)
       /\ ppdFile[r] # None => At(ppdFile[r], r)

NoOuts == \A c \in O!Counters : partialOut[c] = None /\ ppdOut[c] = None
NoFiles == \A r \in C!Rounds : partialFile[r] = None /\ ppdFile[r] = None

\* The stages of a payment.  Settled: none is copied to the offline machine, or its
\* round is over.
Settled ==
  /\ sigCounter = round /\ offPc \notin O!SignPcs /\ offPayload[BtcPayload] = None
  /\ NoOuts /\ carried = None /\ NoFiles

\* The payload was copied and is there; its output may have been begun.
ToSign ==
  /\ sigCounter = round /\ offPayload[BtcPayload] = payloadFile
  /\ carried = None /\ NoFiles
  /\ offPc \notin O!SignPcs => NoOuts
  /\ \A c \in O!Counters \ {round} : partialOut[c] = None /\ ppdOut[c] = None

\* The offline node is done with it; its output is in the output directory ...
Made == sigCounter = round + 1 /\ offPc \notin O!SignPcs /\ offPayload[BtcPayload] = None

InOutput ==
  /\ Made /\ carried = None /\ NoFiles
  /\ round \in O!Counters
  /\ partialOut[round] # None /\ partialOut[round].payload = payloadFile
  /\ \A c \in O!Counters \ {round} : partialOut[c] = None /\ ppdOut[c] = None

\* ... or with the operator, who brings the partial signature first ...
OnTheWay ==
  /\ Made /\ carried # None /\ NoOuts
  /\ carried.counter = round
  /\ \A r \in C!Rounds : ppdFile[r] = None
  /\ \A r \in C!Rounds \ {round} : partialFile[r] = None
  /\ IF carried.partial = None
       THEN partialFile[round] # None /\ partialFile[round].payload = payloadFile
       ELSE partialFile[round] = None /\ carried.partial.payload = payloadFile

\* ... or in node_0 of the coordinator.
Arrived ==
  /\ Made /\ carried = None /\ NoOuts
  /\ partialFile[round] # None /\ partialFile[round].payload = payloadFile
  /\ \A r \in C!Rounds \ {round} : partialFile[r] = None /\ ppdFile[r] = None

\* A payment is between its copy and the end of its round.
Busy == copied /\ dispatched \in {None, round}

PaymentInv ==
  /\ IF Busy THEN /\ btcPc = "await_signature"
                  /\ ToSign \/ InOutput \/ OnTheWay \/ Arrived
             ELSE Settled
  /\ ~copied => dispatched \in {None, round}
  /\ InSign \/ pc = "offline_wait" =>
       btcPc = "await_signature" /\ dispatched = round /\ payload = payloadFile
  /\ \A x \in published : x.round < round

CarefulInv == OnlineInv /\ OfflineInv /\ PlacesInv /\ PaymentInv

\* Every batch of the order is there once.
LEMMA DeliveriesFacts ==
  /\ Len(Deliveries) \in Nat /\ DOMAIN Deliveries = 1 .. Len(Deliveries)
  /\ \A j \in 1 .. Len(Deliveries) :
       /\ Deliveries[j] \in Batches /\ Deliveries[j] # None
       /\ Size(j) = PoolSize[Deliveries[j]] /\ Size(j) \in Nat
       /\ \A k \in 1 .. Len(Deliveries) : Deliveries[j] = Deliveries[k] => j = k
  /\ Size(0) = 0
<1>1. /\ Len(Deliveries) \in Nat /\ DOMAIN Deliveries = 1 .. Len(Deliveries)
      /\ \A j \in 1 .. Len(Deliveries) : Deliveries[j] \in Batches
  BY IronSignAssumption
<1>2. \A j, k \in 1 .. Len(Deliveries) : Deliveries[j] = Deliveries[k] => j = k
  BY <1>1, IronSignAssumption
<1>3. QED
  BY <1>1, <1>2, BatchAssumption DEF Size

LEMMA SameSequence ==
  ASSUME NEW S, NEW q \in Seq(S), NEW r \in Seq(S), Len(q) = Len(r),
         \A k \in 1 .. Len(q) : q[k] = r[k]
  PROVE  q = r
  OBVIOUS

\* What is left of a batch is a pool.
LEMMA RestType ==
  ASSUME NEW j \in 0 .. Len(Deliveries), NEW left \in 0 .. Size(j)
  PROVE  /\ Rest(j, left) \in Seq(PresigSet) /\ Len(Rest(j, left)) = left
         /\ Size(j) \in Nat /\ left \in Nat /\ left <= Size(j)
         /\ \A k \in 1 .. left :
              [batch |-> Deliveries[j], index |-> Size(j) - left + k] \in PresigSet
<1>1. Size(j) \in Nat /\ left \in Nat /\ left <= Size(j)
  <2>1. Size(j) \in Nat
    BY DeliveriesFacts, j = 0 \/ j \in 1 .. Len(Deliveries)
  <2>2. QED
    BY <2>1
<1>2. \A k \in 1 .. left : [batch |-> Deliveries[j], index |-> Size(j) - left + k] \in PresigSet
  <2>1. SUFFICES ASSUME NEW k \in 1 .. left
                 PROVE  [batch |-> Deliveries[j], index |-> Size(j) - left + k] \in PresigSet
    OBVIOUS
  <2>2. j \in 1 .. Len(Deliveries)
    BY <1>1, DeliveriesFacts
  <2>3. /\ Deliveries[j] \in Batches
        /\ Size(j) - left + k \in 1 .. PoolSize[Deliveries[j]]
    BY <1>1, <2>2, DeliveriesFacts
  <2>4. QED
    BY <2>3 DEF PresigSet
<1>3. Rest(j, left) \in Seq(PresigSet) /\ Len(Rest(j, left)) = left
  BY <1>1, <1>2 DEF Rest
<1>4. QED
  BY <1>1, <1>2, <1>3

\* Its first set comes off, and one less is left.
LEMMA RestFacts ==
  ASSUME NEW j \in 0 .. Len(Deliveries), NEW left \in 0 .. Size(j)
  PROVE  /\ Rest(j, left) \in Seq(PresigSet) /\ Len(Rest(j, left)) = left
         /\ left = 0 => Rest(j, left) = <<>>
         /\ left > 0 =>
              /\ Rest(j, left) # <<>>
              /\ Head(Rest(j, left)) = Rest(j, left)[1]
              /\ Tail(Rest(j, left)) = Rest(j, left - 1)
              /\ j > 0 /\ Rest(j, left)[1] \in PresigSet
              /\ Rest(j, left)[1] = [batch |-> Deliveries[j], index |-> Size(j) - left + 1]
<1>1. Size(j) \in Nat /\ left \in Nat /\ left <= Size(j)
  BY RestType
<1>2. \A k \in 1 .. left : [batch |-> Deliveries[j], index |-> Size(j) - left + k] \in PresigSet
  BY RestType
<1>3. Rest(j, left) \in Seq(PresigSet) /\ Len(Rest(j, left)) = left
  BY RestType
<1>4. left = 0 => Rest(j, left) = <<>>
  BY <1>3
<1>5. ASSUME left > 0
      PROVE  /\ Rest(j, left) # <<>>
             /\ Head(Rest(j, left)) = Rest(j, left)[1]
             /\ Tail(Rest(j, left)) = Rest(j, left - 1)
             /\ j > 0 /\ Rest(j, left)[1] \in PresigSet
             /\ Rest(j, left)[1] = [batch |-> Deliveries[j], index |-> Size(j) - left + 1]
  <2>1. /\ Rest(j, left)[1] = [batch |-> Deliveries[j], index |-> Size(j) - left + 1]
        /\ Rest(j, left)[1] \in PresigSet
    BY <1>1, <1>2, <1>5 DEF Rest
  <2>2. Rest(j, left) # <<>> /\ Head(Rest(j, left)) = Rest(j, left)[1]
    BY <1>3, <1>5
  <2>3. Tail(Rest(j, left)) = Rest(j, left - 1)
    <3>1. /\ Tail(Rest(j, left)) \in Seq(PresigSet)
          /\ Len(Tail(Rest(j, left))) = left - 1
          /\ \A k \in 1 .. left - 1 : Tail(Rest(j, left))[k] = Rest(j, left)[k + 1]
      BY <1>1, <1>3, <1>5
    <3>2. left - 1 \in 0 .. Size(j)
      BY <1>1, <1>5
    <3>3. /\ Rest(j, left - 1) \in Seq(PresigSet)
          /\ Len(Rest(j, left - 1)) = left - 1
      BY <3>2, RestType
    <3>4. \A k \in 1 .. left - 1 : Rest(j, left)[k + 1] = Rest(j, left - 1)[k]
      <4>1. TAKE k \in 1 .. left - 1
      <4>2. k + 1 \in 1 .. left /\ Size(j) - left + (k + 1) = Size(j) - (left - 1) + k
        BY <1>1, <1>5
      <4>3. QED
        BY <4>2 DEF Rest
    <3>5. QED
      BY <3>1, <3>3, <3>4, SameSequence
  <2>4. j > 0
    BY <1>1, <1>5, DeliveriesFacts
  <2>5. QED
    BY <2>1, <2>2, <2>3, <2>4
<1>6. QED
  BY <1>3, <1>4, <1>5

\* A pool that was just loaded.
LEMMA FullRest ==
  ASSUME NEW j \in 1 .. Len(Deliveries)
  PROVE  PoolOf(Deliveries[j]) = Rest(j, Size(j)) /\ PoolSize[Deliveries[j]] = Size(j)
<1>1. Size(j) \in Nat /\ Size(j) = PoolSize[Deliveries[j]]
  BY DeliveriesFacts
<1>2. \A k \in 1 .. Size(j) : Size(j) - Size(j) + k = k
  BY <1>1
<1>3. QED
  BY <1>1, <1>2 DEF PoolOf, Rest

\* Using the next set.
LEMMA Pops ==
  ASSUME NEW j \in 0 .. Len(Deliveries), NEW left \in 1 .. Size(j), NEW n,
         Counted(j, left, n)
  PROVE  /\ Counted(j, left - 1, n + 1) /\ At(Rest(j, left)[1], n)
         /\ Rest(j, left)[1] \notin Used(j, left)
         /\ Rest(j, left)[1] \in Used(j, left - 1) /\ n \in Nat
<1> DEFINE s == Rest(j, left)[1]
<1>1. Size(j) \in Nat /\ left \in Nat /\ left >= 1 /\ left <= Size(j) /\ j \in Nat /\ j >= 1
  <2>1. Size(j) \in Nat
    BY DeliveriesFacts, j = 0 \/ j \in 1 .. Len(Deliveries)
  <2>2. QED
    BY <2>1, DeliveriesFacts
<1>2. /\ s \in PresigSet /\ s.batch = Deliveries[j] /\ s.index = Size(j) - left + 1
  <2>1. left \in 0 .. Size(j) /\ left > 0
    BY <1>1
  <2>2. s \in PresigSet /\ s = [batch |-> Deliveries[j], index |-> Size(j) - left + 1]
    BY <2>1, RestFacts
  <2>3. QED
    BY <2>2
<1> HIDE DEF s
<1>3. s \notin Used(j, left)
  <2>1. SUFFICES ASSUME NEW k \in 1 .. j, s.batch = Deliveries[k],
                        k = j => s.index + left <= Size(j)
                 PROVE  FALSE
    BY DEF Used
  <2>2. k = j
    <3>1. k \in 1 .. Len(Deliveries) /\ j \in 1 .. Len(Deliveries)
      BY <1>1, DeliveriesFacts
    <3>2. QED
      BY <3>1, <2>1, <1>2, DeliveriesFacts
  <2>3. QED
    BY <2>1, <2>2, <1>1, <1>2
<1>4. Used(j, left - 1) = Used(j, left) \cup {s}
  <2>1. ASSUME NEW t \in Used(j, left) PROVE t \in Used(j, left - 1)
    <3>1. PICK k \in 1 .. j : t.batch = Deliveries[k] /\ (k = j => t.index + left <= Size(j))
      BY DEF Used
    <3>2. t \in PresigSet /\ t.index \in Nat
      BY PresigFields DEF Used
    <3>3. k = j => t.index + (left - 1) <= Size(j)
      BY <3>1, <3>2, <1>1
    <3>4. QED
      BY <3>1, <3>2, <3>3 DEF Used
  <2>2. s \in Used(j, left - 1)
    BY <1>1, <1>2 DEF Used
  <2>3. ASSUME NEW t \in Used(j, left - 1), t # s PROVE t \in Used(j, left)
    <3>1. PICK k \in 1 .. j :
            t.batch = Deliveries[k] /\ (k = j => t.index + (left - 1) <= Size(j))
      BY DEF Used
    <3>2. t \in PresigSet /\ t.index \in Nat
      BY PresigFields DEF Used
    <3>3. k = j => t.index + left <= Size(j)
      <4>1. SUFFICES ASSUME k = j PROVE t.index + left <= Size(j)
        OBVIOUS
      <4>2. t.index # s.index
        BY <2>3, <3>1, <3>2, <4>1, <1>2, PresigExtensionality
      <4>3. QED
        BY <3>1, <3>2, <4>1, <4>2, <1>1, <1>2
    <3>4. QED
      BY <3>1, <3>2, <3>3 DEF Used
  <2>4. QED
    BY <2>1, <2>2, <2>3
<1>5. IsFiniteSet(Used(j, left)) /\ Cardinality(Used(j, left)) = n
  BY DEF Counted
<1>6. n \in Nat
  BY <1>5, FS_CardinalityType
<1>7. Counted(j, left - 1, n + 1)
  BY <1>3, <1>4, <1>5, FS_AddElement DEF Counted
<1>8. At(s, n)
  BY <1>1 DEF At, s
<1>9. QED
  BY <1>3, <1>4, <1>6, <1>7, <1>8 DEF s

\* Loading the next batch uses nothing.
LEMMA Loads ==
  ASSUME NEW j \in 0 .. Len(Deliveries) - 1, NEW n, Counted(j, 0, n)
  PROVE  Counted(j + 1, Size(j + 1), n)
<1>1. /\ j \in Nat /\ j + 1 \in 1 .. Len(Deliveries)
      /\ Size(j + 1) \in Nat /\ Size(j) \in Nat
  <2>1. Len(Deliveries) \in Nat
    BY DeliveriesFacts
  <2>2. j + 1 \in 1 .. Len(Deliveries) /\ (j = 0 \/ j \in 1 .. Len(Deliveries))
    BY <2>1
  <2>3. QED
    BY <2>2, DeliveriesFacts
<1>2. ASSUME NEW s \in PresigSet
      PROVE  s \in Used(j, 0) <=> s \in Used(j + 1, Size(j + 1))
  <2>1. s.index \in Nat /\ s.index \in 1 .. PoolSize[s.batch] /\ PoolSize[s.batch] \in Nat
    BY PresigFields
  <2>2. s.index + Size(j + 1) > Size(j + 1)
    BY <1>1, <2>1
  <2>3. ASSUME j > 0, s.batch = Deliveries[j] PROVE s.index + 0 <= Size(j)
    BY <1>1, <2>1, <2>3, DeliveriesFacts
  <2>4. 1 .. j + 1 = 1 .. j \cup {j + 1} /\ j + 1 \notin 1 .. j
    BY <1>1
  <2>5. s \in Used(j, 0) <=> \E k \in 1 .. j : s.batch = Deliveries[k]
    BY <2>3, <1>1 DEF Used
  <2>6. s \in Used(j + 1, Size(j + 1)) <=> \E k \in 1 .. j : s.batch = Deliveries[k]
    BY <2>2, <2>4, <1>1, <2>1 DEF Used
  <2>7. QED
    BY <2>5, <2>6
<1>3. Used(j, 0) = Used(j + 1, Size(j + 1))
  BY <1>2 DEF Used
<1>4. QED
  BY <1>3 DEF Counted

\* Before the first batch nothing was used.
LEMMA NothingUsed == Counted(0, 0, 0)
<1>1. Used(0, 0) = {}
  BY DEF Used
<1>2. QED
  BY <1>1, FS_EmptySet DEF Counted

\* Of two places in the order the later one has more before it.
LEMMA Earlier ==
  ASSUME NEW j \in 1 .. Len(Deliveries), NEW left \in 1 .. Size(j), NEW n,
         NEW k \in 1 .. Len(Deliveries), NEW more \in 1 .. Size(k), NEW m,
         Counted(j, left, n), Counted(k, more, m),
         j < k \/ (j = k /\ more < left)
  PROVE  n < m
<1>1. /\ Size(j) \in Nat /\ Size(k) \in Nat /\ left \in Nat /\ more \in Nat
      /\ j \in 0 .. Len(Deliveries)
  BY DeliveriesFacts
<1>2. /\ Counted(j, left - 1, n + 1) /\ n \in Nat
  BY <1>1, Pops
<1>3. Used(j, left - 1) \subseteq Used(k, more)
  <2>1. SUFFICES ASSUME NEW s \in Used(j, left - 1) PROVE s \in Used(k, more)
    OBVIOUS
  <2>2. PICK i \in 1 .. j :
          s.batch = Deliveries[i] /\ (i = j => s.index + (left - 1) <= Size(j))
    BY DEF Used
  <2>3. s \in PresigSet /\ s.index \in Nat
    BY PresigFields DEF Used
  <2>4. i \in 1 .. k
    BY DeliveriesFacts
  <2>5. i = k => s.index + more <= Size(k)
    BY <2>2, <2>3, <1>1, DeliveriesFacts
  <2>6. QED
    BY <2>2, <2>3, <2>4, <2>5 DEF Used
<1>4. Cardinality(Used(j, left - 1)) <= Cardinality(Used(k, more))
  BY <1>3, FS_Subset DEF Counted
<1>5. m \in Nat
  BY FS_CardinalityType DEF Counted
<1>6. QED
  BY <1>2, <1>4, <1>5 DEF Counted

\* The order has one set at every place.
LEMMA SamePlace ==
  ASSUME NEW s, NEW t, NEW n, At(s, n), At(t, n)
  PROVE  s = t
<1>1. PICK j \in 1 .. Len(Deliveries) : \E left \in 1 .. Size(j) :
        s = Rest(j, left)[1] /\ Counted(j, left, n)
  BY DEF At
<1>a. PICK left \in 1 .. Size(j) : s = Rest(j, left)[1] /\ Counted(j, left, n)
  BY <1>1
<1>2. PICK k \in 1 .. Len(Deliveries) : \E more \in 1 .. Size(k) :
        t = Rest(k, more)[1] /\ Counted(k, more, n)
  BY DEF At
<1>b. PICK more \in 1 .. Size(k) : t = Rest(k, more)[1] /\ Counted(k, more, n)
  BY <1>2
<1>3. n \in Nat
  BY <1>a, FS_CardinalityType DEF Counted
<1>4. ~(j < k) /\ ~(j = k /\ more < left)
  BY <1>a, <1>b, <1>3, Earlier
<1>5. ~(k < j) /\ ~(k = j /\ left < more)
  BY <1>a, <1>b, <1>3, Earlier
<1>6. j = k /\ left = more
  BY <1>4, <1>5, DeliveriesFacts
<1>7. QED
  BY <1>a, <1>b, <1>6

LEMMA FirstCounts ==
  ASSUME NEW j \in 0 .. Len(Deliveries)
  PROVE  IsFiniteSet(First(j)) /\ Cardinality(First(j)) = j
<1> DEFINE f == [k \in 1 .. j |-> Deliveries[k]]
<1>1. j \in Nat
  BY DeliveriesFacts
<1>2. f \in Surjection(1 .. j, First(j))
  BY DEF Surjection, First
<1>3. f \in Injection(1 .. j, First(j))
  <2>1. f \in [1 .. j -> First(j)]
    BY DEF First
  <2>2. \A a, b \in 1 .. j : f[a] = f[b] => a = b
    BY <1>1, DeliveriesFacts
  <2> HIDE DEF f
  <2>3. QED
    BY <2>1, <2>2, Zenon DEF Injection, IsInjective
<1>4. IsFiniteSet(1 .. j) /\ Cardinality(1 .. j) = j
  BY <1>1, FS_Interval
<1> HIDE DEF f
<1>5. QED
  BY <1>2, <1>3, <1>4, FS_Surjection

\* The operator brings the batch that comes after those loaded.
LEMMA NextBrought ==
  ASSUME NEW j \in 0 .. Len(Deliveries), NEW got, NEW b,
         Brought(got, None, j), NextDelivery(b, got)
  PROVE  Brought(got \cup {b}, b, j) /\ b # None
<1>1. got = First(j)
  <2>1. ASSUME j < Len(Deliveries) PROVE Deliveries[j + 1] # None
    BY <2>1, DeliveriesFacts
  <2>2. QED
    BY <2>1 DEF Brought
<1>2. Cardinality(got) = j
  BY <1>1, FirstCounts
<1>3. j < Len(Deliveries) /\ b = Deliveries[j + 1] /\ j \in Nat
  BY <1>2, DeliveriesFacts DEF NextDelivery
<1>4. First(j + 1) = First(j) \cup {Deliveries[j + 1]}
  <2>1. 1 .. j + 1 = 1 .. j \cup {j + 1}
    BY <1>3
  <2>2. QED
    BY <2>1 DEF First
<1>5. b # None
  BY <1>3, DeliveriesFacts
<1>6. QED
  BY <1>1, <1>3, <1>4, <1>5 DEF Brought

\* A file that is there is the next batch; one that was loaded is behind.
LEMMA LoadsBrought ==
  ASSUME NEW j \in 0 .. Len(Deliveries), NEW got, NEW file,
         Brought(got, file, j), file # None
  PROVE  /\ j < Len(Deliveries) /\ file = Deliveries[j + 1]
         /\ got = First(j + 1) /\ Brought(got, None, j + 1)
  BY DEF Brought

-----------------------------------------------------------------------------
(* The offline node takes its sets in the order of Deliveries *)

\* Both pool files are of the next batch, so loading them does not panic.
LEMMA LoadingStep ==
  ASSUME IInv, OfflineInv, OfflineStep, O!Loading
  PROVE  OfflineInv' /\ ~O!LoadPanics
<1>1. PICK j \in 0 .. Len(Deliveries) : OfflineAt(j)
  BY DEF OfflineInv
<1>2. offStray = FALSE
  BY DEF OfflineInv
<1>3. CASE O!ReadPools
  <2>1. /\ offPc = "read_pools" /\ offPc' = "presig"
        /\ offPresigs' = O!PoolOf(offPoolFile["presig"])
        /\ offPpds' = O!PoolOf(offPoolFile["ppd"])
        /\ UNCHANGED <<sigCounter, offPoolFile, offStray, offSupplied, offPartial, offPpd>>
    BY <1>3 DEF O!ReadPools, O!job, O!inputs, O!history
  <2>2. /\ offPresigs = <<>> /\ Counted(j, Len(offPresigs), sigCounter)
        /\ \A kind \in O!Kinds :
             /\ offPoolFile[kind] # None
             /\ Brought(OffReceived(kind), offPoolFile[kind], j)
    BY <1>1, <2>1 DEF OfflineAt, O!SignPcs, O!Kinds
  <2>3. /\ j < Len(Deliveries)
        /\ \A kind \in O!Kinds :
             offPoolFile[kind] = Deliveries[j + 1] /\ OffReceived(kind) = First(j + 1)
    BY <2>2, LoadsBrought DEF O!Kinds
  <2>4. /\ j + 1 \in 1 .. Len(Deliveries) /\ j + 1 \in 0 .. Len(Deliveries)
        /\ j \in 0 .. Len(Deliveries) - 1 /\ Size(j + 1) \in 0 .. Size(j + 1)
        /\ j + 1 > 0
    <3>1. j + 1 \in 1 .. Len(Deliveries) /\ j \in 0 .. Len(Deliveries) - 1
      BY <2>3, DeliveriesFacts
    <3>2. QED
      BY <3>1, DeliveriesFacts
  <2>5. offPresigs' = Rest(j + 1, Size(j + 1)) /\ offPpds' = offPresigs'
    <3>1. O!PoolOf(Deliveries[j + 1]) = Rest(j + 1, Size(j + 1))
      BY <2>4, FullRest DEF O!PoolOf, PoolOf
    <3>2. QED
      BY <2>1, <2>3, <3>1 DEF O!Kinds
  <2>6. Len(offPresigs') = Size(j + 1)
    BY <2>4, <2>5, RestType
  <2>7. Counted(j + 1, Size(j + 1), sigCounter)
    BY <2>2, <2>4, Loads
  <2>8. OfflineAt(j + 1)'
    BY <2>1, <2>3, <2>4, <2>5, <2>6, <2>7
       DEF OfflineAt, O!SignPcs, O!Kinds, OffReceived
  <2>9. QED
    BY <1>2, <1>3, <2>1, <2>4, <2>8 DEF OfflineInv, O!LoadPanics, O!ReadPools
<1>4. ASSUME NEW kind \in O!Kinds, O!RemovePoolFile(kind)
      PROVE  OfflineInv' /\ ~O!LoadPanics
  <2>1. /\ offPc = kind /\ offPc' = IF kind = "presig" THEN "ppd" ELSE "remove_dir"
        /\ offPoolFile' = [offPoolFile EXCEPT ![kind] = None]
        /\ UNCHANGED <<offPresigs, offPpds, sigCounter, offStray, offSupplied,
                       offPartial, offPpd>>
    BY <1>4 DEF O!RemovePoolFile, O!memory, O!pools, O!job, O!history
  <2>2. offPoolFile \in [O!Kinds -> Batches \cup {None}]
    BY DEF IInv, OP!IInv, OP!TypeOK, OP!Kinds, O!Kinds
  <2>3. Brought(OffReceived(kind), None, j)
    BY <1>1, <2>1 DEF OfflineAt, O!Kinds, Brought
  <2>4. \A k \in O!Kinds : offPoolFile'[k] = IF k = kind THEN None ELSE offPoolFile[k]
    BY <2>1, <2>2
  <2>5. OfflineAt(j)'
    BY <1>1, <2>1, <2>3, <2>4 DEF OfflineAt, O!SignPcs, O!Kinds, OffReceived
  <2>6. QED
    BY <1>2, <2>1, <2>5 DEF OfflineInv, O!LoadPanics, O!Kinds
<1>5. CASE O!RemoveDir
  <2>1. /\ offPc = "remove_dir" /\ offPc' = "serve" /\ O!Node0IsEmpty
        /\ UNCHANGED <<offPresigs, offPpds, sigCounter, offStray, offPoolFile,
                       offSupplied, offPartial, offPpd>>
    BY <1>5 DEF O!RemoveDir, O!memory, O!pools, O!job, O!inputs, O!history
  <2>2. OfflineAt(j)'
    BY <1>1, <2>1 DEF OfflineAt, O!SignPcs, O!Kinds, OffReceived
  <2>3. QED
    BY <1>2, <2>1, <2>2 DEF OfflineInv, O!LoadPanics
<1>6. ~O!LoadPanics
  <2>1. ASSUME offPc = "read_pools" PROVE O!PoolsReadable
    <3>1. \A kind \in O!Kinds :
            /\ offPoolFile[kind] # None
            /\ Brought(OffReceived(kind), offPoolFile[kind], j)
      BY <1>1, <2>1 DEF OfflineAt, O!Kinds
    <3>2. \A kind \in O!Kinds : offPoolFile[kind] = Deliveries[j + 1]
      BY <3>1, LoadsBrought
    <3>3. QED
      BY <3>1, <3>2 DEF O!PoolsReadable, O!Kinds
  <2>2. O!Node0IsEmpty
    BY <1>2 DEF O!Node0IsEmpty, SingleDir
  <2>3. QED
    BY <2>1, <2>2 DEF O!LoadPanics
<1>7. QED
  BY <1>3, <1>4, <1>5, <1>6 DEF O!Loading

\* The next of both pools is taken.
LEMMA SubmitStep ==
  ASSUME IInv, OfflineInv, SignOffline
  PROVE  /\ OfflineInv'
         /\ offPartial'.payload = offPayload[BtcPayload] /\ offPartial' \in Partial
<1>1. PICK j \in 0 .. Len(Deliveries) : OfflineAt(j)
  BY DEF OfflineInv
<1>2. /\ offPc = "serve" /\ offPc' = "write_partial" /\ offPresigs # <<>>
      /\ offPartial' = [set |-> Head(offPresigs), payload |-> offPayload[BtcPayload]]
      /\ offPpd' = Head(offPpds)
      /\ offPresigs' = Tail(offPresigs) /\ offPpds' = Tail(offPpds)
      /\ offPayload[BtcPayload] # None
      /\ UNCHANGED <<sigCounter, offPoolFile, offStray, offSupplied>>
  BY DEF SignOffline, O!SubmitPayload, O!IsEmpty, O!IssuePartialSignature, O!NextItem,
         O!AfterPop, O!PopPpd, O!inputs
<1>3. /\ offPresigs = Rest(j, Len(offPresigs)) /\ offPpds = offPresigs
      /\ Len(offPresigs) <= Size(j) /\ Counted(j, Len(offPresigs), sigCounter)
      /\ \A kind \in O!Kinds : Brought(OffReceived(kind), offPoolFile[kind], j)
  BY <1>1, <1>2 DEF OfflineAt, O!SignPcs, O!Kinds
<1> DEFINE left == Len(offPresigs)
<1>4. left \in 1 .. Size(j) /\ left \in 0 .. Size(j) /\ left - 1 \in 0 .. Size(j) /\ left > 0
  <2>1. OP!TypeOK
    BY DEF IInv, OP!IInv
  <2>2. offPresigs \in Seq(OP!PresigSet)
    BY <2>1 DEF OP!TypeOK
  <2>3. left \in Nat /\ left > 0
    BY <1>2, <2>2
  <2>4. Size(j) \in Nat
    BY DeliveriesFacts, j = 0 \/ j \in 1 .. Len(Deliveries)
  <2>5. QED
    BY <1>3, <2>3, <2>4
<1>5. /\ Counted(j, left - 1, sigCounter + 1) /\ At(Rest(j, left)[1], sigCounter)
  BY <1>3, <1>4, Pops
<1>6. /\ Head(Rest(j, left)) = Rest(j, left)[1]
      /\ Tail(Rest(j, left)) = Rest(j, left - 1)
      /\ Rest(j, left)[1] \in PresigSet
  BY <1>4, RestFacts
<1>7. Len(Rest(j, left - 1)) = left - 1
  BY <1>4, RestType
<1>8. /\ offPresigs' = Rest(j, left - 1) /\ offPpds' = offPresigs'
      /\ Len(offPresigs') = left - 1
      /\ offPartial'.set = offPpd' /\ At(offPpd', sigCounter')
  BY <1>2, <1>3, <1>5, <1>6, <1>7
<1>9. left - 1 <= Size(j)
  BY <1>4
<1> HIDE DEF left
<1>10. OfflineAt(j)'
  BY <1>2, <1>3, <1>5, <1>8, <1>9 DEF OfflineAt, O!SignPcs, O!Kinds, OffReceived
<1>11. offPartial' \in Partial
  <2>1. offPayload \in [Names -> Payloads \cup {None}]
    BY DEF IInv, OP!IInv, OP!TypeOK
  <2>2. offPayload[BtcPayload] \in Payloads
    BY <1>2, <2>1 DEF Names
  <2>3. Head(offPresigs) \in PresigSet
    BY <1>3, <1>6 DEF left
  <2>4. QED
    BY <1>2, <2>2, <2>3 DEF Partial
<1>12. QED
  BY <1>2, <1>10, <1>11 DEF OfflineInv

\* The offline node keeps to the order, over reloads.
LEMMA OfflineInvStep ==
  ASSUME careful, IInv, OfflineInv, [Next]_vars
  PROVE  OfflineInv'
<1>1. PICK j \in 0 .. Len(Deliveries) : OfflineAt(j)
  BY DEF OfflineInv
<1>2. offStray = FALSE
  BY DEF OfflineInv
<1>3. CASE UNCHANGED offVars
  <2>1. UNCHANGED <<offPc, offPresigs, offPpds, sigCounter, offStray, offPoolFile,
                    offSupplied, offPartial, offPpd>>
    BY <1>3
  <2>2. OfflineAt(j)'
    BY <1>1, <2>1 DEF OfflineAt, OffReceived
  <2>3. QED
    BY <1>2, <2>1, <2>2 DEF OfflineInv
<1>4. CASE OfflineStep /\ (O!WritePartial \/ O!WritePpd)
  <2>1. /\ offPc \in O!SignPcs /\ offPc' \in O!SignPcs
        /\ UNCHANGED <<offPresigs, offPpds, sigCounter, offStray, offPoolFile,
                       offSupplied, offPartial, offPpd>>
    BY <1>4 DEF O!WritePartial, O!WritePpd, O!SignPcs, O!memory, O!pools, O!job,
                O!inputs, O!history
  <2>2. OfflineAt(j)'
    BY <1>1, <2>1 DEF OfflineAt, O!SignPcs, OffReceived
  <2>3. QED
    BY <1>2, <2>1, <2>2 DEF OfflineInv
<1>5. CASE OfflineStep /\ O!DeletePayload
  <2>1. /\ offPc = "delete_payload" /\ offPc' = "serve" /\ sigCounter' = sigCounter + 1
        /\ UNCHANGED <<offPresigs, offPpds, offStray, offPoolFile, offSupplied>>
    BY <1>5 DEF O!DeletePayload, O!pools, O!history
  <2>2. OfflineAt(j)'
    BY <1>1, <2>1 DEF OfflineAt, O!SignPcs, OffReceived
  <2>3. QED
    BY <1>2, <2>1, <2>2 DEF OfflineInv
<1>6. ASSUME NEW kind \in O!Kinds, SupplyOffline(kind) PROVE OfflineInv'
  <2>1. PICK b \in Batches :
          /\ NextDelivery(b, OffReceived(kind)) /\ O!SupplyPool(kind, b)
    BY <1>6 DEF SupplyOffline, OffReceived
  <2>2. /\ offPc \in {"serve", "down"} /\ offPoolFile[kind] = None
        /\ offPoolFile' = [offPoolFile EXCEPT ![kind] = b]
        /\ offSupplied' = offSupplied \cup {<<kind, b>>}
        /\ UNCHANGED <<offPc, offPresigs, offPpds, sigCounter, offStray, offPartial, offPpd>>
    BY <1>6, <2>1 DEF SupplyOffline, O!SupplyPool, O!Operator, O!memory, O!pools, O!job
  <2>3. offPoolFile \in [O!Kinds -> Batches \cup {None}]
    BY DEF IInv, OP!IInv, OP!TypeOK, OP!Kinds, O!Kinds
  <2>4. \A k \in O!Kinds : Brought(OffReceived(k), offPoolFile[k], j)
    BY <1>1, <2>2 DEF OfflineAt, O!Kinds
  <2>5. Brought(OffReceived(kind) \cup {b}, b, j) /\ b # None
    BY <2>1, <2>2, <2>4, NextBrought
  <2>6. \A k \in O!Kinds :
          /\ offPoolFile'[k] = IF k = kind THEN b ELSE offPoolFile[k]
          /\ OffReceived(k)' = IF k = kind THEN OffReceived(k) \cup {b} ELSE OffReceived(k)
    BY <2>2, <2>3 DEF OffReceived
  <2>7. \A k \in O!Kinds : Brought(OffReceived(k)', offPoolFile'[k], j)
    BY <2>4, <2>5, <2>6
  <2>8. OfflineAt(j)'
    BY <1>1, <2>2, <2>7 DEF OfflineAt, O!SignPcs, O!Kinds, Brought
  <2>9. QED
    BY <1>2, <2>2, <2>8 DEF OfflineInv
<1>7. CASE StartOrReloadOffline
  <2>1. /\ offPc \in {"down", "serve"} /\ offPc' = "read_pools"
        /\ offPc = "serve" => offPresigs = <<>>
        /\ \A kind \in O!Kinds : offPoolFile[kind] # None
        /\ UNCHANGED <<offPresigs, offPpds, sigCounter, offStray, offPoolFile,
                       offSupplied, offPartial, offPpd>>
    BY <1>7 DEF StartOrReloadOffline, O!Start, O!PressEnterReload, O!IsEmpty,
                O!memory, O!pools, O!job, O!inputs, O!history
  <2>2. OfflineAt(j)'
    BY <1>1, <2>1 DEF OfflineAt, O!SignPcs, O!Kinds, OffReceived
  <2>3. QED
    BY <1>2, <2>1, <2>2 DEF OfflineInv
<1>8. CASE CopyPayload \/ \E c \in O!Counters : TakeOutput(c)
  <2>1. UNCHANGED <<offPc, offPresigs, offPpds, sigCounter, offStray, offPoolFile,
                    offSupplied, offPartial, offPpd>>
    BY <1>8 DEF CopyPayload, TakeOutput, O!PutPayload, O!CollectOutput, O!Operator,
                O!memory, O!pools, O!job, O!inputs
  <2>2. OfflineAt(j)'
    BY <1>1, <2>1 DEF OfflineAt, OffReceived
  <2>3. QED
    BY <1>2, <2>1, <2>2 DEF OfflineInv
<1>9. ~CrashOffline
  BY DEF careful, CrashOffline
<1>10. \/ UNCHANGED offVars \/ OfflineStep \/ StartOrReloadOffline \/ CopyPayload
       \/ SignOffline \/ \E kind \in O!Kinds : SupplyOffline(kind)
       \/ \E c \in O!Counters : TakeOutput(c)
  BY <1>9 DEF Next, CoordinatorStep, NodeStep, ClientStep, OperatorStep, SupplyNode,
         StartCoordinator, ReloadNodes, StartClient, EnterPayload, BringPartial,
         BringPpd, LoadOutput, EnterSignatureName, CrashCoordinator, vars
<1>11. QED
  BY <1>3, <1>4, <1>5, <1>6, <1>7, <1>8, <1>10, LoadingStep, SubmitStep DEF OfflineStep

-----------------------------------------------------------------------------
(* The online nodes take theirs in the same order *)

\* What the coordinator's invariant says, in the names of this module.
LEMMA CoordFacts ==
  ASSUME IInv
  PROVE  /\ cursor \in 1 .. N - 1 /\ 1 \in 1 .. N - 1 /\ N \in Nat
         /\ remaining \in Nat /\ round \in Nat /\ round \in 0 .. MaxRound
         /\ poolSizes \in Seq(Nat)
         /\ partials \in Seq(Partial)
         /\ presigPool \in [1 .. N - 1 -> Seq(PresigSet)]
         /\ poolFile \in [1 .. N - 1 -> Batches \cup {None}]
         /\ pc \notin {"init_wait", "sign_wait"} => reply = C!NoReply
         /\ InInit /\ failedNodes = {} => Len(poolSizes) = cursor - 1
         /\ InSign \/ pc = "offline_wait" => payload \in Payloads /\ round < MaxRound
         /\ InSign =>
              IF remaining = 0 THEN reply = C!NoReply \/ reply = C!ErrReply
                               ELSE signErrors = {} /\ reply # C!ErrReply
         /\ pc = "offline_wait" => remaining > 0
         /\ InSign \/ pc = "offline_wait" => \A i \in 1 .. N - 1 : i \in initialized
<1>1. /\ CP!TypeOK /\ CP!RequestReply /\ CP!InitPassInv /\ CP!SignPassInv
      /\ CP!PoolsInLockstep
  BY DEF IInv, CP!IInv
<1>2. N \in Nat /\ N >= 2 /\ MaxRound \in Nat
  BY IronSignAssumption, Assumptions DEF CP!CoordAssumption
<1>3. /\ cursor \in 1 .. N - 1 /\ remaining \in Nat /\ round \in 0 .. MaxRound
      /\ poolSizes \in Seq(Nat) /\ partials \in Seq(Partial)
      /\ presigPool \in [1 .. N - 1 -> Seq(PresigSet)]
      /\ poolFile \in [1 .. N - 1 -> Batches \cup {None}]
  BY <1>1, SameNames DEF CP!TypeOK
<1>4. 1 \in 1 .. N - 1 /\ round \in Nat
  BY <1>2, <1>3
<1>5. pc \notin {"init_wait", "sign_wait"} => reply = C!NoReply
  BY <1>1 DEF CP!RequestReply, CP!Idle, CP!NoReply, C!NoReply
<1>6. InInit /\ failedNodes = {} => Len(poolSizes) = cursor - 1
  BY <1>1 DEF CP!InitPassInv, InInit
<1>7. /\ InSign \/ pc = "offline_wait" => payload \in Payloads /\ round < MaxRound
      /\ InSign \/ pc = "offline_wait" => \A i \in 1 .. N - 1 : i \in initialized
      /\ InSign =>
           IF remaining = 0 THEN reply = C!NoReply \/ reply = C!ErrReply
                            ELSE signErrors = {} /\ reply # C!ErrReply
  BY <1>1, SameNames
     DEF CP!SignPassInv, InSign, CP!SignPcs, CP!NoReply, C!NoReply, CP!ErrReply, C!ErrReply
<1>8. pc = "offline_wait" => remaining > 0
  <2>1. pc = "offline_wait" => Len(presigPool[1]) + 1 = remaining
    BY <1>1, <1>4, SameNames DEF CP!PoolsInLockstep
  <2>2. presigPool[1] \in Seq(PresigSet)
    BY <1>3, <1>4
  <2>3. QED
    BY <2>1, <2>2, <1>3
<1>9. QED
  BY <1>2, <1>3, <1>4, <1>5, <1>6, <1>7, <1>8

\* The three programs and the operator take turns.
LEMMA OnlineStutter ==
  ASSUME OnlineInv,
         UNCHANGED <<pc, cursor, poolSizes, failedNodes, remaining, round, payload,
                     partials, reply, presigPool, poolFile, stray, supplied, started>>
  PROVE  OnlineInv'
<1>1. PICK j \in 0 .. Len(Deliveries) : OnlineAt(j)
  BY DEF OnlineInv
<1>2. /\ InInit' = InInit /\ InSign' = InSign
      /\ \A i : Passed(i)' = Passed(i) /\ Received(i)' = Received(i)
  BY DEF InInit, InSign, Passed, Received
<1>3. \A i, k, left : Holds(i, k, left)' = Holds(i, k, left)
  BY <1>2 DEF Holds
<1>4. NodesInInit(j)' = NodesInInit(j) /\ NodesInLoop(j)' = NodesInLoop(j)
  BY <1>2, <1>3 DEF NodesInInit, NodesInLoop
<1>5. OnlineAt(j)'
  BY <1>1, <1>2, <1>4 DEF OnlineAt
<1>6. QED
  BY <1>5 DEF OnlineInv

\* The operator starts the coordinator with the first batch in place.
LEMMA StartStep ==
  ASSUME IInv, OnlineInv, StartCoordinator
  PROVE  OnlineInv'
<1>1. PICK j \in 0 .. Len(Deliveries) : OnlineAt(j)
  BY DEF OnlineInv
<1>2. /\ ~started /\ started' = TRUE /\ \A i \in C!Online : poolFile[i] # None
      /\ UNCHANGED <<pc, cursor, poolSizes, failedNodes, remaining, round, payload,
                     partials, reply, presigPool, poolFile, stray, supplied>>
  BY DEF StartCoordinator
<1>3. InInit /\ NodesInInit(j)
  BY <1>1, <1>2 DEF OnlineAt, NodesInLoop
<1>4. j = 0 /\ pc = "init_send" /\ cursor = 1
  BY <1>2, <1>3 DEF NodesInInit
<1>5. \A i \in C!Online : ~Passed(i) /\ Holds(i, j, 0)
  BY <1>3, <1>4, SameNames DEF NodesInInit, Passed
<1>6. j < Len(Deliveries)
  <2>1. 1 \in C!Online
    BY CoordFacts, SameNames
  <2>2. Brought(Received(1), poolFile[1], j) /\ poolFile[1] # None
    BY <2>1, <1>2, <1>5 DEF Holds
  <2>3. QED
    BY <2>2, LoadsBrought
<1>7. \A i \in C!Online : ~Passed(i)' /\ Holds(i, j, 0)'
  BY <1>2, <1>5 DEF Passed, Holds, Received
<1>8. NodesInInit(j)'
  BY <1>2, <1>3, <1>6, <1>7 DEF NodesInInit
<1>9. OnlineAt(j)' /\ stray' = {}
  BY <1>1, <1>2, <1>3, <1>8 DEF OnlineAt, InInit, OnlineInv
<1>10. QED
  BY <1>9 DEF OnlineInv

\* A command is sent: who has been asked stays the same.
LEMMA SendStep ==
  ASSUME IInv, OnlineInv, CoordinatorStep, C!SendInit \/ C!SendSign
  PROVE  OnlineInv'
<1>1. PICK j \in 0 .. Len(Deliveries) : OnlineAt(j)
  BY DEF OnlineInv
<1>2. /\ started' = started /\ started
      /\ \/ pc = "init_send" /\ pc' = "init_wait"
         \/ pc = "sign_send" /\ pc' = "sign_wait"
      /\ UNCHANGED <<cursor, poolSizes, failedNodes, remaining, round, payload,
                     partials, reply, presigPool, poolFile, stray, supplied>>
  BY DEF CoordinatorStep, C!SendInit, C!SendSign, C!mainVars, C!passVars, C!initVars,
         C!signVars, C!nodeVars, C!fileVars, C!history
<1>3. reply = C!NoReply
  BY <1>2, CoordFacts
<1>4. /\ InInit' = InInit /\ InSign' = InSign
      /\ \A i : Passed(i)' = Passed(i) /\ Received(i)' = Received(i)
  BY <1>2, <1>3 DEF InInit, InSign, Passed, Received, C!NoReply
<1>5. \A i, k, left : Holds(i, k, left)' = Holds(i, k, left)
  BY <1>2, <1>4 DEF Holds
<1>6. InInit => NodesInInit(j)'
  BY <1>1, <1>2, <1>4, <1>5 DEF OnlineAt, NodesInInit
<1>7. ~InInit => NodesInLoop(j)'
  BY <1>1, <1>2, <1>4, <1>5 DEF OnlineAt, NodesInLoop
<1>8. OnlineAt(j)'
  BY <1>1, <1>2, <1>4, <1>6, <1>7 DEF OnlineAt
<1>9. QED
  BY <1>2, <1>8 DEF OnlineInv

\* Equal items, and one more of them.
LEMMA AllAppended ==
  ASSUME NEW S, NEW q \in Seq(S), NEW s \in S, \A k \in DOMAIN q : q[k] = s
  PROVE  /\ DOMAIN Append(q, s) = 1 .. Len(q) + 1
         /\ \A k \in 1 .. Len(q) + 1 : Append(q, s)[k] = s
OBVIOUS

LEMMA EmptyMailbox == \A command : <<command>> # <<>>
OBVIOUS

\* What the coordinator finds in a handled command (ReplyKinds of CoordRuntime_proofs).
LEMMA ReplyKinds ==
  ASSUME IInv
  PROVE  /\ C!RecvInit => reply # C!NoReply /\ (reply.tag = "size" <=> reply # C!ErrReply)
         /\ C!RecvSign => /\ reply = C!ErrReply \/ reply \in [tag : {"partial"}, sig : Partial]
                          /\ reply # C!NoReply
                          /\ reply.tag = "partial" <=> reply # C!ErrReply
<1>1. CP!RequestReply
  BY DEF IInv, CP!IInv
<1>2. /\ C!RecvInit => pc = "init_wait" /\ mailbox[cursor] = <<>>
      /\ C!RecvSign => pc = "sign_wait" /\ mailbox[cursor] = <<>>
  BY DEF C!RecvInit, C!RecvSign, C!CommandHandled
<1>3. /\ C!ErrReply.tag = "err" /\ C!NoReply.tag = "none"
      /\ CP!ErrReply = C!ErrReply /\ CP!NoReply = C!NoReply
  BY DEF C!ErrReply, C!NoReply, CP!ErrReply, CP!NoReply
<1>4. /\ C!RecvInit => reply \in {C!ErrReply} \cup [tag : {"size"}, size : Nat]
      /\ C!RecvSign => reply \in {C!ErrReply} \cup [tag : {"partial"}, sig : Partial]
  <2>1. CASE C!RecvInit
    <3>1. reply \in {CP!ErrReply} \cup [tag : {"size"}, size : Nat]
      BY <1>1, <1>2, <2>1, EmptyMailbox DEF CP!RequestReply, CP!InFlight
    <3>2. ~C!RecvSign
      BY <1>2, <2>1
    <3>3. QED
      BY <1>3, <3>1, <3>2
  <2>2. CASE C!RecvSign
    <3>1. reply \in {CP!ErrReply} \cup [tag : {"partial"}, sig : CP!Partial]
      BY <1>1, <1>2, <2>2, EmptyMailbox DEF CP!RequestReply, CP!InFlight
    <3>2. ~C!RecvInit
      BY <1>2, <2>2
    <3>3. QED
      BY <1>3, <3>1, <3>2, SameNames
  <2>3. QED
    BY <2>1, <2>2
<1>5. \A x : /\ x \in [tag : {"size"}, size : Nat] => x.tag = "size"
             /\ x \in [tag : {"partial"}, sig : Partial] => x.tag = "partial"
  OBVIOUS
<1>6. QED
  BY <1>3, <1>4, <1>5

\* The last answer of a pass ends it: all pools have the size of the batch.
LEMMA RecvInitStep ==
  ASSUME IInv, OnlineInv, CoordinatorStep, C!RecvInit
  PROVE  OnlineInv'
<1>1. PICK j \in 0 .. Len(Deliveries) : OnlineAt(j)
  BY DEF OnlineInv
<1>2. /\ started /\ started' = started /\ pc = "init_wait" /\ reply # C!NoReply
      /\ reply' = C!NoReply
      /\ UNCHANGED <<round, payload, partials, presigPool, poolFile, stray, supplied>>
  BY ReplyKinds DEF CoordinatorStep, C!RecvInit, C!signVars, C!nodeVars, C!fileVars, C!history
<1>3. InInit /\ NodesInInit(j) /\ ~InSign
  BY <1>1, <1>2 DEF OnlineAt, InInit, InSign
<1>4. /\ remaining = 0 /\ failedNodes = {} /\ j < Len(Deliveries)
      /\ reply = C!SizeReply(Size(j + 1))
      /\ \A k \in DOMAIN poolSizes : poolSizes[k] = Size(j + 1)
  BY <1>2, <1>3 DEF NodesInInit
<1>5. poolSizes' = Append(poolSizes, Size(j + 1)) /\ failedNodes' = {}
  BY <1>4 DEF C!RecvInit, C!SizeReply
<1>6. /\ cursor \in 1 .. N - 1 /\ N \in Nat /\ poolSizes \in Seq(Nat)
      /\ Len(poolSizes) = cursor - 1 /\ C!Online = 1 .. N - 1
  BY <1>3, <1>4, CoordFacts, SameNames
<1>7. j + 1 \in 1 .. Len(Deliveries) /\ j \in 0 .. Len(Deliveries) - 1 /\ Size(j + 1) \in Nat
      /\ j + 1 \in 0 .. Len(Deliveries)
  <2>1. j + 1 \in 1 .. Len(Deliveries) /\ j \in 0 .. Len(Deliveries) - 1
        /\ j + 1 \in 0 .. Len(Deliveries)
    BY <1>4, DeliveriesFacts
  <2>2. QED
    BY <2>1, DeliveriesFacts
<1>8. DOMAIN poolSizes' = 1 .. cursor /\ \A k \in 1 .. cursor : poolSizes'[k] = Size(j + 1)
  <2>1. Len(poolSizes) + 1 = cursor
    BY <1>6
  <2>2. /\ poolSizes \in Seq(Nat) /\ Size(j + 1) \in Nat
        /\ \A k \in DOMAIN poolSizes : poolSizes[k] = Size(j + 1)
    BY <1>4, <1>6, <1>7
  <2>3. /\ DOMAIN Append(poolSizes, Size(j + 1)) = 1 .. Len(poolSizes) + 1
        /\ \A k \in 1 .. Len(poolSizes) + 1 : Append(poolSizes, Size(j + 1))[k] = Size(j + 1)
    BY <2>2, AllAppended
  <2>4. QED
    BY <1>5, <2>1, <2>3
<1>9. \A i \in C!Online : Passed(i) <=> i <= cursor
  <2>1. TAKE i \in C!Online
  <2>2. i \in Nat /\ cursor \in Nat
    BY <1>6
  <2>3. Passed(i) <=> i < cursor \/ i = cursor
    BY <1>2 DEF Passed
  <2>4. QED
    BY <2>2, <2>3
<1>10. \A i, k, left : Holds(i, k, left)' = Holds(i, k, left)
  BY <1>2 DEF Holds, Received
<1>11. CASE cursor < N - 1
  <2>1. cursor' = cursor + 1 /\ pc' = "init_send" /\ UNCHANGED remaining
    BY <1>11 DEF C!RecvInit
  <2>2. \A i \in C!Online : Passed(i)' <=> Passed(i)
    <3>1. TAKE i \in C!Online
    <3>2. Passed(i)' <=> i < cursor + 1
      BY <1>2, <1>6, <2>1 DEF Passed, C!NoReply
    <3>3. QED
      BY <1>6, <1>9, <3>2
  <2>3. /\ \A i \in C!Online : poolFile'[i] = poolFile[i]
        /\ \A k \in DOMAIN poolSizes' : poolSizes'[k] = Size(j + 1)
    BY <1>2, <1>8
  <2>4. NodesInInit(j)'
    BY <1>2, <1>3, <1>4, <1>5, <1>10, <2>1, <2>2, <2>3 DEF NodesInInit
  <2>5. InInit'
    BY <2>1 DEF InInit
  <2>6. OnlineAt(j)'
    BY <1>1, <1>2, <2>1, <2>4, <2>5 DEF OnlineAt
  <2>7. QED
    BY <1>2, <2>6 DEF OnlineInv
<1>12. CASE ~(cursor < N - 1)
  <2>1. C!InitPassEnds(poolSizes', failedNodes') /\ UNCHANGED cursor
    BY <1>12 DEF C!RecvInit
  <2>2. cursor = N - 1 /\ 1 \in 1 .. cursor
    BY <1>6, <1>12
  <2>3. ~C!PassRejected(poolSizes', failedNodes') /\ poolSizes'[1] = Size(j + 1)
    BY <1>5, <1>8, <2>2 DEF C!PassRejected
  <2>4. /\ remaining' = Size(j + 1)
        /\ pc' \in {"reload_prompt", "payload_prompt"}
        /\ pc' = "reload_prompt" => remaining' = 0
    BY <2>1, <2>3 DEF C!InitPassEnds, C!LoopTop
  <2>5. \A i \in C!Online : Holds(i, j + 1, Size(j + 1))'
    <3>1. \A i \in C!Online : Passed(i)
      BY <1>6, <1>9, <2>2
    <3>2. QED
      BY <1>3, <1>10, <2>4, <3>1 DEF NodesInInit
  <2>6. ~InInit' /\ ~InSign' /\ pc' # "offline_wait" /\ pc' # "retry_sleep"
    BY <2>4 DEF InInit, InSign
  <2>7. NodesInLoop(j + 1)'
    BY <1>2, <2>4, <2>5, <2>6 DEF NodesInLoop
  <2>8. Counted(j + 1, remaining', round') /\ remaining' <= Size(j + 1)
    <3>1. Counted(j, 0, round)
      BY <1>1, <1>4 DEF OnlineAt
    <3>2. Counted(j + 1, Size(j + 1), round)
      BY <3>1, <1>7, Loads
    <3>3. QED
      BY <1>2, <1>7, <2>4, <3>2
  <2>9. OnlineAt(j + 1)'
    BY <2>6, <2>7, <2>8 DEF OnlineAt
  <2>10. QED
    BY <1>2, <1>7, <2>9 DEF OnlineInv
<1>13. QED
  BY <1>11, <1>12

\* Items of one kind, and one more of it.
LEMMA AllWithAppended ==
  ASSUME NEW S, NEW q \in Seq(S), NEW s \in S, NEW T, s \in T, \A k \in DOMAIN q : q[k] \in T
  PROVE  \A k \in DOMAIN Append(q, s) : Append(q, s)[k] \in T
OBVIOUS

\* A pass that found all pools empty asks for a reload, one that has all partial
\* signatures waits for the offline node.
LEMMA RecvSignStep ==
  ASSUME IInv, OnlineInv, CoordinatorStep, C!RecvSign
  PROVE  OnlineInv'
<1>1. PICK j \in 0 .. Len(Deliveries) : OnlineAt(j)
  BY DEF OnlineInv
<1>2. /\ started /\ started' = started /\ pc = "sign_wait" /\ reply # C!NoReply
      /\ reply' = C!NoReply
      /\ UNCHANGED <<round, payload, presigPool, poolFile, stray, supplied>>
  BY ReplyKinds DEF CoordinatorStep, C!RecvSign, C!initVars, C!nodeVars, C!fileVars, C!history
<1>3. InSign /\ ~InInit /\ NodesInLoop(j)
  BY <1>1, <1>2 DEF OnlineAt, InInit, InSign
<1>4. /\ cursor \in 1 .. N - 1 /\ N \in Nat /\ C!Online = 1 .. N - 1
      /\ remaining \in Nat
      /\ IF remaining = 0 THEN reply = C!ErrReply
                          ELSE signErrors = {} /\ reply # C!ErrReply
  BY <1>2, <1>3, CoordFacts, SameNames
<1>5. \A i \in C!Online : Passed(i) <=> i <= cursor
  <2>1. TAKE i \in C!Online
  <2>2. i \in Nat /\ cursor \in Nat
    BY <1>4
  <2>3. Passed(i) <=> i < cursor \/ i = cursor
    BY <1>2 DEF Passed
  <2>4. QED
    BY <2>2, <2>3
<1>6. \A i, k, left : Holds(i, k, left)' = Holds(i, k, left)
  BY <1>2 DEF Holds, Received
<1>7. reply'.tag # "partial"
  BY <1>2 DEF C!NoReply
<1>8. remaining <= Size(j) /\ Counted(j, remaining, round)
  BY <1>1 DEF OnlineAt
<1>9. CASE remaining = 0
  <2>1. /\ reply = C!ErrReply /\ UNCHANGED partials
        /\ signErrors' = signErrors \cup {cursor}
    BY <1>4, <1>9, ReplyKinds DEF C!RecvSign
  <2>2. \A i \in C!Online : Holds(i, j, 0)
    BY <1>3, <1>9 DEF NodesInLoop
  <2>3. remaining' = 0 /\ pc' \in {"sign_send", "reload_prompt"}
    <3>1. CASE cursor < N - 1
      BY <1>9, <3>1 DEF C!RecvSign
    <3>2. CASE ~(cursor < N - 1)
      BY <2>1, <3>2 DEF C!RecvSign, C!SignPassEnds, C!LoopTop
    <3>3. QED
      BY <3>1, <3>2
  <2>4. NodesInLoop(j)'
    BY <1>2, <1>3, <1>6, <1>7, <2>1, <2>2, <2>3 DEF NodesInLoop, InSign
  <2>5. OnlineAt(j)'
    BY <1>2, <1>8, <1>9, <2>3, <2>4 DEF OnlineAt, InInit
  <2>6. QED
    BY <1>2, <2>5 DEF OnlineInv
<1>10. CASE remaining # 0
  <2>1. /\ partials' = Append(partials, reply.sig) /\ signErrors' = {} /\ remaining > 0
    BY <1>4, <1>10, ReplyKinds DEF C!RecvSign
  <2>2. reply \in [tag : {"partial"}, sig : Partial]
    BY <1>4, <1>10, ReplyKinds
  <2>3. reply.tag = "partial" /\ reply.sig \in Partial
    BY <2>2
  <2> DEFINE T == {sig \in Partial : sig.payload = payload /\ At(sig.set, round)}
  <2>4. reply.sig \in T /\ \A k \in DOMAIN partials : partials[k] \in T
    <3>1. partials \in Seq(Partial)
      BY CoordFacts
    <3>2. \A k \in DOMAIN partials : partials[k] \in Partial
      BY <3>1
    <3>3. QED
      BY <1>3, <2>3, <3>2 DEF NodesInLoop
  <2>5. \A k \in DOMAIN partials' : partials'[k] \in T
    <3>1. partials \in Seq(Partial)
      BY CoordFacts
    <3> HIDE DEF T
    <3>2. QED
      BY <2>1, <2>3, <2>4, <3>1, AllWithAppended
  <2>6. \A k \in DOMAIN partials' :
          partials'[k].payload = payload' /\ At(partials'[k].set, round')
    BY <1>2, <2>5
  <2>7. \A i \in C!Online :
          Holds(i, j, IF Passed(i) THEN remaining - 1 ELSE remaining)
    <3>1. TAKE i \in C!Online
    <3>2. (remaining > 0 /\ (pc = "offline_wait" \/ (InSign /\ Passed(i)))) <=> Passed(i)
      BY <1>2, <1>3, <2>1
    <3>3. QED
      BY <1>3, <3>2 DEF NodesInLoop
  <2>8. CASE cursor < N - 1
    <3>1. cursor' = cursor + 1 /\ pc' = "sign_send" /\ UNCHANGED remaining
      BY <2>8 DEF C!RecvSign
    <3>2. \A i \in C!Online : Passed(i)' <=> Passed(i)
      <4>1. TAKE i \in C!Online
      <4>2. Passed(i)' <=> i < cursor + 1
        BY <1>2, <1>4, <3>1 DEF Passed, C!NoReply
      <4>3. QED
        BY <1>4, <1>5, <4>2
    <3>3. NodesInLoop(j)'
      BY <1>2, <1>6, <1>7, <2>1, <2>6, <2>7, <3>1, <3>2 DEF NodesInLoop, InSign
    <3>4. OnlineAt(j)'
      BY <1>2, <1>8, <3>1, <3>3 DEF OnlineAt, InInit
    <3>5. QED
      BY <1>2, <3>4 DEF OnlineInv
  <2>9. CASE ~(cursor < N - 1)
    <3>1. pc' = "offline_wait" /\ UNCHANGED remaining
      BY <2>1, <2>9 DEF C!RecvSign, C!SignPassEnds
    <3>2. \A i \in C!Online : Holds(i, j, remaining - 1)
      <4>1. \A i \in C!Online : i <= cursor
        BY <1>4, <2>9
      <4>2. QED
        BY <1>5, <2>7, <4>1
    <3>3. NodesInLoop(j)'
      BY <1>2, <1>6, <1>7, <2>1, <2>6, <3>1, <3>2 DEF NodesInLoop, InSign
    <3>4. OnlineAt(j)'
      BY <1>2, <1>8, <3>1, <3>3 DEF OnlineAt, InInit
    <3>5. QED
      BY <1>2, <3>4 DEF OnlineInv
  <2>10. QED
    BY <2>8, <2>9
<1>11. QED
  BY <1>9, <1>10

\* The names of the coordinator's module and of its proofs mean the same.
LEMMA SameNode ==
  ASSUME NEW i \in C!Online, NodeStep(i)
  PROVE  CP!Node(i) /\ i \in CP!Online /\ (C!NodeSigns(i) => CP!NodeSigns(i))
BY SameNames
   DEF NodeStep, C!Node, CP!Node, C!NodeInitMissing, CP!NodeInitMissing,
       C!NodeInitDirNotEmpty, CP!NodeInitDirNotEmpty, C!NodeInitLoads, CP!NodeInitLoads,
       C!NodeSignRefuses, CP!NodeSignRefuses, C!NodeSigns, CP!NodeSigns,
       C!TakesCommand, CP!TakesCommand, C!Answer, CP!Answer, C!ErrReply, CP!ErrReply,
       C!SizeReply, CP!SizeReply, C!SignReply, CP!SignReply, C!RemovePoolFile,
       CP!RemovePoolFile, C!PoolOf, CP!PoolOf, C!IsEmpty, CP!IsEmpty, C!NextItem,
       CP!NextItem, C!AfterPop, CP!AfterPop, C!IssuePartialSignature,
       CP!IssuePartialSignature, C!mainVars, CP!mainVars, C!passVars, CP!passVars,
       C!initVars, CP!initVars, C!signVars, CP!signVars, C!nodeVars, CP!nodeVars,
       C!fileVars, CP!fileVars, C!history, CP!history

\* Which command a node handles, and what it leaves alone.
LEMMA NodeFacts ==
  ASSUME IInv, NEW i \in C!Online, NodeStep(i)
  PROVE  /\ i = cursor /\ reply = C!NoReply
         /\ pc \in {"init_wait", "sign_wait"}
         /\ \A cmd : C!TakesCommand(i, cmd) =>
              cmd = IF pc = "init_wait" THEN "Init" ELSE "Sign"
         /\ UNCHANGED <<pc, cursor, poolSizes, failedNodes, remaining, round, payload,
                        partials, stray, supplied, started>>
<1>1. CP!IInv /\ CP!Node(i) /\ i \in CP!Online
  BY SameNode DEF IInv
<1>2. /\ i = cursor /\ reply = CP!NoReply
      /\ pc \in {"init_wait", "sign_wait"}
      /\ pc = "init_wait" => mailbox[i] = <<CP!InitCommand>>
      /\ pc = "sign_wait" => mailbox[i] = <<CP!SignCommand(payload)>>
  BY <1>1, Assumptions, CP!NodeAtCursor
     DEF CP!CoordAssumption, CP!BatchAssumption, CP!NoneAssumption
<1>3. /\ pc = "init_wait" => Head(mailbox[i]).cmd = "Init"
      /\ pc = "sign_wait" => Head(mailbox[i]).cmd = "Sign"
  <2>1. \A c : Head(<<c>>) = c
    OBVIOUS
  <2>2. QED
    BY <1>2, <2>1 DEF CP!InitCommand, CP!SignCommand
<1>4. UNCHANGED <<pc, cursor, poolSizes, failedNodes, remaining, round, payload,
                  partials, stray, supplied, started>>
  BY DEF NodeStep, C!Node, C!NodeInitMissing, C!NodeInitDirNotEmpty, C!NodeInitLoads,
         C!NodeSignRefuses, C!NodeSigns, C!mainVars, C!passVars, C!initVars, C!signVars,
         C!fileVars, C!history
<1>5. QED
  BY <1>2, <1>3, <1>4 DEF C!TakesCommand, CP!NoReply, C!NoReply

\* An answer takes the node under the cursor into those the pass has been at.
LEMMA PassedStep ==
  ASSUME IInv, NEW i \in C!Online, NodeStep(i), reply' # C!NoReply
  PROVE  /\ ~Passed(i) /\ Passed(i)'
         /\ \A k \in C!Online : k # i => (Passed(k)' <=> Passed(k))
BY NodeFacts, CoordFacts, SameNames DEF Passed

\* A node loads the next batch: its file is there, and nothing else is.
LEMMA InitAtNodeStep ==
  ASSUME IInv, OnlineInv, NEW i \in C!Online, NodeStep(i), pc = "init_wait"
  PROVE  OnlineInv'
<1>1. PICK j \in 0 .. Len(Deliveries) : OnlineAt(j)
  BY DEF OnlineInv
<1>2. /\ i = cursor /\ reply = C!NoReply
      /\ UNCHANGED <<pc, cursor, poolSizes, failedNodes, remaining, round, payload,
                     partials, stray, supplied, started>>
  BY NodeFacts
<1>3. InInit /\ NodesInInit(j) /\ ~Passed(i)
  BY <1>1, <1>2, CoordFacts, SameNames DEF OnlineAt, InInit, Passed
<1>4. /\ started /\ j < Len(Deliveries) /\ stray = {}
      /\ Holds(i, j, 0) /\ poolFile[i] # None
  BY <1>3 DEF NodesInInit, OnlineInv
<1>5. j + 1 \in 1 .. Len(Deliveries)
  BY <1>4, DeliveriesFacts
<1>6. poolFile[i] = Deliveries[j + 1] /\ Brought(Received(i), None, j + 1)
  BY <1>4, LoadsBrought DEF Holds
<1>7. C!NodeInitLoads(i)
  BY <1>4, NodeFacts
     DEF NodeStep, C!Node, C!NodeInitMissing, C!NodeInitDirNotEmpty,
         C!NodeSignRefuses, C!NodeSigns
<1>8. /\ presigPool' = [presigPool EXCEPT ![i] = Rest(j + 1, Size(j + 1))]
      /\ poolFile' = [poolFile EXCEPT ![i] = None]
      /\ reply' = C!SizeReply(Size(j + 1))
  <2>1. C!PoolOf(Deliveries[j + 1]) = PoolOf(Deliveries[j + 1])
    BY DEF C!PoolOf, PoolOf
  <2>2. QED
    BY <1>5, <1>6, <1>7, <2>1, FullRest DEF C!NodeInitLoads, C!Answer, C!RemovePoolFile
<1>9. /\ Passed(i)'
      /\ \A k \in C!Online : k # i => (Passed(k)' <=> Passed(k))
  BY <1>8, PassedStep DEF C!SizeReply, C!NoReply
<1>10. Holds(i, j + 1, Size(j + 1))'
  BY <1>2, <1>6, <1>8, CoordFacts, SameNames DEF Holds, Received
<1>11. \A k \in C!Online : k # i =>
         /\ poolFile'[k] = poolFile[k]
         /\ \A l, left : Holds(k, l, left)' <=> Holds(k, l, left)
  BY <1>2, <1>8, CoordFacts, SameNames DEF Holds, Received
<1>12. \A k \in C!Online :
         IF Passed(k)' THEN Holds(k, j + 1, Size(j + 1))'
                       ELSE Holds(k, j, 0)' /\ (started' => poolFile'[k] # None)
  <2>1. TAKE k \in C!Online
  <2>2. CASE k = i
    BY <1>9, <1>10, <2>2
  <2>3. CASE k # i
    BY <1>2, <1>3, <1>9, <1>11, <2>3 DEF NodesInInit
  <2>4. QED
    BY <2>2, <2>3
<1>13. NodesInInit(j)'
  BY <1>2, <1>3, <1>4, <1>8, <1>12 DEF NodesInInit
<1>14. OnlineAt(j)'
  BY <1>1, <1>2, <1>3, <1>13 DEF OnlineAt, InInit
<1>15. QED
  BY <1>2, <1>4, <1>14 DEF OnlineInv

\* A node refuses when its pool is empty, and then all are; else it signs with the
\* set that is next in the order.
LEMMA SignAtNodeStep ==
  ASSUME IInv, OnlineInv, NEW i \in C!Online, NodeStep(i), pc = "sign_wait"
  PROVE  OnlineInv'
<1>1. PICK j \in 0 .. Len(Deliveries) : OnlineAt(j)
  BY DEF OnlineInv
<1>2. /\ i = cursor /\ reply = C!NoReply
      /\ UNCHANGED <<pc, cursor, poolSizes, failedNodes, remaining, round, payload,
                     partials, stray, supplied, started>>
  BY NodeFacts
<1>3. /\ InSign /\ ~InInit /\ NodesInLoop(j) /\ ~Passed(i)
      /\ remaining <= Size(j) /\ Counted(j, remaining, round)
  BY <1>1, <1>2, CoordFacts, SameNames DEF OnlineAt, InInit, InSign, Passed
<1>4. Holds(i, j, remaining) /\ started /\ remaining \in Nat /\ stray = {}
  BY <1>3, CoordFacts DEF NodesInLoop, OnlineInv
<1>5. remaining \in 0 .. Size(j) /\ Size(j) \in Nat
  <2>1. Size(j) \in Nat
    BY DeliveriesFacts, j = 0 \/ j \in 1 .. Len(Deliveries)
  <2>2. QED
    BY <1>3, <1>4, <2>1
<1>6. C!NodeSignRefuses(i) \/ C!NodeSigns(i)
  BY NodeFacts
     DEF NodeStep, C!Node, C!NodeInitMissing, C!NodeInitDirNotEmpty, C!NodeInitLoads
<1>7. CASE C!NodeSignRefuses(i)
  <2>1. reply' = C!ErrReply /\ UNCHANGED <<presigPool, poolFile>> /\ presigPool[i] = <<>>
    BY <1>3, <1>7, CoordFacts, SameNames
       DEF C!NodeSignRefuses, C!Answer, C!nodeVars, C!fileVars, C!IsEmpty
  <2>2. remaining = 0
    <3>1. Rest(j, remaining) = <<>>
      BY <1>4, <2>1 DEF Holds
    <3>2. remaining > 0 => Rest(j, remaining) # <<>>
      BY <1>5, RestFacts
    <3>3. QED
      BY <1>4, <3>1, <3>2
  <2>3. \A k \in C!Online : Holds(k, j, 0)'
    <3>1. \A k \in C!Online : Holds(k, j, 0)
      BY <1>3, <2>2 DEF NodesInLoop
    <3>2. QED
      BY <1>2, <2>1, <3>1 DEF Holds, Received
  <2>4. reply'.tag # "partial"
    BY <2>1 DEF C!ErrReply
  <2>5. NodesInLoop(j)'
    BY <1>2, <1>3, <2>2, <2>3, <2>4 DEF NodesInLoop, InSign
  <2>6. OnlineAt(j)'
    BY <1>2, <1>3, <2>5 DEF OnlineAt, InInit
  <2>7. QED
    BY <1>2, <1>4, <2>6 DEF OnlineInv
<1>8. CASE C!NodeSigns(i)
  <2> DEFINE sig == [set |-> presigPool[i][1], payload |-> payload]
  <2>1. /\ reply' = C!SignReply(sig) /\ presigPool[i] # <<>>
        /\ presigPool' = [presigPool EXCEPT ![i] = Tail(@)]
        /\ UNCHANGED <<poolFile>>
    <3>1. CP!IInv /\ CP!NodeSigns(i) /\ i \in CP!Online
      BY <1>8, SameNode DEF IInv
    <3>2. /\ reply' = CP!SignReply(sig) /\ presigPool[i] # <<>>
          /\ presigPool' = [presigPool EXCEPT ![i] = CP!AfterPop(@)]
      BY <3>1, Assumptions, CP!SigningNode
         DEF CP!CoordAssumption, CP!BatchAssumption, CP!NoneAssumption
    <3>3. QED
      BY <3>2, <1>8 DEF CP!SignReply, C!SignReply, CP!AfterPop, C!NodeSigns, C!fileVars
  <2>2. remaining > 0 /\ remaining \in 1 .. Size(j) /\ presigPool[i] = Rest(j, remaining)
    <3>1. presigPool[i] = Rest(j, remaining)
      BY <1>4 DEF Holds
    <3>2. remaining # 0
      BY <1>5, <2>1, <3>1, RestFacts
    <3>3. QED
      BY <1>5, <3>1, <3>2
  <2>3. /\ Tail(presigPool[i]) = Rest(j, remaining - 1)
        /\ At(presigPool[i][1], round)
    BY <1>3, <1>5, <2>2, RestFacts, Pops
  <2>4. /\ reply'.tag = "partial" /\ reply'.sig = sig
        /\ reply' # C!NoReply
    BY <2>1 DEF C!SignReply, C!NoReply
  <2>5. /\ Passed(i)'
        /\ \A k \in C!Online : k # i => (Passed(k)' <=> Passed(k))
    BY <2>4, PassedStep
  <2>6. Holds(i, j, remaining - 1)'
    BY <1>2, <1>4, <2>1, <2>3, CoordFacts, SameNames DEF Holds, Received
  <2>7. \A k \in C!Online : k # i =>
          \A l, left : Holds(k, l, left)' <=> Holds(k, l, left)
    BY <1>2, <2>1, CoordFacts, SameNames DEF Holds, Received
  <2>8. \A k \in C!Online :
          Holds(k, j, IF remaining > 0 /\ (pc = "offline_wait" \/ (InSign /\ Passed(k)))
                        THEN remaining - 1 ELSE remaining)'
    <3>1. TAKE k \in C!Online
    <3>2. CASE k = i
      BY <1>2, <1>3, <2>2, <2>5, <2>6, <3>2 DEF InSign
    <3>3. CASE k # i
      <4>1. Holds(k, j, IF remaining > 0 /\ (pc = "offline_wait" \/ (InSign /\ Passed(k)))
                          THEN remaining - 1 ELSE remaining)
        BY <1>3 DEF NodesInLoop
      <4>2. QED
        BY <1>2, <1>3, <2>5, <2>7, <3>3, <4>1 DEF InSign
    <3>4. QED
      BY <3>2, <3>3
  <2>9. reply'.sig.payload = payload' /\ At(reply'.sig.set, round')
    BY <1>2, <2>3, <2>4
  <2> HIDE DEF sig
  <2>10. NodesInLoop(j)'
    BY <1>2, <1>3, <2>8, <2>9 DEF NodesInLoop, InSign
  <2>11. OnlineAt(j)'
    BY <1>2, <1>3, <2>10 DEF OnlineAt, InInit
  <2>12. QED
    BY <1>2, <1>4, <2>11 DEF OnlineInv
<1>9. QED
  BY <1>6, <1>7, <1>8

\* A node handles one command.
LEMMA NodeOnlineStep ==
  ASSUME IInv, OnlineInv, NEW i \in C!Online, NodeStep(i)
  PROVE  OnlineInv'
BY NodeFacts, InitAtNodeStep, SignAtNodeStep

\* The operator brings the next batch to a node that has none waiting.
LEMMA SupplyStep ==
  ASSUME IInv, OnlineInv, NEW i \in C!Online, SupplyNode(i)
  PROVE  OnlineInv'
<1>1. PICK j \in 0 .. Len(Deliveries) : OnlineAt(j)
  BY DEF OnlineInv
<1>2. PICK b \in Batches : NextDelivery(b, Received(i)) /\ C!SupplyPool(b, i)
  BY DEF SupplyNode, Received
<1>3. /\ ~started \/ pc \in {"reload_prompt", "retry_sleep"}
      /\ poolFile[i] = None
      /\ poolFile' = [poolFile EXCEPT ![i] = b]
      /\ supplied' = supplied \cup {<<b, i>>}
      /\ UNCHANGED <<pc, cursor, poolSizes, failedNodes, remaining, round, payload,
                     partials, reply, presigPool, stray, started>>
  BY <1>2 DEF SupplyNode, C!SupplyPool, C!program, C!mainVars, C!passVars, C!initVars,
              C!signVars, C!nodeVars
<1>4. \A k \in C!Online :
        /\ poolFile'[k] = IF k = i THEN b ELSE poolFile[k]
        /\ Received(k)' = IF k = i THEN Received(k) \cup {b} ELSE Received(k)
        /\ Passed(k)' = Passed(k)
  BY <1>2, <1>3, CoordFacts, SameNames DEF Received, Passed
<1>5. \A k \in C!Online : Holds(k, j, 0) => Holds(k, j, 0)'
  <2>1. TAKE k \in C!Online
  <2>2. HAVE Holds(k, j, 0)
  <2>3. CASE k = i
    <3>1. Brought(Received(i), None, j)
      BY <1>3, <2>2, <2>3 DEF Holds
    <3>2. Brought(Received(i) \cup {b}, b, j)
      BY <1>2, <3>1, NextBrought
    <3>3. QED
      BY <1>3, <1>4, <2>2, <2>3, <3>2 DEF Holds
  <2>4. CASE k # i
    BY <1>3, <1>4, <2>2, <2>4 DEF Holds
  <2>5. QED
    BY <2>3, <2>4
<1>6. b # None
  BY <1>2, BatchAssumption
<1>7. CASE InInit
  <2>1. NodesInInit(j) /\ ~started /\ j = 0 /\ pc = "init_send" /\ cursor = 1
    BY <1>1, <1>3, <1>7 DEF OnlineAt, NodesInInit, InInit
  <2>2. \A k \in C!Online : ~Passed(k)
    BY <2>1, SameNames DEF Passed
  <2>3. \A k \in C!Online : Holds(k, j, 0)
    BY <2>1, <2>2 DEF NodesInInit
  <2>4. NodesInInit(j)'
    BY <1>3, <1>4, <1>5, <2>1, <2>2, <2>3 DEF NodesInInit
  <2>5. OnlineAt(j)'
    BY <1>1, <1>3, <1>7, <2>4 DEF OnlineAt, InInit
  <2>6. QED
    BY <1>3, <2>5 DEF OnlineInv
<1>8. CASE ~InInit
  <2>1. NodesInLoop(j) /\ pc = "reload_prompt" /\ remaining = 0
    BY <1>1, <1>3, <1>8 DEF OnlineAt, NodesInLoop
  <2>2. \A k \in C!Online : Holds(k, j, 0)
    BY <2>1 DEF NodesInLoop, InSign
  <2>3. NodesInLoop(j)'
    BY <1>3, <1>5, <2>1, <2>2 DEF NodesInLoop, InSign
  <2>4. OnlineAt(j)'
    BY <1>1, <1>3, <1>8, <2>3 DEF OnlineAt, InInit
  <2>5. QED
    BY <1>3, <2>4 DEF OnlineInv
<1>9. QED
  BY <1>7, <1>8

\* The operator reloads with the next batch in place at all nodes.
LEMMA ReloadStep ==
  ASSUME IInv, OnlineInv, ReloadNodes
  PROVE  OnlineInv'
<1>1. PICK j \in 0 .. Len(Deliveries) : OnlineAt(j)
  BY DEF OnlineInv
<1>2. /\ pc = "reload_prompt" /\ \A i \in C!Online : poolFile[i] # None
      /\ pc' = "init_send" /\ cursor' = 1 /\ poolSizes' = <<>> /\ failedNodes' = {}
      /\ UNCHANGED <<remaining, round, payload, partials, reply, presigPool, poolFile,
                     stray, supplied, started>>
  BY DEF ReloadNodes, C!PressEnterReload, C!StartInitPass, C!signVars, C!nodeVars,
         C!fileVars, C!history
<1>3. NodesInLoop(j) /\ remaining = 0 /\ started /\ reply = C!NoReply
  BY <1>1, <1>2, CoordFacts DEF OnlineAt, InInit, NodesInLoop
<1>4. \A i \in C!Online : Holds(i, j, 0)' /\ ~Passed(i)'
  BY <1>2, <1>3, SameNames DEF NodesInLoop, Holds, Received, Passed
<1>5. j < Len(Deliveries)
  <2>1. 1 \in C!Online
    BY CoordFacts, SameNames
  <2>2. Brought(Received(1), poolFile[1], j)
    BY <1>3, <2>1 DEF NodesInLoop, Holds
  <2>3. QED
    BY <1>2, <2>1, <2>2, LoadsBrought
<1>6. NodesInInit(j)'
  BY <1>2, <1>3, <1>4, <1>5 DEF NodesInInit
<1>7. OnlineAt(j)'
  BY <1>1, <1>2, <1>6 DEF OnlineAt, InInit
<1>8. QED
  BY <1>2, <1>7 DEF OnlineInv

\* A payload starts a pass over nodes that all have the same sets left.
LEMMA EnterStep ==
  ASSUME IInv, OnlineInv, EnterPayload
  PROVE  OnlineInv'
<1>1. PICK j \in 0 .. Len(Deliveries) : OnlineAt(j)
  BY DEF OnlineInv
<1>2. /\ pc = "payload_prompt" /\ pc' = "sign_send" /\ cursor' = 1 /\ partials' = <<>>
      /\ UNCHANGED <<poolSizes, failedNodes, remaining, round, reply, presigPool,
                     poolFile, stray, supplied, started>>
  BY DEF EnterPayload, C!EnterPayload, C!initVars, C!nodeVars, C!fileVars, C!history
<1>3. NodesInLoop(j) /\ reply = C!NoReply /\ reply'.tag # "partial"
  BY <1>1, <1>2, CoordFacts DEF OnlineAt, InInit, C!NoReply
<1>4. \A i \in C!Online : Holds(i, j, remaining)' /\ ~Passed(i)'
  BY <1>2, <1>3, SameNames DEF NodesInLoop, Holds, Received, Passed, InSign
<1>5. NodesInLoop(j)'
  BY <1>2, <1>3, <1>4 DEF NodesInLoop, InSign
<1>6. OnlineAt(j)'
  BY <1>1, <1>2, <1>5 DEF OnlineAt, InInit
<1>7. QED
  BY <1>2, <1>6 DEF OnlineInv

\* A combination that succeeds ends the round, and the set of the round is used.
LEMMA LoadOutputStep ==
  ASSUME IInv, OnlineInv, LoadOutput, ~C!CombineFails
  PROVE  OnlineInv'
<1>1. PICK j \in 0 .. Len(Deliveries) : OnlineAt(j)
  BY DEF OnlineInv
<1>2. CASE C!LoadOfflineDirNotEmpty
  <2>1. UNCHANGED <<pc, cursor, poolSizes, failedNodes, remaining, round, payload,
                    partials, reply, presigPool, poolFile, stray, supplied, started>>
    BY <1>2 DEF LoadOutput, C!LoadOfflineDirNotEmpty, C!program, C!mainVars, C!passVars,
                C!initVars, C!signVars, C!nodeVars
  <2>2. QED
    BY <2>1, OnlineStutter
<1>3. ASSUME NEW exported \in BOOLEAN, C!CombineSucceeds(exported) PROVE OnlineInv'
  <2>1. /\ pc = "offline_wait" /\ remaining' = remaining - 1 /\ round' = round + 1
        /\ pc' = C!LoopTop(remaining - 1)
        /\ UNCHANGED <<cursor, poolSizes, failedNodes, payload, partials, reply,
                       presigPool, poolFile, stray, supplied, started>>
    BY <1>3 DEF LoadOutput, C!CombineSucceeds, C!OutputsReadable, C!NextRound, C!passVars,
                C!initVars, C!signVars, C!nodeVars
  <2>2. /\ NodesInLoop(j) /\ remaining > 0 /\ remaining \in Nat
        /\ remaining <= Size(j) /\ Counted(j, remaining, round)
    BY <1>1, <2>1, CoordFacts DEF OnlineAt, InInit
  <2>3. remaining \in 1 .. Size(j) /\ Size(j) \in Nat
    <3>1. Size(j) \in Nat
      BY DeliveriesFacts, j = 0 \/ j \in 1 .. Len(Deliveries)
    <3>2. QED
      BY <2>2, <3>1
  <2>4. Counted(j, remaining - 1, round + 1)
    BY <2>2, <2>3, Pops
  <2>5. \A i \in C!Online : Holds(i, j, remaining)'
    <3>1. \A i \in C!Online : Holds(i, j, remaining - 1)
      BY <2>1, <2>2 DEF NodesInLoop
    <3>2. QED
      BY <2>1, <3>1 DEF Holds, Received
  <2>6. /\ pc' \in {"reload_prompt", "payload_prompt"}
        /\ pc' = "reload_prompt" => remaining' = 0
    BY <2>1 DEF C!LoopTop
  <2>7. ~InInit' /\ ~InSign' /\ pc' # "offline_wait" /\ pc' # "retry_sleep"
    BY <2>6 DEF InInit, InSign
  <2>8. NodesInLoop(j)'
    BY <2>1, <2>2, <2>5, <2>6, <2>7 DEF NodesInLoop
  <2>9. Counted(j, remaining', round') /\ remaining' <= Size(j)
    BY <2>1, <2>3, <2>4
  <2>10. OnlineAt(j)'
    BY <2>7, <2>8, <2>9 DEF OnlineAt
  <2>11. QED
    BY <2>1, <2>10 DEF OnlineInv
<1>4. QED
  BY <1>2, <1>3 DEF LoadOutput

\* The online nodes keep to the order as long as no combination fails.
LEMMA OnlineInvStep ==
  ASSUME careful, IInv, OnlineInv, [Next]_vars, ~C!CombineFails
  PROVE  OnlineInv'
<1>1. CASE CoordinatorStep
  <2>1. ~C!RetryInit
    BY DEF OnlineInv, OnlineAt, InInit, NodesInLoop, C!RetryInit
  <2>2. QED
    BY <1>1, <2>1, SendStep, RecvInitStep, RecvSignStep DEF CoordinatorStep, C!Coordinator
<1>2. CASE BringPartial \/ BringPpd
  BY <1>2, OnlineStutter DEF BringPartial, BringPpd
<1>3. CASE UNCHANGED <<coordVars, started>>
  BY <1>3, OnlineStutter
<1>4. ~CrashCoordinator
  BY DEF careful, CrashCoordinator
<1>5. \/ UNCHANGED <<coordVars, started>> \/ CoordinatorStep \/ StartCoordinator
      \/ ReloadNodes \/ EnterPayload \/ BringPartial \/ BringPpd \/ LoadOutput
      \/ \E i \in C!Online : NodeStep(i) \/ SupplyNode(i)
  BY <1>4
     DEF Next, OfflineStep, ClientStep, OperatorStep, SupplyOffline,
         StartOrReloadOffline, StartClient, CopyPayload, SignOffline, TakeOutput,
         EnterSignatureName, CrashOffline, vars
<1>6. QED
  BY <1>1, <1>2, <1>3, <1>5, StartStep, NodeOnlineStep, SupplyStep, ReloadStep, EnterStep,
     LoadOutputStep

-----------------------------------------------------------------------------
(* The files of an output carry the place of their set as their counter *)

\* The files on their way from one machine to the other.
LEMMA PlaceTypes ==
  ASSUME IInv
  PROVE  /\ partialOut \in [O!Counters -> Partial \cup {None}]
         /\ ppdOut \in [O!Counters -> PresigSet \cup {None}]
         /\ partialFile \in [C!Rounds -> Partial \cup {None}]
         /\ ppdFile \in [C!Rounds -> PresigSet \cup {None}]
         /\ carried # None =>
              /\ carried \in [counter : O!Counters, partial : Partial \cup {None},
                              ppd : PresigSet]
              /\ carried.counter \in O!Counters
         /\ O!Counters \subseteq C!Rounds
         /\ offPc \in O!SignPcs => sigCounter \in O!Counters
         /\ offPayload \in [{BtcPayload} -> Payloads \cup {None}]
<1>1. CP!TypeOK /\ OP!TypeOK /\ OP!JobInv /\ TransportInv
  BY DEF IInv, CP!IInv, OP!IInv
<1>2. /\ partialOut \in [O!Counters -> Partial \cup {None}]
      /\ ppdOut \in [O!Counters -> PresigSet \cup {None}]
      /\ offPayload \in [{BtcPayload} -> Payloads \cup {None}]
  BY <1>1, SameNames DEF OP!TypeOK, Names
<1>3. /\ partialFile \in [C!Rounds -> Partial \cup {None}]
      /\ ppdFile \in [C!Rounds -> PresigSet \cup {None}]
  BY <1>1, SameNames DEF CP!TypeOK
<1>4. carried # None =>
        /\ carried \in [counter : O!Counters, partial : Partial \cup {None},
                        ppd : PresigSet]
        /\ carried.counter \in O!Counters
  BY <1>1 DEF TransportInv
<1>5. O!Counters \subseteq C!Rounds
  BY SameNames, IronSignAssumption
<1>6. offPc \in O!SignPcs => sigCounter \in O!Counters
  <2>1. offPc \in O!SignPcs => sigCounter < MaxOutputs /\ sigCounter \in 0 .. MaxOutputs
    BY <1>1 DEF OP!JobInv, OP!TypeOK, OP!SignPcs, O!SignPcs
  <2>2. QED
    BY <2>1, SameNames, IronSignAssumption
<1>7. QED
  BY <1>2, <1>3, <1>4, <1>5, <1>6

Moves ==
  \/ OfflineStep /\ (O!WritePartial \/ O!WritePpd)
  \/ \E c \in O!Counters : TakeOutput(c)
  \/ BringPartial \/ BringPpd

\* Without a crash all other steps leave these files alone, but for the outputs that
\* are loaded.
LEMMA PlacesKept ==
  ASSUME careful, [Next]_vars, ~Moves
  PROVE  /\ UNCHANGED <<partialOut, ppdOut, carried>>
         /\ UNCHANGED <<partialFile, ppdFile>> \/ (LoadOutput /\ C!RemoveOutputs)
<1> DEFINE Outs  == UNCHANGED <<partialOut, ppdOut, carried>>
           Files == UNCHANGED <<partialFile, ppdFile>>
<1>1. CASE CoordinatorStep \/ ReloadNodes \/ EnterPayload
  BY <1>1 DEF CoordinatorStep, ReloadNodes, EnterPayload, C!Coordinator, C!SendInit,
              C!RecvInit, C!RetryInit, C!StartInitPass, C!SendSign, C!RecvSign,
              C!PressEnterReload, C!EnterPayload, C!fileVars
<1>2. ASSUME NEW i \in C!Online, NodeStep(i) \/ SupplyNode(i) PROVE Outs /\ Files
  BY <1>2 DEF NodeStep, C!Node, C!NodeInitMissing, C!NodeInitDirNotEmpty,
              C!NodeInitLoads, C!NodeSignRefuses, C!NodeSigns, C!fileVars,
              SupplyNode, C!SupplyPool
<1>3. CASE OfflineStep
  BY <1>3 DEF Moves, OfflineStep, O!Loading, O!ReadPools, O!RemovePoolFile, O!RemoveDir,
              O!LoadPanics, O!Ends, O!DeletePayload, O!outputs
<1>4. ASSUME NEW kind \in O!Kinds, SupplyOffline(kind) PROVE Outs /\ Files
  BY <1>4 DEF SupplyOffline, O!SupplyPool, O!outputs
<1>5. CASE StartOrReloadOffline \/ CopyPayload \/ SignOffline
  BY <1>5 DEF StartOrReloadOffline, CopyPayload, SignOffline, O!Start,
              O!PressEnterReload, O!PutPayload, O!SubmitPayload, O!outputs
<1>6. CASE LoadOutput
  BY <1>6 DEF LoadOutput, C!LoadOfflineDirNotEmpty, C!CombineFails, C!CombineSucceeds
<1>7. CASE Outs /\ Files
  BY <1>7
<1>8. ~CrashOffline /\ ~CrashCoordinator
  BY DEF careful, CrashOffline, CrashCoordinator
<1>9. \/ CoordinatorStep \/ ReloadNodes \/ EnterPayload \/ OfflineStep
      \/ StartOrReloadOffline \/ CopyPayload \/ SignOffline \/ LoadOutput
      \/ \E i \in C!Online : NodeStep(i) \/ SupplyNode(i)
      \/ \E kind \in O!Kinds : SupplyOffline(kind)
      \/ Outs /\ Files
  BY <1>8 DEF Moves, Next, ClientStep, OperatorStep, StartCoordinator, StartClient,
              EnterSignatureName, vars
<1>10. QED
  BY <1>1, <1>2, <1>3, <1>4, <1>5, <1>6, <1>7, <1>9

\* An output travels with its counter in its name.
LEMMA PlacesStep ==
  ASSUME careful, IInv, OfflineInv, PlacesInv, [Next]_vars
  PROVE  PlacesInv'
<1>1. CASE ~Moves
  <2>1. UNCHANGED <<partialOut, ppdOut, carried>>
    BY <1>1, PlacesKept
  <2>2. \A r \in C!Rounds :
          /\ partialFile'[r] \in {None, partialFile[r]}
          /\ ppdFile'[r] \in {None, ppdFile[r]}
    BY <1>1, PlacesKept, PlaceTypes DEF C!RemoveOutputs
  <2>3. QED
    BY <2>1, <2>2 DEF PlacesInv
<1>2. CASE OfflineStep /\ (O!WritePartial \/ O!WritePpd)
  <2>1. /\ offPc \in O!SignPcs
        /\ UNCHANGED <<carried, partialFile, ppdFile>>
    BY <1>2 DEF OfflineStep, O!WritePartial, O!WritePpd, O!SignPcs
  <2>2. sigCounter \in O!Counters
    BY <2>1, PlaceTypes
  <2>3. offPartial.set = offPpd /\ At(offPpd, sigCounter)
    BY <2>1 DEF OfflineInv, OfflineAt
  <2>4. \A c \in O!Counters :
          /\ partialOut'[c] = partialOut[c] \/ (c = sigCounter /\ partialOut'[c] = offPartial)
          /\ ppdOut'[c] = ppdOut[c] \/ (c = sigCounter /\ ppdOut'[c] = offPpd)
    BY <1>2, PlaceTypes DEF O!WritePartial, O!WritePpd
  <2>5. QED
    BY <2>1, <2>3, <2>4 DEF PlacesInv
<1>3. ASSUME NEW c \in O!Counters, TakeOutput(c) PROVE PlacesInv'
  <2>1. /\ carried' = [counter |-> c, partial |-> partialOut[c], ppd |-> ppdOut[c]]
        /\ partialOut[c] # None /\ ppdOut[c] # None
        /\ partialOut' = [partialOut EXCEPT ![c] = None]
        /\ ppdOut' = [ppdOut EXCEPT ![c] = None]
        /\ UNCHANGED <<partialFile, ppdFile>>
    BY <1>3 DEF TakeOutput, O!CollectOutput
  <2>2. At(partialOut[c].set, c) /\ At(ppdOut[c], c)
    BY <2>1 DEF PlacesInv
  <2>3. At(carried'.partial.set, carried'.counter) /\ At(carried'.ppd, carried'.counter)
    BY <2>1, <2>2
  <2>4. \A d \in O!Counters :
          partialOut'[d] \in {None, partialOut[d]} /\ ppdOut'[d] \in {None, ppdOut[d]}
    BY <2>1, PlaceTypes
  <2>5. QED
    BY <2>1, <2>3, <2>4 DEF PlacesInv
<1>4. CASE BringPartial \/ BringPpd
  <2>1. /\ carried # None
        /\ UNCHANGED <<partialOut, ppdOut>>
        /\ \/ /\ carried.partial # None
              /\ partialFile' = [partialFile EXCEPT ![carried.counter] = carried.partial]
              /\ carried' = [carried EXCEPT !.partial = None]
              /\ UNCHANGED ppdFile
           \/ /\ ppdFile' = [ppdFile EXCEPT ![carried.counter] = carried.ppd]
              /\ carried' = None /\ UNCHANGED partialFile
    BY <1>4 DEF BringPartial, BringPpd
  <2>2. /\ carried.partial # None => At(carried.partial.set, carried.counter)
        /\ At(carried.ppd, carried.counter)
    BY <2>1 DEF PlacesInv
  <2>3. carried' # None =>
          carried'.partial = None /\ carried'.counter = carried.counter
          /\ carried'.ppd = carried.ppd
    BY <2>1, PlaceTypes
  <2>4. \A r \in C!Rounds :
          /\ \/ partialFile'[r] = partialFile[r]
             \/ /\ r = carried.counter /\ partialFile'[r] = carried.partial
                /\ carried.partial # None
          /\ ppdFile'[r] = ppdFile[r] \/ (r = carried.counter /\ ppdFile'[r] = carried.ppd)
    BY <2>1, PlaceTypes
  <2>5. QED
    BY <2>1, <2>2, <2>3, <2>4 DEF PlacesInv
<1>5. QED
  BY <1>1, <1>2, <1>3, <1>4 DEF Moves

-----------------------------------------------------------------------------
(* One payment at a time, and both machines count it once *)

\* The pass over the nodes signs the payload, or its result is waiting.
Paying == InSign \/ pc = "offline_wait"
Submitted == offPc \in O!SignPcs
stage == <<sigCounter, offPayload, partialOut, ppdOut, carried, partialFile, ppdFile,
           payloadFile, round>>

\* Steps that leave a payment where it is.
LEMMA StageKept ==
  ASSUME UNCHANGED stage, Submitted' = Submitted
  PROVE  /\ Settled' = Settled /\ ToSign' = ToSign /\ InOutput' = InOutput
         /\ OnTheWay' = OnTheWay /\ Arrived' = Arrived
<1>1. NoOuts' = NoOuts /\ NoFiles' = NoFiles
  BY DEF NoOuts, NoFiles, stage
<1>2. Made' = Made /\ Settled' = Settled /\ ToSign' = ToSign
  BY <1>1 DEF Made, Settled, ToSign, Submitted, stage
<1>3. InOutput' = InOutput
  BY <1>1, <1>2 DEF InOutput, stage
<1>4. OnTheWay' = OnTheWay
  BY <1>1, <1>2 DEF OnTheWay, stage
<1>5. Arrived' = Arrived
  BY <1>1, <1>2 DEF Arrived, stage
<1>6. QED
  BY <1>2, <1>3, <1>4, <1>5

LEMMA PaymentStutter ==
  ASSUME PaymentInv, UNCHANGED stage, Submitted' = Submitted,
         UNCHANGED <<payload, copied, dispatched, btcPc, published>>, Paying' => Paying
  PROVE  PaymentInv'
<1>1. /\ Settled' = Settled /\ ToSign' = ToSign /\ InOutput' = InOutput
      /\ OnTheWay' = OnTheWay /\ Arrived' = Arrived
  BY StageKept
<1>2. Busy' = Busy /\ round' = round /\ payloadFile' = payloadFile
  BY DEF Busy, stage
<1>3. QED
  BY <1>1, <1>2 DEF PaymentInv, Paying

\* Both machines between two payments.
LEMMA CoordinatorPayment ==
  ASSUME PaymentInv, \/ CoordinatorStep \/ ReloadNodes \/ StartCoordinator
                     \/ \E i \in C!Online : NodeStep(i) \/ SupplyNode(i)
  PROVE  PaymentInv'
<1>1. CASE CoordinatorStep
  <2>1. /\ UNCHANGED stage /\ Submitted' = Submitted
        /\ UNCHANGED <<payload, copied, dispatched, btcPc, published>>
    BY <1>1 DEF CoordinatorStep, C!Coordinator, C!SendInit, C!RecvInit, C!RetryInit,
                C!StartInitPass, C!SendSign, C!RecvSign, C!mainVars, C!fileVars,
                C!history, stage, Submitted
  <2>2. Paying' => Paying
    BY <1>1 DEF CoordinatorStep, C!Coordinator, C!SendInit, C!RecvInit, C!RetryInit,
                C!StartInitPass, C!SendSign, C!RecvSign, C!InitPassEnds, C!LoopTop,
                Paying, InSign
  <2>3. QED
    BY <2>1, <2>2, PaymentStutter
<1>2. CASE ReloadNodes
  BY <1>2, PaymentStutter
     DEF ReloadNodes, C!PressEnterReload, C!StartInitPass, C!fileVars, C!history, stage,
         Submitted, Paying, InSign
<1>3. CASE StartCoordinator
  BY <1>3, PaymentStutter DEF StartCoordinator, stage, Submitted, Paying, InSign
<1>4. ASSUME NEW i \in C!Online, NodeStep(i) PROVE PaymentInv'
  <2>1. /\ UNCHANGED stage /\ Submitted' = Submitted
        /\ UNCHANGED <<payload, copied, dispatched, btcPc, published, pc>>
    BY <1>4 DEF NodeStep, C!Node, C!NodeInitMissing, C!NodeInitDirNotEmpty,
                C!NodeInitLoads, C!NodeSignRefuses, C!NodeSigns, C!mainVars, C!fileVars,
                C!history, stage, Submitted
  <2>2. QED
    BY <2>1, PaymentStutter DEF Paying, InSign
<1>5. ASSUME NEW i \in C!Online, SupplyNode(i) PROVE PaymentInv'
  <2>1. /\ UNCHANGED stage /\ Submitted' = Submitted
        /\ UNCHANGED <<payload, copied, dispatched, btcPc, published, pc>>
    BY <1>5 DEF SupplyNode, C!SupplyPool, C!program, C!mainVars, stage, Submitted
  <2>2. QED
    BY <2>1, PaymentStutter DEF Paying, InSign
<1>6. QED
  BY <1>1, <1>2, <1>3, <1>4, <1>5

\* Loading, or the operator at the offline node's prompt.
LEMMA OfflinePayment ==
  ASSUME IInv, OfflineInv, PaymentInv,
         \/ OfflineStep /\ O!Loading
         \/ StartOrReloadOffline
         \/ \E kind \in O!Kinds : SupplyOffline(kind)
  PROVE  PaymentInv'
<1>1. /\ UNCHANGED stage /\ Submitted' = Submitted
      /\ UNCHANGED <<payload, copied, dispatched, btcPc, published, pc>>
  <2>1. CASE OfflineStep /\ O!Loading
    BY <2>1, LoadingStep
       DEF OfflineStep, O!Loading, O!ReadPools, O!RemovePoolFile, O!RemoveDir, O!Kinds,
           O!SignPcs, O!memory, O!inputs, O!outputs, stage, Submitted
  <2>2. CASE StartOrReloadOffline
    BY <2>2 DEF StartOrReloadOffline, O!Start, O!PressEnterReload, O!SignPcs, O!memory,
                O!inputs, O!outputs, stage, Submitted
  <2>3. ASSUME NEW kind \in O!Kinds, SupplyOffline(kind)
        PROVE  /\ UNCHANGED stage /\ Submitted' = Submitted
               /\ UNCHANGED <<payload, copied, dispatched, btcPc, published, pc>>
    BY <2>3 DEF SupplyOffline, O!SupplyPool, O!Operator, O!memory, O!outputs, stage,
                Submitted
  <2>4. QED
    BY <2>1, <2>2, <2>3
<1>2. QED
  BY <1>1, PaymentStutter DEF Paying, InSign

\* The client between two payments, and while it is confirmed.
LEMMA ClientPayment ==
  ASSUME IInv, PaymentInv, ClientStep \/ StartClient
  PROVE  PaymentInv'
<1>1. /\ btcPc # "await_signature"
      /\ UNCHANGED <<sigCounter, offPayload, partialOut, ppdOut, carried, partialFile,
                     ppdFile, round, payload, published, pc, offPc>>
  BY DEF ClientStep, StartClient, B!Broadcast, B!BroadcastRefused, B!Confirm,
         B!WritePayload, B!RunFails, B!Fund
<1>2. ~Busy /\ Settled /\ ~Paying
  BY <1>1 DEF PaymentInv, Paying
<1>3. Settled' /\ ~Paying'
  BY <1>1, <1>2 DEF Settled, NoOuts, NoFiles, Paying, InSign
<1>4. \/ UNCHANGED <<dispatched, copied>>
      \/ dispatched' = None /\ copied' = FALSE
  BY DEF ClientStep, StartClient
<1>5. ~Busy' /\ (~copied' => dispatched' \in {None, round'})
  BY <1>1, <1>2, <1>4 DEF Busy, PaymentInv
<1>6. QED
  BY <1>1, <1>3, <1>5 DEF PaymentInv, Paying

\* The coordinator reads the payload.
LEMMA EnterPayment ==
  ASSUME PaymentInv, EnterPayload
  PROVE  PaymentInv'
<1>1. /\ btcPc = "await_signature" /\ dispatched = None /\ dispatched' = round
      /\ payload' = payloadFile
      /\ UNCHANGED stage /\ Submitted' = Submitted
      /\ UNCHANGED <<copied, btcPc, published>>
  BY DEF EnterPayload, C!EnterPayload, C!fileVars, C!history, stage, Submitted
<1>2. /\ Settled' = Settled /\ ToSign' = ToSign /\ InOutput' = InOutput
      /\ OnTheWay' = OnTheWay /\ Arrived' = Arrived
  BY <1>1, StageKept
<1>3. Busy' = Busy /\ round' = round /\ payloadFile' = payloadFile
  BY <1>1 DEF Busy, stage
<1>4. QED
  BY <1>1, <1>2, <1>3 DEF PaymentInv

\* The operator copies the payload to the offline node.
LEMMA CopyPayment ==
  ASSUME IInv, PaymentInv, CopyPayload
  PROVE  PaymentInv'
<1>1. /\ btcPc = "await_signature" /\ ~copied /\ copied' = TRUE
      /\ offPayload' = [offPayload EXCEPT ![BtcPayload] = payloadFile]
      /\ UNCHANGED <<sigCounter, partialOut, ppdOut, carried, partialFile, ppdFile,
                     payloadFile, round, offPc, pc, payload, dispatched, btcPc, published>>
  BY DEF CopyPayload, O!PutPayload, O!Operator, O!memory, O!outputs
<1>2. Settled /\ dispatched \in {None, round}
  BY <1>1 DEF PaymentInv, Busy
<1>3. offPayload'[BtcPayload] = payloadFile
  BY <1>1, PlaceTypes
<1>4. ToSign'
  BY <1>1, <1>2, <1>3 DEF Settled, ToSign, NoOuts, NoFiles
<1>5. Busy'
  BY <1>1, <1>2 DEF Busy
<1>6. Paying' = Paying
  BY <1>1 DEF Paying, InSign
<1>7. QED
  BY <1>1, <1>4, <1>5, <1>6 DEF PaymentInv, Paying

\* Where a payment is that has reached the offline node, or a file of it.
LEMMA StageOf ==
  ASSUME PaymentInv
  PROVE  /\ Submitted => Busy /\ ToSign
         /\ offPayload[BtcPayload] # None => Busy /\ ToSign
         /\ ~Submitted /\ ~NoOuts => Busy /\ InOutput
         /\ carried # None => Busy /\ OnTheWay
         /\ carried = None /\ ~NoFiles => Busy /\ Arrived
<1>1. \/ ~Busy /\ Settled
      \/ Busy /\ (ToSign \/ InOutput \/ OnTheWay \/ Arrived)
  BY DEF PaymentInv
<1>2. QED
  BY <1>1 DEF Submitted, Settled, ToSign, InOutput, OnTheWay, Arrived, Made

\* The offline node reads the payload.
LEMMA SignPayment ==
  ASSUME IInv, PaymentInv, SignOffline
  PROVE  PaymentInv'
<1>1. /\ offPayload[BtcPayload] # None /\ offPc = "serve" /\ offPc' = "write_partial"
      /\ UNCHANGED stage
      /\ UNCHANGED <<pc, payload, copied, dispatched, btcPc, published>>
  BY DEF SignOffline, O!SubmitPayload, O!inputs, O!outputs, stage
<1>2. Busy /\ ToSign /\ NoOuts
  BY <1>1, StageOf DEF ToSign, O!SignPcs
<1>3. ToSign'
  BY <1>1, <1>2 DEF ToSign, NoOuts, NoFiles, O!SignPcs, stage
<1>4. Busy' /\ Paying' = Paying /\ round' = round /\ payloadFile' = payloadFile
  BY <1>1, <1>2 DEF Busy, Paying, InSign, stage
<1>5. QED
  BY <1>1, <1>2, <1>3, <1>4 DEF PaymentInv, Paying

\* The offline node writes the files of the round.
LEMMA WritePayment ==
  ASSUME IInv, PaymentInv, OfflineStep, O!WritePartial \/ O!WritePpd
  PROVE  PaymentInv'
<1>1. /\ Submitted /\ Submitted'
      /\ UNCHANGED <<sigCounter, offPayload, carried, partialFile, ppdFile, payloadFile,
                     round, pc, payload, copied, dispatched, btcPc, published>>
  BY DEF OfflineStep, O!WritePartial, O!WritePpd, O!memory, O!inputs, O!SignPcs, Submitted
<1>2. Busy /\ ToSign
  BY <1>1, StageOf
<1>3. \A c \in O!Counters \ {round} : partialOut'[c] = None /\ ppdOut'[c] = None
  BY <1>2, PlaceTypes DEF ToSign, O!WritePartial, O!WritePpd
<1>4. ToSign'
  BY <1>1, <1>2, <1>3 DEF ToSign, NoFiles, Submitted
<1>5. Busy' /\ Paying' = Paying
  BY <1>1, <1>2 DEF Busy, Paying, InSign
<1>6. QED
  BY <1>1, <1>2, <1>4, <1>5 DEF PaymentInv, Paying

\* The offline node is done with the payload, and its output lies ready.
LEMMA DeletePayment ==
  ASSUME IInv, PaymentInv, OfflineStep, O!DeletePayload
  PROVE  PaymentInv'
<1>1. /\ offPc = "delete_payload" /\ offPc' = "serve" /\ sigCounter' = sigCounter + 1
      /\ offPayload' = [offPayload EXCEPT ![name] = None]
      /\ UNCHANGED <<partialOut, ppdOut, carried, partialFile, ppdFile, payloadFile,
                     round, pc, payload, copied, dispatched, btcPc, published>>
  BY DEF OfflineStep, O!DeletePayload, O!outputs
<1>2. Submitted /\ ~Submitted'
  BY <1>1 DEF Submitted, O!SignPcs
<1>3. Busy /\ ToSign
  BY <1>2, StageOf
<1>4. /\ name = BtcPayload /\ partialOut[sigCounter] = offPartial
      /\ offPartial \in Partial /\ offPartial.payload = offPayload[BtcPayload]
  <2>1. OP!JobInv
    BY DEF IInv, OP!IInv
  <2>2. QED
    BY <1>1, <2>1, SameNames DEF OP!JobInv, OP!SignPcs, Names
<1>5. sigCounter = round /\ round \in O!Counters
  BY <1>2, <1>3, PlaceTypes DEF ToSign, Submitted
<1>6. offPayload'[BtcPayload] = None
  BY <1>1, <1>4, PlaceTypes
<1>7. partialOut[round] # None /\ partialOut[round].payload = payloadFile
  BY <1>3, <1>4, <1>5, NoneAssumption DEF ToSign
<1>8. Made'
  BY <1>1, <1>2, <1>5, <1>6 DEF Made, Submitted
<1>9. InOutput'
  BY <1>1, <1>3, <1>5, <1>7, <1>8 DEF InOutput, ToSign, NoFiles
<1>10. Busy' /\ Paying' = Paying
  BY <1>1, <1>3 DEF Busy, Paying, InSign
<1>11. QED
  BY <1>1, <1>3, <1>9, <1>10 DEF PaymentInv, Paying

\* The operator takes the output of the round: there is no other.
LEMMA TakePayment ==
  ASSUME IInv, PaymentInv, NEW c \in O!Counters, TakeOutput(c)
  PROVE  PaymentInv'
<1>1. /\ carried = None /\ partialOut[c] # None /\ offPc \in {"serve", "down"}
      /\ partialOut' = [partialOut EXCEPT ![c] = None]
      /\ ppdOut' = [ppdOut EXCEPT ![c] = None]
      /\ carried' = [counter |-> c, partial |-> partialOut[c], ppd |-> ppdOut[c]]
      /\ UNCHANGED <<sigCounter, offPayload, partialFile, ppdFile, payloadFile, offPc,
                     round, pc, payload, copied, dispatched, btcPc, published>>
  BY DEF TakeOutput, O!CollectOutput, O!Operator, O!memory, O!inputs
<1>2. Busy /\ InOutput
  <2>1. ~Submitted /\ ~NoOuts
    BY <1>1 DEF Submitted, O!SignPcs, NoOuts
  <2>2. QED
    BY <2>1, StageOf
<1>3. c = round
  BY <1>1, <1>2 DEF InOutput
<1>4. NoOuts'
  BY <1>1, <1>2, <1>3, PlaceTypes DEF InOutput, NoOuts
<1>5. /\ carried' # None /\ carried'.counter = round
      /\ carried'.partial # None /\ carried'.partial.payload = payloadFile
  <2>1. carried'.counter = round /\ carried'.partial = partialOut[round]
    BY <1>1, <1>3
  <2>2. ppdOut[c] # None
    BY DEF TakeOutput, O!CollectOutput
  <2>3. partialOut[c] \in Partial \cup {None} /\ ppdOut[c] \in PresigSet
    BY <2>2, PlaceTypes
  <2>4. carried' \in [counter : O!Counters, partial : Partial \cup {None}, ppd : PresigSet]
    BY <1>1, <2>3
  <2>5. carried' # None
    BY <2>4, AbsentAssumption, SameNames
  <2>6. QED
    BY <1>2, <2>1, <2>5 DEF InOutput
<1>6. /\ partialFile[round] = None /\ round \in C!Rounds
      /\ NoFiles
  BY <1>2, PlaceTypes DEF InOutput, NoFiles
<1>7. OnTheWay'
  <2>1. Made'
    BY <1>1, <1>2 DEF InOutput, Made
  <2>2. QED
    BY <1>1, <1>4, <1>5, <1>6, <2>1 DEF OnTheWay, NoFiles
<1>8. Busy' /\ Paying' = Paying
  BY <1>1, <1>2 DEF Busy, Paying, InSign
<1>9. QED
  BY <1>1, <1>2, <1>7, <1>8 DEF PaymentInv, Paying

\* The partial signature arrives, then the ppd.
LEMMA BringPayment ==
  ASSUME IInv, PaymentInv, BringPartial \/ BringPpd
  PROVE  PaymentInv'
<1>1. /\ carried # None
      /\ UNCHANGED <<sigCounter, offPayload, partialOut, ppdOut, payloadFile, offPc,
                     round, pc, payload, copied, dispatched, btcPc, published>>
  BY DEF BringPartial, BringPpd
<1>2. Busy /\ OnTheWay
  BY <1>1, StageOf
<1>3. carried.counter = round /\ round \in C!Rounds /\ Made /\ NoOuts
  BY <1>1, <1>2, PlaceTypes DEF OnTheWay
<1>4. Made' /\ NoOuts' /\ Busy' /\ Paying' = Paying
  BY <1>1, <1>2, <1>3 DEF Made, NoOuts, Busy, Paying, InSign
<1>5. CASE BringPartial
  <2>1. /\ partialFile' = [partialFile EXCEPT ![round] = carried.partial]
        /\ carried' = [carried EXCEPT !.partial = None] /\ UNCHANGED ppdFile
        /\ carried.partial # None /\ carried.partial.payload = payloadFile
    BY <1>2, <1>3, <1>5 DEF BringPartial, OnTheWay
  <2>2. /\ carried' \in [counter : O!Counters, partial : Partial \cup {None}, ppd : PresigSet]
        /\ carried'.counter = round /\ carried'.partial = None
    BY <1>1, <1>3, <2>1, PlaceTypes
  <2>3. carried' # None
    BY <2>2, AbsentAssumption, SameNames
  <2>4. /\ partialFile'[round] = carried.partial
        /\ \A r \in C!Rounds \ {round} : partialFile'[r] = None
    BY <1>2, <1>3, <2>1, PlaceTypes DEF OnTheWay
  <2>5. OnTheWay'
    BY <1>1, <1>2, <1>4, <2>1, <2>2, <2>3, <2>4 DEF OnTheWay
  <2>6. QED
    BY <1>1, <1>2, <1>4, <2>5 DEF PaymentInv, Paying
<1>6. CASE BringPpd
  <2>1. /\ ppdFile' = [ppdFile EXCEPT ![round] = carried.ppd]
        /\ carried' = None /\ UNCHANGED partialFile
        /\ partialFile[round] # None /\ partialFile[round].payload = payloadFile
    BY <1>2, <1>3, <1>6 DEF BringPpd, OnTheWay
  <2>2. \A r \in C!Rounds \ {round} : partialFile'[r] = None /\ ppdFile'[r] = None
    BY <1>2, <2>1, PlaceTypes DEF OnTheWay
  <2>3. Arrived'
    BY <1>1, <1>4, <2>1, <2>2 DEF Arrived
  <2>4. QED
    BY <1>1, <1>2, <1>4, <2>3 DEF PaymentInv, Paying
<1>7. QED
  BY <1>5, <1>6

\* Both files of the round are alone in node_0.
LEMMA ArrivedAlone ==
  ASSUME IInv, OnlineInv, PaymentInv, C!OutputsReadable
  PROVE  Busy /\ Arrived /\ ~C!Node0HoldsMore
<1>1. partialFile[round] # None /\ ppdFile[round] # None /\ round \in C!Rounds
  BY CoordFacts, SameNames DEF C!OutputsReadable
<1>2. Busy /\ Arrived
  <2>1. ~NoFiles
    BY <1>1 DEF NoFiles
  <2>2. carried # None => ppdFile[round] = None
    BY <1>1, StageOf DEF OnTheWay
  <2>3. QED
    BY <1>1, <2>1, <2>2, StageOf
<1>3. QED
  BY <1>2, SameNames DEF Arrived, C!Node0HoldsMore, OnlineInv

\* The coordinator combines, and both machines are in the next round.
LEMMA LoadPayment ==
  ASSUME IInv, OnlineInv, PaymentInv, LoadOutput, ~C!CombineFails
  PROVE  PaymentInv'
<1>1. PICK exported \in BOOLEAN : C!CombineSucceeds(exported)
  BY ArrivedAlone DEF LoadOutput, C!LoadOfflineDirNotEmpty
<1>2. /\ pc = "offline_wait" /\ C!OutputsReadable /\ round' = round + 1
      /\ carried = None
      /\ pc' \in {"reload_prompt", "payload_prompt"} /\ C!RemoveOutputs
      /\ \A x \in published' : x \in published \/ x.round = round
      /\ UNCHANGED <<sigCounter, offPayload, partialOut, ppdOut, carried, payloadFile,
                     offPc, copied, dispatched, btcPc>>
  BY <1>1 DEF LoadOutput, C!CombineSucceeds, C!OutputsReadable, C!NextRound, C!LoopTop
<1>3. Busy /\ Arrived /\ dispatched = round
  BY <1>2, ArrivedAlone DEF PaymentInv
<1>4. NoFiles'
  BY <1>2, <1>3, PlaceTypes DEF Arrived, NoFiles, C!RemoveOutputs
<1>5. Settled'
  BY <1>2, <1>3, <1>4 DEF Arrived, Made, Settled, NoOuts
<1>6. round \in Nat /\ dispatched # None /\ dispatched # round'
  BY <1>2, <1>3, AbsentAssumption, CoordFacts
<1>7. ~Busy' /\ copied'
  BY <1>2, <1>3, <1>6 DEF Busy
<1>8. ~Paying'
  BY <1>2 DEF Paying, InSign
<1>9. \A x \in published' : x.round < round'
  <2>1. \A x \in published : x.round \in Nat
    <3>1. published \subseteq CP!Published
      BY DEF IInv, CP!IInv, CP!TypeOK
    <3>2. QED
      BY <3>1, SameNames DEF CP!Published
  <2>2. QED
    BY <1>2, <1>6, <2>1 DEF PaymentInv
<1>10. QED
  BY <1>5, <1>7, <1>8, <1>9 DEF PaymentInv, Paying

\* The careful operator names a signature once its round is over.
LEMMA NamePayment ==
  ASSUME careful, IInv, PaymentInv, NEW r \in C!Rounds, EnterSignatureName(r)
  PROVE  PaymentInv'
<1>1. /\ r = dispatched /\ SigFile[r] # None
      /\ UNCHANGED <<stage, pc, payload, copied, dispatched, published, offPc>>
  BY DEF EnterSignatureName, B!ReadSignature, B!SignatureMissing, stage
<1>2. r < round /\ round \in Nat /\ r \in Nat
  <2>1. {x \in published : x.round = r} # {}
    BY <1>1, SameNames DEF SigFile
  <2>2. QED
    BY <2>1, CoordFacts, SameNames DEF PaymentInv
<1>3. ~Busy /\ Settled /\ ~Paying
  BY <1>1, <1>2, AbsentAssumption, SameNames DEF PaymentInv, Busy, Paying
<1>4. Settled' /\ ~Busy' /\ ~Paying'
  BY <1>1, <1>3 DEF Settled, NoOuts, NoFiles, Busy, Paying, InSign, stage
<1>5. ~copied' => dispatched' \in {None, round'}
  BY <1>1, <1>3 DEF PaymentInv, stage
<1>6. \A x \in published' : x.round < round'
  BY <1>1 DEF PaymentInv, stage
<1>7. QED
  BY <1>4, <1>5, <1>6 DEF PaymentInv, Paying

\* A payment goes through its stages, as long as no combination fails.
LEMMA PaymentStep ==
  ASSUME careful, IInv, OnlineInv, OfflineInv, PaymentInv, [Next]_vars, ~C!CombineFails
  PROVE  PaymentInv'
<1>1. CASE UNCHANGED vars
  BY <1>1, PaymentStutter DEF vars, stage, Submitted, Paying, InSign
<1>2. ~CrashOffline /\ ~CrashCoordinator
  BY DEF careful, CrashOffline, CrashCoordinator
<1>3. CASE OfflineStep
  BY <1>3, OfflinePayment, WritePayment, DeletePayment DEF OfflineStep
<1>4. \/ UNCHANGED vars \/ CoordinatorStep \/ OfflineStep \/ ClientStep
      \/ \E i \in C!Online : NodeStep(i) \/ SupplyNode(i)
      \/ \E kind \in O!Kinds : SupplyOffline(kind)
      \/ StartCoordinator \/ ReloadNodes \/ StartOrReloadOffline
      \/ StartClient \/ EnterPayload \/ CopyPayload \/ SignOffline
      \/ \E c \in O!Counters : TakeOutput(c)
      \/ BringPartial \/ BringPpd \/ LoadOutput
      \/ \E r \in C!Rounds : EnterSignatureName(r)
  BY <1>2 DEF Next, OperatorStep
<1>5. QED
  BY <1>1, <1>3, <1>4, CoordinatorPayment, OfflinePayment, ClientPayment, EnterPayment,
     CopyPayment, SignPayment, TakePayment, BringPayment, LoadPayment, NamePayment

-----------------------------------------------------------------------------
(* A careful operator loses no round *)

\* At the start nothing was used, and no payment is on its way.
LEMMA InitCareful == Init => CarefulInv
<1> SUFFICES ASSUME Init PROVE CarefulInv
  OBVIOUS
<1>1. C!Init /\ C!ProcessInit /\ O!Init /\ B!Init
  BY DEF Init, C!Init
<1>2. /\ pc = "init_send" /\ cursor = 1 /\ poolSizes = <<>> /\ failedNodes = {}
      /\ remaining = 0 /\ round = 0 /\ reply = C!NoReply /\ ~started /\ stray = {}
      /\ supplied = {} /\ published = {}
      /\ \A i \in C!Online : presigPool[i] = <<>> /\ poolFile[i] = None
  BY <1>1 DEF C!Init, C!ProcessInit, Init
<1>3. /\ 0 \in 0 .. Len(Deliveries) /\ Size(0) = 0 /\ 0 \in 0 .. Size(0)
      /\ Counted(0, 0, 0) /\ Rest(0, 0) = <<>> /\ First(0) = {}
  <2>1. 0 \in 0 .. Len(Deliveries) /\ Size(0) = 0 /\ 0 \in 0 .. Size(0)
    BY DeliveriesFacts
  <2>2. First(0) = {}
    BY DEF First
  <2>3. QED
    BY <2>1, <2>2, NothingUsed, RestFacts
<1>4. OnlineInv
  <2>1. \A i \in C!Online : Holds(i, 0, 0) /\ ~Passed(i)
    BY <1>2, <1>3, SameNames DEF Holds, Passed, Received, Brought
  <2>2. NodesInInit(0)
    BY <1>2, <2>1 DEF NodesInInit
  <2>3. QED
    BY <1>2, <1>3, <2>2 DEF OnlineInv, OnlineAt, InInit
<1>5. OfflineInv
  <2>1. /\ offPc = "down" /\ offPresigs = <<>> /\ offPpds = <<>> /\ sigCounter = 0
        /\ offStray = FALSE /\ offSupplied = {}
        /\ \A kind \in O!Kinds : offPoolFile[kind] = None
    BY <1>1 DEF O!Init
  <2>2. OfflineAt(0)
    BY <1>3, <2>1 DEF OfflineAt, O!SignPcs, O!Kinds, OffReceived, Brought
  <2>3. QED
    BY <1>3, <2>1, <2>2 DEF OfflineInv
<1>6. PlacesInv /\ NoOuts /\ NoFiles
  BY <1>1 DEF Init, C!Init, O!Init, PlacesInv, NoOuts, NoFiles
<1>7. PaymentInv
  <2>1. offPayload[BtcPayload] = None /\ sigCounter = 0 /\ offPc = "down" /\ carried = None
    BY <1>1 DEF O!Init, Init, Names
  <2>2. Settled
    BY <1>2, <1>6, <2>1 DEF Settled, O!SignPcs
  <2>3. ~copied /\ dispatched = None
    BY DEF Init
  <2>4. QED
    BY <1>2, <2>2, <2>3 DEF PaymentInv, Busy, InSign
<1>8. QED
  BY <1>4, <1>5, <1>6, <1>7 DEF CarefulInv

\* The output of a round and the online partial signatures of it are made with the set
\* that is used after as many others.
LEMMA CarefulCombines ==
  ASSUME IInv, CP!PassPending, careful => CarefulInv
  PROVE  NoRoundDiscarded
<1> SUFFICES ASSUME careful, pc = "offline_wait", partialFile[round] # None,
                    ppdFile[round] # None
             PROVE  /\ ~C!Node0HoldsMore
                    /\ Combines(C!AllPartials, N, ppdFile[round], payload)
  BY DEF NoRoundDiscarded
<1>1. OnlineInv /\ PlacesInv /\ PaymentInv
  BY DEF CarefulInv
<1>2. Arrived /\ ~C!Node0HoldsMore /\ payload = payloadFile
  BY <1>1, ArrivedAlone DEF C!OutputsReadable, PaymentInv
<1>3. /\ partialFile[round] \in Partial /\ partialFile[round].payload = payload
      /\ At(partialFile[round].set, round) /\ At(ppdFile[round], round)
  <2>1. round \in C!Rounds
    BY CoordFacts, SameNames
  <2>2. QED
    BY <1>1, <1>2, <2>1, PlaceTypes DEF Arrived, PlacesInv
<1>4. /\ partials \in Seq(Partial)
      /\ \A k \in DOMAIN partials :
           partials[k].payload = payload /\ At(partials[k].set, round)
      /\ Len(partials) = N - 1 /\ N \in Nat
  BY <1>1, CoordFacts DEF OnlineInv, OnlineAt, InInit, NodesInLoop, CP!PassPending
<1>5. \A sig \in Partial : sig = [set |-> sig.set, payload |-> sig.payload]
  BY DEF Partial
<1> DEFINE whole == [set |-> ppdFile[round], payload |-> payload]
<1>6. partialFile[round] = whole
  <2>1. partialFile[round].set = ppdFile[round]
    BY <1>3, SamePlace
  <2>2. QED
    BY <1>3, <1>5, <2>1
<1>7. \A k \in DOMAIN partials : partials[k] = whole
  <2>1. TAKE k \in DOMAIN partials
  <2>2. partials[k] \in Partial /\ partials[k].payload = payload
        /\ partials[k].set = ppdFile[round]
    BY <1>3, <1>4, SamePlace
  <2>3. QED
    BY <1>5, <2>2
<1>8. whole \in Partial
  BY <1>3, <1>6
<1> HIDE DEF whole
<1>9. /\ Len(<<whole>> \o partials) = N
      /\ \A k \in DOMAIN (<<whole>> \o partials) : (<<whole>> \o partials)[k] = whole
  BY <1>4, <1>7, <1>8
<1>10. QED
  BY <1>2, <1>6, <1>9 DEF Combines, C!AllPartials, whole

\* Nothing a careful operator does leaves a round with partial signatures that do not
\* combine: NoRoundDiscarded, for every number of parties, every sequence of batches
\* and every payload.
THEOREM NoRoundLost == Spec => []NoRoundDiscarded
<1> DEFINE Inv == careful => CarefulInv
<1>1. Init => Inv
  BY InitCareful
<1>2. IInv /\ CP!PassPending /\ Inv /\ [Next]_vars => Inv'
  <2>1. SUFFICES ASSUME IInv, CP!PassPending, Inv, [Next]_vars, careful' PROVE CarefulInv'
    OBVIOUS
  <2>2. careful
    BY <2>1 DEF careful, Next, CoordinatorStep, NodeStep, OfflineStep, ClientStep,
         OperatorStep, SupplyNode, SupplyOffline, StartCoordinator, ReloadNodes,
         StartOrReloadOffline, StartClient, EnterPayload, CopyPayload, SignOffline,
         TakeOutput, BringPartial, BringPpd, LoadOutput, EnterSignatureName,
         CrashCoordinator, CrashOffline, vars
  <2>3. CarefulInv
    BY <2>1, <2>2
  <2>4. ~C!CombineFails
    <3>1. NoRoundDiscarded
      BY <2>1, CarefulCombines
    <3>2. C!Combines(C!AllPartials, N, ppdFile[round], payload)
            <=> Combines(C!AllPartials, N, ppdFile[round], payload)
      BY DEF C!Combines, Combines
    <3>3. QED
      BY <2>2, <3>1, <3>2 DEF NoRoundDiscarded, C!CombineFails, C!OutputsReadable
  <2>5. QED
    BY <2>1, <2>2, <2>3, <2>4, OnlineInvStep, OfflineInvStep, PlacesStep, PaymentStep
       DEF CarefulInv
<1>3. IInv /\ CP!PassPending /\ Inv => NoRoundDiscarded
  BY CarefulCombines
<1>4. CP!PromiseInv => CP!PassPending
  BY DEF CP!PromiseInv
<1>5. QED
  BY <1>1, <1>2, <1>3, <1>4, IInvHolds, CoordPromise, PTL DEF Spec
=============================================================================
