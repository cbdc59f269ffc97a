------------------------- MODULE OneDirectory_proofs -------------------------
(***************************************************************************)
(* Theorem about OneDirectory: the three rules of the operator are enough  *)
(* for every number of parties and any sequence of batches and payments.   *)
(***************************************************************************)
EXTENDS OneDirectory, TLAPS

USE DEF coordMem, coordVars, offMem, offVars, btcVars, outputs, others

-----------------------------------------------------------------------------
(* The inductive invariant *)

\* The offline node has not ended: its only session is running or still to come.
Alive == offPc # "down" \/ sessions = 0

OfflineSigning == offPc \in O!SignPcs
PayloadThere   == payloadFile[BtcPayload] # None

\* From the entry of a payload until its signature is exported.
InRound == C!SignPcs \cup {"offline_wait"}

TypeInv ==
  /\ round \in 0 .. MaxRound
  /\ dispatched \in 0 .. MaxRound - 1 \cup {None}
  /\ sigCounter \in Nat
  /\ payloadFile = [f \in Names |-> payloadFile[f]]
  /\ partialFile = [r \in 0 .. MaxRound |-> partialFile[r]]
  /\ ppdFile = [r \in 0 .. MaxRound |-> ppdFile[r]]
  /\ btcPc = "write_payload" => sighash \in Payloads
  /\ sessions \in {0, 1}
  /\ offPc # "down" => sessions = 1

\* While the offline node signs, the client leaves the payload file alone; and what
\* was entered at the coordinator is the payload of the file.
SigningInv ==
  /\ OfflineSigning =>
       /\ btcPc # "write_payload" /\ dispatched # None
       /\ name = BtcPayload
       /\ PayloadThere /\ payloadFile[BtcPayload] = offPartial.payload
  /\ dispatched # None /\ PayloadThere => payload = payloadFile[BtcPayload]

\* The client waits for as long as an entered payload is not signed offline, and
\* while the coordinator is in its round; so a signature that is there is one the
\* offline node has had its part in.
WaitInv ==
  /\ Alive /\ dispatched # None /\ PayloadThere /\ ~OfflineSigning =>
       btcPc = "await_signature"
  /\ Alive /\ (\E x \in published : x.round = dispatched) =>
       ~PayloadThere \/ OfflineSigning
  /\ pc \in InRound => dispatched = round /\ btcPc = "await_signature"

\* Outputs are of counters that were used, and the counter is never ahead of the
\* round of the payload that is to be signed next.
CountInv ==
  /\ Alive => \A c \in 0 .. MaxRound :
       partialFile[c] # None \/ ppdFile[c] # None =>
         c < sigCounter \/ (c = sigCounter /\ OfflineSigning)
  /\ dispatched = None => sigCounter <= round
  /\ dispatched # None =>
       /\ dispatched <= round /\ sigCounter <= dispatched + 1
       /\ OfflineSigning \/ PayloadThere => sigCounter <= dispatched
       /\ btcPc # "await_signature" => dispatched < round
  /\ \A x \in published : x.round \in 0 .. MaxRound /\ x.round < round

\* The batch a load of the offline node reads is complete, and while it can sign
\* with one no further batch is begun: then node_0 holds no pool file of its own.
NoOffPools == \A kind \in O!Kinds : offPoolFile[kind] = None

PoolInv ==
  /\ offPoolFile = [kind \in {"presig", "ppd"} |-> offPoolFile[kind]]
  /\ started /\ pc # "reload_prompt" => Generated
  /\ ~started => pc = "init_send" /\ dispatched = None
  /\ offPc \in O!LoadPcs => Generated
  /\ offPc \in {"ppd", "remove_dir"} => offPoolFile["presig"] = None
  /\ offPc = "remove_dir" => offPoolFile["ppd"] = None
  /\ OfflineSigning \/ (offPc = "serve" /\ offPresigs # <<>>) =>
       Generated /\ NoOffPools

NoOutputs == \A c \in 0 .. MaxRound : partialFile[c] = None /\ ppdFile[c] = None

\* The two counters agree exactly, and an output is of the payload in progress:
\* none is there before it was entered or after its round.
OutputInv ==
  Alive =>
    /\ dispatched = None => sigCounter = round /\ NoOutputs
    /\ dispatched = None /\ btcPc = "await_signature" => PayloadThere
    /\ dispatched # None =>
         /\ sigCounter = IF PayloadThere THEN dispatched ELSE dispatched + 1
         /\ round \in {dispatched, dispatched + 1}
         /\ round # dispatched =>
              NoOutputs /\ (offPc = "delete_payload" \/ ~PayloadThere)
         /\ \A c \in 0 .. MaxRound :
              partialFile[c] # None \/ ppdFile[c] # None =>
                c = dispatched /\ (OfflineSigning \/ ~PayloadThere)
         /\ ppdFile[dispatched] # None => offPc \notin {"write_partial", "write_ppd"}
         /\ round = dispatched =>
              /\ offPc \in {"write_ppd", "delete_payload"} =>
                   partialFile[round] = offPartial
              /\ offPc = "delete_payload" => ppdFile[round] = offPpd
    /\ pc \in InRound /\ ~NoOutputs => NoOffPools

IInv == TypeInv /\ SigningInv /\ WaitInv /\ CountInv /\ PoolInv /\ OutputInv

-----------------------------------------------------------------------------
(* Every step preserves it *)

LEMMA Values ==
  /\ C!Rounds = 0 .. MaxRound /\ O!Counters = 0 .. MaxRound
  /\ O!SignPcs = {"write_partial", "write_ppd", "delete_payload"}
  /\ InRound = {"sign_send", "sign_wait", "offline_wait"}
  /\ Names = {BtcPayload} /\ MaxSessions = 1
  /\ O!Kinds = {"presig", "ppd"}
  /\ O!LoadPcs = {"presig", "ppd", "read_pools", "remove_dir"}
<1>1. O!Counters = 0 .. MaxRound
  BY OneDirectoryAssumption DEF O!Counters, MaxOutputs
<1>2. QED
  BY <1>1 DEF C!Rounds, O!SignPcs, InRound, C!SignPcs, Names, MaxSessions, O!Kinds,
              O!LoadPcs

LEMMA Initially == Init => IInv
<1> SUFFICES ASSUME Init PROVE IInv
  OBVIOUS
<1>1. TypeInv
  BY Values, OneDirectoryAssumption
  DEF Init, O!Init, C!Init, C!ProcessInit, B!Init, TypeInv
<1>2. SigningInv /\ WaitInv
  BY Values DEF Init, O!Init, C!Init, C!ProcessInit, B!Init, SigningInv, WaitInv,
                OfflineSigning, PayloadThere
<1>3. CountInv
  BY Values, OneDirectoryAssumption
  DEF Init, O!Init, C!Init, C!ProcessInit, B!Init, CountInv, OfflineSigning,
      PayloadThere
<1>4. PoolInv
  BY Values DEF Init, O!Init, C!Init, C!ProcessInit, B!Init, PoolInv, OfflineSigning
<1>5. OutputInv
  BY Values, OneDirectoryAssumption
  DEF Init, O!Init, C!Init, C!ProcessInit, B!Init, OutputInv, NoOutputs, NoOffPools,
      OfflineSigning, PayloadThere
<1>6. QED
  BY <1>1, <1>2, <1>3, <1>4, <1>5 DEF IInv

\* What the offline node has to do with pool files.
LEMMA OfflinePools ==
  ASSUME PoolInv, UNCHANGED <<pc, others>>,
         \/ O!Loading \/ O!WritePartial \/ O!WritePpd \/ O!DeletePayload
         \/ Generated /\ (O!Start \/ O!PressEnterReload)
         \/ O!SubmitPayload(BtcPayload)
  PROVE  PoolInv'
<1>0. Generated' = Generated /\ UNCHANGED <<pc, started, dispatched>>
  BY DEF Generated
<1>1. CASE Generated /\ (O!Start \/ O!PressEnterReload)
  <2>1. offPc' = "read_pools" /\ UNCHANGED offPoolFile
    BY <1>1 DEF O!Start, O!PressEnterReload, O!inputs
  <2>2. QED
    BY <1>0, <1>1, <2>1, Values DEF PoolInv, OfflineSigning
<1>2. CASE O!ReadPools
  BY <1>0, <1>2, Values DEF O!ReadPools, O!inputs, PoolInv, OfflineSigning
<1>3. ASSUME NEW kind \in O!Kinds, O!RemovePoolFile(kind) PROVE PoolInv'
  <2>1. /\ offPc = kind /\ offPc' = IF kind = "presig" THEN "ppd" ELSE "remove_dir"
        /\ offPoolFile' = [offPoolFile EXCEPT ![kind] = None]
    BY <1>3 DEF O!RemovePoolFile
  <2>2. /\ kind \in {"presig", "ppd"} /\ Generated
        /\ kind = "ppd" => offPoolFile["presig"] = None
    BY <2>1, Values DEF PoolInv
  <2>3. /\ kind = "presig" => offPoolFile'["presig"] = None
        /\ kind = "ppd" => offPoolFile'["presig"] = None /\ offPoolFile'["ppd"] = None
        /\ offPoolFile' = [k \in {"presig", "ppd"} |-> offPoolFile'[k]]
    BY <2>1, <2>2 DEF PoolInv
  <2>4. QED
    BY <1>0, <2>1, <2>2, <2>3, Values DEF PoolInv, OfflineSigning
<1>4. CASE O!RemoveDir
  BY <1>0, <1>4, Values
  DEF O!RemoveDir, O!memory, O!pools, O!inputs, PoolInv, OfflineSigning, NoOffPools
<1>5. CASE O!LoadPanics
  BY <1>0, <1>5, Values DEF O!LoadPanics, O!Ends, O!inputs, PoolInv, OfflineSigning
<1>6. CASE O!WritePartial \/ O!WritePpd \/ O!DeletePayload \/ O!SubmitPayload(BtcPayload)
  <2>1. /\ OfflineSigning \/ (offPc = "serve" /\ offPresigs # <<>>)
        /\ offPc' \in O!SignPcs \cup {"serve"}
        /\ UNCHANGED offPoolFile
    BY <1>6, Values
    DEF O!WritePartial, O!WritePpd, O!DeletePayload, O!SubmitPayload, O!inputs,
        O!memory, O!pools, O!IsEmpty, OfflineSigning
  <2>2. QED
    BY <1>0, <2>1, Values DEF PoolInv, NoOffPools
<1>7. QED
  BY <1>1, <1>2, <1>3, <1>4, <1>5, <1>6 DEF O!Loading

LEMMA PoolStep ==
  ASSUME IInv, [Next]_vars
  PROVE  PoolInv'
<1> USE DEF IInv
<1>1. CASE CoordinatorStep
  <2>1. /\ started /\ pc # "reload_prompt"
        /\ UNCHANGED <<offVars, others>>
    BY <1>1
    DEF CoordinatorStep, C!Coordinator, C!SendInit, C!RecvInit, C!RetryInit,
        C!SendSign, C!RecvSign
  <2>2. QED
    BY <2>1 DEF PoolInv, Generated, OfflineSigning, NoOffPools
<1>2. CASE \E i \in C!Online : NodeStep(i)
  BY <1>2 DEF NodeStep, C!Node, C!NodeInitMissing, C!NodeInitDirNotEmpty,
              C!NodeInitLoads, C!NodeSignRefuses, C!NodeSigns, PoolInv, Generated,
              OfflineSigning, NoOffPools
<1>3. CASE WriteFile
  <2>1. ~Generated /\ UNCHANGED <<started, dispatched>>
    BY <1>3 DEF WriteFile
  <2>2. /\ UNCHANGED <<pc, offPc, offPresigs>>
        /\ offPoolFile' = [kind \in {"presig", "ppd"} |-> offPoolFile'[kind]]
    BY <1>3 DEF PoolInv, WriteFile, O!SupplyPool, O!Operator, O!memory, O!pools,
                C!SupplyPool, C!program
  <2>3. QED
    BY <2>1, <2>2, Values DEF PoolInv, OfflineSigning
<1>4. CASE Regenerate
  BY <1>4, Values DEF Regenerate, PoolInv, OfflineSigning, IsEmpty
<1>5. CASE StartCoordinator \/ ReloadNodes
  BY <1>5 DEF StartCoordinator, ReloadNodes, C!PressEnterReload, PoolInv, Generated,
              OfflineSigning, NoOffPools
<1>6. CASE StartOrReloadOffline \/ OfflineStep \/ SignOffline
  BY <1>6, OfflinePools DEF StartOrReloadOffline, OfflineStep, SignOffline
<1>7. CASE ClientStep \/ StartClient \/ EnterSignatureName
  BY <1>7 DEF ClientStep, StartClient, EnterSignatureName, PoolInv, Generated,
              OfflineSigning, NoOffPools
<1>8. CASE EnterPayload \/ LoadOutput
  <2>1. /\ pc \in {"payload_prompt", "offline_wait"}
        /\ UNCHANGED <<offVars, started, generated, written>>
    BY <1>8 DEF EnterPayload, C!EnterPayload, LoadOutput, C!LoadOfflineDirNotEmpty,
                C!CombineFails, C!CombineSucceeds, C!OutputsReadable
  <2>2. QED
    BY <2>1 DEF PoolInv, Generated, OfflineSigning, NoOffPools
<1>9. CASE UNCHANGED vars
  BY <1>9 DEF vars, PoolInv, Generated, OfflineSigning, NoOffPools
<1>10. QED
  BY <1>1, <1>2, <1>3, <1>4, <1>5, <1>6, <1>7, <1>8, <1>9 DEF Next, OperatorStep

\* Steps that leave the payload, the outputs and the client alone.
LEMMA Elsewhere ==
  ASSUME IInv, PoolInv',
         UNCHANGED <<round, payload, published, dispatched, payloadFile, outputs,
                     sigCounter, name, offPartial, offPpd, btcVars>>,
         pc' \in InRound => pc \in InRound /\ (NoOffPools => NoOffPools'),
         offPc' = offPc \/ (~OfflineSigning /\ ~OfflineSigning'), Alive' => Alive,
         sessions' \in {0, 1}, offPc' # "down" => sessions' = 1
  PROVE  IInv'
<1>0. OfflineSigning' = OfflineSigning
  BY DEF OfflineSigning
<1>1. TypeInv'
  BY DEF IInv, TypeInv
<1>2. SigningInv'
  BY <1>0 DEF IInv, SigningInv, PayloadThere
<1>3. WaitInv'
  BY <1>0 DEF IInv, WaitInv, PayloadThere, InRound
<1>4. CountInv'
  BY <1>0 DEF IInv, CountInv, PayloadThere
<1>5. OutputInv'
  BY <1>0, Values DEF IInv, OutputInv, PayloadThere, NoOutputs, InRound, OfflineSigning
<1>6. QED
  BY <1>1, <1>2, <1>3, <1>4, <1>5 DEF IInv

\* The coordinator between two prompts, its nodes, and initialization.
LEMMA OthersStep ==
  ASSUME IInv, PoolInv',
         \/ CoordinatorStep \/ (\E i \in C!Online : NodeStep(i))
         \/ WriteFile \/ Regenerate \/ StartCoordinator \/ ReloadNodes
  PROVE  IInv'
<1>0. ASSUME UNCHANGED <<round, payload, published, dispatched, payloadFile, outputs,
                         offVars, btcVars>>,
             pc' \in InRound => pc \in InRound
      PROVE  IInv'
  BY <1>0, Elsewhere DEF IInv, TypeInv, OfflineSigning, Alive, NoOffPools
<1>1. CASE CoordinatorStep
  BY <1>0, <1>1, Values
  DEF CoordinatorStep, C!Coordinator, C!SendInit, C!RecvInit, C!RetryInit,
      C!StartInitPass, C!InitPassEnds, C!LoopTop, C!SendSign, C!RecvSign,
      C!SignPassEnds, C!mainVars, C!history
<1>2. CASE \E i \in C!Online : NodeStep(i)
  BY <1>0, <1>2 DEF NodeStep, C!Node, C!NodeInitMissing, C!NodeInitDirNotEmpty,
                    C!NodeInitLoads, C!NodeSignRefuses, C!NodeSigns, C!mainVars,
                    C!history
<1>3. CASE WriteFile
  <2>1. UNCHANGED <<btcVars, outputs, payloadFile, dispatched>>
    BY <1>3 DEF WriteFile
  <2>2. PICK b : \/ UNCHANGED coordVars /\ O!SupplyPool("presig", b)
                 \/ UNCHANGED offVars /\ C!SupplyPool(b, written)
                 \/ UNCHANGED coordVars /\ O!SupplyPool("ppd", b)
    BY <1>3 DEF WriteFile
  <2>3. CASE \E kind : UNCHANGED coordVars /\ O!SupplyPool(kind, b)
    <3>1. pc \notin InRound /\ pc' = pc
      BY <1>3, <2>3, Values DEF WriteFile, IInv, PoolInv
    <3>2. QED
      BY <2>1, <2>3, <3>1, Elsewhere, Values
      DEF O!SupplyPool, O!Operator, O!memory, O!pools, O!job, IInv, TypeInv,
          OfflineSigning, Alive
  <2>4. CASE UNCHANGED offVars /\ C!SupplyPool(b, written)
    BY <1>0, <2>1, <2>4 DEF C!SupplyPool, C!program, C!mainVars
  <2>5. QED
    BY <2>2, <2>3, <2>4
<1>4. CASE Regenerate \/ StartCoordinator
  BY <1>0, <1>4 DEF Regenerate, StartCoordinator
<1>5. CASE ReloadNodes
  BY <1>0, <1>5, Values DEF ReloadNodes, C!PressEnterReload, C!StartInitPass, C!history
<1>6. QED
  BY <1>1, <1>2, <1>3, <1>4, <1>5

\* Loading pools, a panic included, and the start of the offline node.
LEMMA LoadingStep ==
  ASSUME IInv, PoolInv', O!Start \/ O!PressEnterReload \/ O!Loading,
         UNCHANGED <<coordVars, btcVars, others>>
  PROVE  IInv'
<1>1. UNCHANGED <<round, payload, published, dispatched>> /\ pc' = pc
  OBVIOUS
<1>2. CASE O!LoadPanics
  <2>1. /\ sigCounter' = 0 /\ offPc' = "down" /\ sessions' = 1
        /\ UNCHANGED <<payloadFile, outputs>>
    BY <1>2 DEF O!LoadPanics, O!Ends, O!inputs, O!outputs, O!history, IInv, TypeInv
  <2>2. ~Alive' /\ ~OfflineSigning'
    BY <2>1, Values DEF Alive, OfflineSigning
  <2>3. TypeInv'
    BY <1>1, <2>1 DEF IInv, TypeInv
  <2>4. SigningInv' /\ WaitInv'
    BY <1>1, <2>1, <2>2 DEF IInv, SigningInv, WaitInv, PayloadThere, InRound
  <2>5. CountInv'
    BY <1>1, <2>1, <2>2 DEF IInv, TypeInv, CountInv, PayloadThere
  <2>6. QED
    BY <2>2, <2>3, <2>4, <2>5 DEF IInv, OutputInv
<1>3. CASE O!Start
  BY <1>1, <1>3, Elsewhere, Values
  DEF O!Start, O!memory, O!pools, O!job, O!inputs, O!outputs, IInv, TypeInv,
      OfflineSigning, Alive, NoOffPools
<1>4. CASE O!PressEnterReload \/ O!ReadPools \/ O!RemoveDir
  BY <1>1, <1>4, Elsewhere, Values
  DEF O!PressEnterReload, O!ReadPools, O!RemoveDir, O!memory, O!pools, O!job,
      O!inputs, O!outputs, O!history, IInv, TypeInv, OfflineSigning, Alive,
      NoOffPools
<1>5. ASSUME NEW kind \in O!Kinds, O!RemovePoolFile(kind) PROVE IInv'
  <2>1. NoOffPools => NoOffPools'
    BY <1>5 DEF O!RemovePoolFile, NoOffPools, IInv, PoolInv
  <2>2. QED
    BY <1>1, <1>5, <2>1, Elsewhere, Values
    DEF O!RemovePoolFile, O!Kinds, O!memory, O!pools, O!job, O!outputs, O!history,
        IInv, TypeInv, OfflineSigning, Alive
<1>6. QED
  BY <1>2, <1>3, <1>4, <1>5 DEF O!Loading

\* One payload is signed: it was entered, the client waits, and the coordinator is
\* in the round of the counter.
LEMMA SigningStep ==
  ASSUME IInv, PoolInv', SignOffline
  PROVE  IInv'
<1>1. /\ O!SubmitPayload(BtcPayload) /\ dispatched # None
      /\ UNCHANGED <<coordVars, btcVars, others>>
  BY DEF SignOffline
<1>2. /\ offPc = "serve" /\ offPc' = "write_partial" /\ PayloadThere
      /\ name' = BtcPayload /\ offPartial'.payload = payloadFile[BtcPayload]
      /\ UNCHANGED <<sigCounter, payloadFile, outputs, offPoolFile, sessions>>
  BY <1>1 DEF O!SubmitPayload, O!IssuePartialSignature, O!inputs, O!outputs, PayloadThere
<1>3. Alive /\ Alive' /\ ~OfflineSigning /\ OfflineSigning' /\ PayloadThere'
  BY <1>2, Values DEF Alive, OfflineSigning, PayloadThere
<1>4. btcPc = "await_signature"
  BY <1>1, <1>2, <1>3 DEF IInv, WaitInv
<1>5. TypeInv'
  BY <1>1, <1>2 DEF IInv, TypeInv
<1>6. SigningInv'
  BY <1>1, <1>2, <1>3, <1>4 DEF IInv, SigningInv
<1>7. WaitInv'
  BY <1>1, <1>2, <1>3, <1>4 DEF IInv, WaitInv, InRound
<1>8. CountInv'
  BY <1>1, <1>2, <1>3 DEF IInv, TypeInv, CountInv
<1>9. OutputInv'
  <2>1. NoOutputs
    BY <1>1, <1>2, <1>3 DEF IInv, OutputInv, NoOutputs
  <2>2. dispatched \in 0 .. MaxRound
    BY <1>1, OneDirectoryAssumption DEF IInv, TypeInv
  <2>3. QED
    BY <1>1, <1>2, <1>3, <2>1, <2>2 DEF IInv, OutputInv, NoOutputs
<1>10. QED
  BY <1>5, <1>6, <1>7, <1>8, <1>9 DEF IInv

LEMMA WritingStep ==
  ASSUME IInv, PoolInv', O!WritePartial \/ O!WritePpd,
         UNCHANGED <<coordVars, btcVars, others>>
  PROVE  IInv'
<1>1. /\ Alive /\ Alive' /\ OfflineSigning /\ OfflineSigning'
      /\ offPc # "down" /\ offPc' # "down"
      /\ UNCHANGED <<sigCounter, name, offPartial, payloadFile, sessions>>
  BY Values DEF O!WritePartial, O!WritePpd, O!memory, O!pools, O!job, O!inputs,
                O!history, Alive, OfflineSigning
<1>2. /\ \A c \in 0 .. MaxRound :
           /\ c # sigCounter =>
                partialFile'[c] = partialFile[c] /\ ppdFile'[c] = ppdFile[c]
      /\ partialFile' = [r \in 0 .. MaxRound |-> partialFile'[r]]
      /\ ppdFile' = [r \in 0 .. MaxRound |-> ppdFile'[r]]
  BY DEF O!WritePartial, O!WritePpd, IInv, TypeInv
<1>3. TypeInv'
  BY <1>1, <1>2 DEF IInv, TypeInv
<1>4. SigningInv' /\ WaitInv'
  BY <1>1 DEF IInv, SigningInv, WaitInv, PayloadThere, InRound
<1>5. CountInv'
  BY <1>1, <1>2 DEF IInv, TypeInv, CountInv, PayloadThere
<1>6. /\ dispatched # None /\ dispatched \in 0 .. MaxRound - 1 /\ PayloadThere
      /\ PayloadThere' /\ UNCHANGED offPpd /\ NoOffPools'
  BY <1>1 DEF IInv, TypeInv, SigningInv, PoolInv, O!WritePartial, O!WritePpd,
              O!memory, O!job, PayloadThere
<1>7. sigCounter = dispatched /\ round = dispatched
  BY <1>1, <1>6 DEF IInv, OutputInv, O!WritePartial, O!WritePpd
<1>8. OutputInv'
  <2>1. CASE O!WritePartial
    <3>1. /\ offPc = "write_partial" /\ offPc' = "write_ppd" /\ ppdFile' = ppdFile
          /\ partialFile'[round] = offPartial
      BY <1>6, <1>7, <2>1, OneDirectoryAssumption
      DEF O!WritePartial, IInv, TypeInv
    <3>2. QED
      BY <1>1, <1>2, <1>6, <1>7, <3>1 DEF IInv, OutputInv
  <2>2. CASE O!WritePpd
    <3>1. /\ offPc = "write_ppd" /\ offPc' = "delete_payload"
          /\ partialFile' = partialFile /\ ppdFile'[round] = offPpd
      BY <1>6, <1>7, <2>2, OneDirectoryAssumption DEF O!WritePpd, IInv, TypeInv
    <3>2. QED
      BY <1>1, <1>2, <1>6, <1>7, <3>1 DEF IInv, OutputInv
  <2>3. QED
    BY <2>1, <2>2
<1>9. QED
  BY <1>3, <1>4, <1>5, <1>8 DEF IInv

LEMMA DeletingStep ==
  ASSUME IInv, PoolInv', O!DeletePayload, UNCHANGED <<coordVars, btcVars, others>>
  PROVE  IInv'
<1>1. /\ OfflineSigning /\ ~OfflineSigning' /\ offPc # "down" /\ offPc' = "serve"
      /\ sigCounter' = sigCounter + 1
      /\ payloadFile' = [payloadFile EXCEPT ![name] = None]
      /\ UNCHANGED <<outputs, offPoolFile, sessions>>
  BY Values DEF O!DeletePayload, O!outputs, O!history, OfflineSigning
<1>2. Alive /\ Alive' /\ ~PayloadThere'
  BY <1>1, Values DEF Alive, PayloadThere, IInv, TypeInv, SigningInv
<1>3. TypeInv'
  BY <1>1 DEF IInv, TypeInv
<1>4. SigningInv' /\ WaitInv'
  BY <1>1, <1>2 DEF IInv, SigningInv, WaitInv, InRound
<1>5. CountInv'
  BY <1>1, <1>2 DEF IInv, TypeInv, CountInv, SigningInv
<1>6. dispatched # None /\ dispatched \in 0 .. MaxRound - 1 /\ PayloadThere
  BY <1>1 DEF IInv, TypeInv, SigningInv
<1>7. OutputInv'
  BY <1>1, <1>2, <1>6 DEF IInv, TypeInv, OutputInv, NoOutputs, NoOffPools
<1>8. QED
  BY <1>3, <1>4, <1>5, <1>7 DEF IInv

-----------------------------------------------------------------------------

\* A new payload is funded only when the offline node is done with the last one, and
\* written only when the coordinator is: its round is over once a signature was read.
LEMMA ClientSteps ==
  ASSUME IInv, PoolInv', ClientStep \/ StartClient
  PROVE  IInv'
<1>1. /\ UNCHANGED <<round, payload, published, pc, outputs, sessions, offPc,
                     sigCounter, name, offPartial, offPpd, offPoolFile>>
      /\ Alive' = Alive /\ OfflineSigning' = OfflineSigning
  BY DEF ClientStep, StartClient, Alive, OfflineSigning
<1>2. CASE B!WritePayload /\ dispatched' = None
           /\ payloadFile' = [payloadFile EXCEPT ![BtcPayload] = sighash]
  <2>1. /\ btcPc = "write_payload" /\ btcPc' = "await_signature"
        /\ dispatched' = None /\ ~OfflineSigning
        /\ UNCHANGED sighash
    BY <1>2 DEF B!WritePayload, IInv, SigningInv
  <2>2. TypeInv'
    BY <1>1, <1>2, <2>1 DEF IInv, TypeInv
  <2>3. SigningInv' /\ WaitInv'
    BY <1>1, <2>1, AbsentAssumption
    DEF IInv, SigningInv, WaitInv, CountInv, InRound
  <2>4. CountInv'
    BY <1>1, <2>1 DEF IInv, TypeInv, CountInv
  <2>5. OutputInv'
    <3>1. PayloadThere'
      BY <1>2, <2>1, BatchAssumption, Values DEF IInv, TypeInv, PayloadThere
    <3>2. ~Alive \/ (sigCounter = round /\ NoOutputs)
      BY <2>1 DEF IInv, TypeInv, WaitInv, CountInv, OutputInv
    <3>3. QED
      BY <1>1, <2>1, <3>1, <3>2 DEF OutputInv, NoOutputs
  <2>6. QED
    BY <2>2, <2>3, <2>4, <2>5 DEF IInv
<1>3. CASE /\ B!Broadcast \/ B!BroadcastRefused \/ B!Confirm
           /\ UNCHANGED <<payloadFile, dispatched>>
  <2>1. btcPc \in {"broadcast", "confirm"} /\ btcPc' \in {"confirm", "down"}
    BY <1>3 DEF B!Broadcast, B!BroadcastRefused, B!Confirm, B!Ends
  <2>2. QED
    BY <1>1, <1>3, <2>1
    DEF IInv, TypeInv, SigningInv, WaitInv, CountInv, OutputInv, PayloadThere,
        InRound, NoOutputs, NoOffPools
<1>4. CASE StartClient
  <2>1. /\ btcPc = "down" /\ btcPc' = "write_payload" /\ sighash' \in Payloads
        /\ ~OfflineSigning /\ UNCHANGED <<payloadFile, dispatched>>
    BY <1>4, Values DEF StartClient, B!Fund, OfflineSigning
  <2>2. QED
    BY <1>1, <2>1
    DEF IInv, TypeInv, SigningInv, WaitInv, CountInv, OutputInv, PayloadThere,
        InRound, NoOutputs, NoOffPools
<1>5. QED
  BY <1>2, <1>3, <1>4 DEF ClientStep

LEMMA EnterStep ==
  ASSUME IInv, PoolInv', EnterPayload
  PROVE  IInv'
<1>1. /\ btcPc = "await_signature" /\ dispatched = None /\ dispatched' = round
      /\ round < MaxRound /\ payload' = payloadFile[BtcPayload]
      /\ UNCHANGED <<round, published, offVars, btcVars, outputs, payloadFile>>
      /\ Alive' = Alive /\ OfflineSigning' = OfflineSigning
      /\ PayloadThere' = PayloadThere
  BY DEF EnterPayload, C!EnterPayload, C!history, Alive, OfflineSigning, PayloadThere
<1>2. ~OfflineSigning /\ round # None
  BY <1>1, AbsentAssumption DEF IInv, TypeInv, SigningInv
<1>3. TypeInv'
  BY <1>1, OneDirectoryAssumption DEF IInv, TypeInv
<1>4. SigningInv'
  BY <1>1, <1>2 DEF SigningInv, PayloadThere
<1>5. WaitInv'
  BY <1>1, <1>2 DEF IInv, TypeInv, CountInv, WaitInv
<1>6. CountInv'
  BY <1>1, <1>2 DEF IInv, TypeInv, CountInv
<1>7. OutputInv'
  BY <1>1, <1>2, Values
  DEF IInv, TypeInv, OutputInv, NoOutputs, NoOffPools, OfflineSigning
<1>8. QED
  BY <1>3, <1>4, <1>5, <1>6, <1>7 DEF IInv

\* A signature of the round in progress comes of the output of its counter, so the
\* offline node is signing this payload or has deleted it.
LEMMA LoadStep ==
  ASSUME IInv, PoolInv', LoadOutput
  PROVE  IInv'
<1>1. /\ UNCHANGED <<payload, offVars, btcVars, payloadFile, others>>
      /\ Alive' = Alive /\ OfflineSigning' = OfflineSigning
      /\ PayloadThere' = PayloadThere
      /\ pc = "offline_wait" /\ partialFile[round] # None /\ ppdFile[round] # None
      /\ C!RemoveOutputs
  BY DEF LoadOutput, C!LoadOfflineDirNotEmpty, C!CombineFails, C!CombineSucceeds,
         C!OutputsReadable, C!program, C!mainVars, Alive, OfflineSigning, PayloadThere
<1>2. dispatched = round /\ btcPc = "await_signature" /\ dispatched # None
  BY <1>1, AbsentAssumption DEF IInv, TypeInv, WaitInv, InRound
<1>3. /\ partialFile' = [r \in 0 .. MaxRound |-> partialFile'[r]]
      /\ ppdFile' = [r \in 0 .. MaxRound |-> ppdFile'[r]]
      /\ \A r \in 0 .. MaxRound :
           /\ partialFile'[r] # None => partialFile[r] # None
           /\ ppdFile'[r] # None => ppdFile[r] # None
  BY <1>1 DEF C!RemoveOutputs, IInv, TypeInv
<1>4. SigningInv'
  BY <1>1 DEF IInv, SigningInv
<1>5. CASE UNCHANGED <<pc, round, published>> /\ C!Node0HoldsMore
  <2>1. ~Alive
    <3>1. Alive => NoOffPools /\ \A r \in 0 .. MaxRound \ {round} :
                                 partialFile[r] = None /\ ppdFile[r] = None
      BY <1>1, <1>2, Values DEF IInv, TypeInv, OutputInv, NoOutputs
    <3>2. NoOffPools => Strays = {}
      BY Values DEF NoOffPools, Strays, IInv, PoolInv
    <3>3. QED
      BY <1>5, <3>1, <3>2, Values DEF C!Node0HoldsMore
  <2>2. OutputInv'
    BY <1>1, <2>1 DEF OutputInv
  <2>3. QED
    BY <1>1, <1>3, <1>4, <1>5, <2>2 DEF IInv, TypeInv, WaitInv, CountInv, InRound
<1>6. CASE pc' \notin InRound /\ round' = round + 1
           /\ \A x \in published' : x \in published \/ x.round = round
  <2>1. round < MaxRound
    BY <1>2, OneDirectoryAssumption DEF IInv, TypeInv
  <2>2. TypeInv'
    BY <1>1, <1>3, <1>6, <2>1, OneDirectoryAssumption DEF IInv, TypeInv
  <2>3. Alive => ~PayloadThere \/ OfflineSigning
    BY <1>1, <1>2 DEF IInv, TypeInv, CountInv
  <2>4. WaitInv'
    BY <1>1, <1>2, <1>6, <2>3 DEF IInv, WaitInv
  <2>5. CountInv'
    BY <1>1, <1>2, <1>3, <1>6 DEF IInv, TypeInv, CountInv
  <2>6. OutputInv'
    <3>1. ASSUME Alive PROVE NoOutputs' /\ (offPc = "delete_payload" \/ ~PayloadThere)
      <4>1. partialFile'[round] = None /\ ppdFile'[round] = None
        BY <1>1, <1>2 DEF C!RemoveOutputs, IInv, TypeInv
      <4>2. NoOutputs'
        BY <1>1, <1>2, <1>3, <3>1, <4>1 DEF IInv, OutputInv, NoOutputs
      <4>3. OfflineSigning \/ ~PayloadThere
        BY <1>1, <1>2, <3>1 DEF IInv, TypeInv, OutputInv
      <4>4. QED
        BY <1>1, <1>2, <3>1, <4>2, <4>3, Values DEF IInv, OutputInv, OfflineSigning
    <3>2. QED
      BY <1>1, <1>2, <1>6, <3>1 DEF IInv, TypeInv, OutputInv, NoOutputs
  <2>7. QED
    BY <1>4, <2>2, <2>4, <2>5, <2>6 DEF IInv
<1>7. QED
  BY <1>5, <1>6, Values
  DEF LoadOutput, C!LoadOfflineDirNotEmpty, C!CombineFails, C!CombineSucceeds,
      C!NextRound, C!LoopTop, C!program, C!mainVars, C!history

\* The client reads a signature of the round before, so the round was signed offline.
LEMMA ReadStep ==
  ASSUME IInv, PoolInv', EnterSignatureName
  PROVE  IInv'
<1>1. /\ UNCHANGED <<coordVars, offVars, outputs, payloadFile, others>>
      /\ Alive' = Alive /\ OfflineSigning' = OfflineSigning
      /\ PayloadThere' = PayloadThere
      /\ dispatched # None /\ SigFile[dispatched] # None
      /\ btcPc = "await_signature" /\ btcPc' = "broadcast"
  BY DEF EnterSignatureName, B!ReadSignature, Alive, OfflineSigning, PayloadThere
<1>2. PICK x \in published : x.round = dispatched
  BY <1>1, OneDirectoryAssumption DEF SigFile, IInv, TypeInv
<1>3. dispatched < round /\ (Alive => ~PayloadThere \/ OfflineSigning)
  BY <1>2 DEF IInv, CountInv, WaitInv
<1>4. TypeInv' /\ SigningInv'
  BY <1>1 DEF IInv, TypeInv, SigningInv
<1>5. WaitInv'
  BY <1>1, <1>3 DEF IInv, TypeInv, WaitInv, InRound
<1>6. CountInv'
  BY <1>1, <1>3 DEF IInv, CountInv
<1>7. OutputInv'
  BY <1>1 DEF IInv, OutputInv, NoOutputs, NoOffPools, InRound
<1>8. QED
  BY <1>4, <1>5, <1>6, <1>7 DEF IInv

LEMMA Inductive == IInv /\ [Next]_vars => IInv'
<1> SUFFICES ASSUME IInv, [Next]_vars PROVE IInv'
  OBVIOUS
<1> PoolInv'
  BY PoolStep
<1>1. CASE \/ CoordinatorStep \/ (\E i \in C!Online : NodeStep(i))
           \/ WriteFile \/ Regenerate \/ StartCoordinator \/ ReloadNodes
  BY <1>1, OthersStep
<1>2. CASE OfflineStep \/ StartOrReloadOffline
  BY <1>2, LoadingStep, WritingStep, DeletingStep DEF OfflineStep, StartOrReloadOffline
<1>3. CASE ClientStep \/ StartClient
  BY <1>3, ClientSteps
<1>4. CASE EnterPayload \/ SignOffline \/ LoadOutput \/ EnterSignatureName
  BY <1>4, EnterStep, SigningStep, LoadStep, ReadStep
<1>5. CASE UNCHANGED vars
  BY <1>5, Elsewhere DEF vars, IInv, TypeInv, OfflineSigning, Alive, NoOffPools
<1>6. QED
  BY <1>1, <1>2, <1>3, <1>4, <1>5 DEF Next, OperatorStep

\* A step that deletes a payload is the offline node's.
LEMMA OnlyOfflineDeletes ==
  ASSUME IInv, [Next]_vars, NEW f \in Names,
         payloadFile[f] # None, payloadFile'[f] = None
  PROVE  offPc = "delete_payload" /\ OfflineSigning
<1>1. payloadFile' # payloadFile
  OBVIOUS
<1>2. ASSUME O!Start \/ O!PressEnterReload \/ O!Loading \/ O!WritePartial \/ O!WritePpd
      PROVE  FALSE
  BY <1>1, <1>2
  DEF O!Start, O!PressEnterReload, O!Loading, O!ReadPools, O!RemovePoolFile,
      O!RemoveDir, O!LoadPanics, O!Ends, O!WritePartial, O!WritePpd, O!inputs
<1>3. ASSUME ClientStep PROVE FALSE
  BY <1>1, <1>3, Values, BatchAssumption
  DEF ClientStep, B!WritePayload, IInv, TypeInv
<1>4. ~SignOffline /\ ~WriteFile
  BY <1>1 DEF SignOffline, O!SubmitPayload, O!inputs, WriteFile
<1>5. CASE OfflineStep \/ StartOrReloadOffline
  BY <1>2, <1>5, Values
  DEF OfflineStep, StartOrReloadOffline, O!DeletePayload, OfflineSigning
<1>6. QED
  BY <1>1, <1>3, <1>4, <1>5
  DEF Next, OperatorStep, vars, CoordinatorStep, NodeStep, Regenerate,
      StartCoordinator, ReloadNodes, StartClient, EnterPayload, LoadOutput,
      EnterSignatureName

-----------------------------------------------------------------------------

\* The inductive invariant of the single directory.
THEOREM IInvHolds == Spec => []IInv
<1>1. Init => IInv
  BY Initially
<1>2. IInv /\ [Next]_vars => IInv'
  BY Inductive
<1>3. QED
  BY <1>1, <1>2, PTL DEF Spec

\* With one payload file for the client, the coordinator and the offline node, a
\* payload is deleted only when the coordinator has read it and what the offline
\* node made of it waits for the coordinator's round, or has ended it.
THEOREM DeletesWhatWasTaken == Spec => DeletedPayloadWasTaken
<1>1. ASSUME IInv, [Next]_vars
      PROVE  [\A f \in Names :
                payloadFile[f] # None /\ payloadFile'[f] = None =>
                  /\ payload = payloadFile[f]
                  /\ offPartial.payload = payloadFile[f]
                  /\ \/ partialFile[round] = offPartial /\ ppdFile[round] = offPpd
                     \/ round = sigCounter + 1]_vars
  <2> SUFFICES ASSUME NEW f \in Names, payloadFile[f] # None, payloadFile'[f] = None
               PROVE  /\ payload = payloadFile[f]
                      /\ offPartial.payload = payloadFile[f]
                      /\ \/ partialFile[round] = offPartial /\ ppdFile[round] = offPpd
                         \/ round = sigCounter + 1
    OBVIOUS
  <2>1. offPc = "delete_payload" /\ OfflineSigning
    BY <1>1, OnlyOfflineDeletes
  <2>2. /\ dispatched # None /\ PayloadThere
        /\ payload = payloadFile[f] /\ offPartial.payload = payloadFile[f]
    BY <1>1, <2>1, Values DEF IInv, SigningInv, PayloadThere
  <2>3. QED
    BY <1>1, <2>1, <2>2 DEF IInv, OutputInv, Alive
<1>2. QED
  BY <1>1, IInvHolds, PTL DEF Spec, DeletedPayloadWasTaken
=============================================================================
