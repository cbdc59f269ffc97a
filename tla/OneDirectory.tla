---------------------------- MODULE OneDirectory ----------------------------
(***************************************************************************)
(* The four programs of the demo with one input and output directory, the  *)
(* set-up of the note in README, 220: nobody copies anything, and what one *)
(* program reads and deletes is what another one wrote.                    *)
(*                                                                         *)
(* The programs are the modules CoordRuntime (C), OfflineNode (O) and      *)
(* BtcAuxiliary (B), with each other's files for their own: node_0 is at   *)
(* once where the offline node finds its pools, where it leaves its        *)
(* outputs, and what the coordinator empties and removes.  initialization  *)
(* appears with the writes of regenerate_presignatures.  All of them run   *)
(* side by side, and every file operation may come between any two of      *)
(* another program.                                                        *)
(*                                                                         *)
(* The note says no more than that it will work out.  It does for an       *)
(* operator who keeps to three rules, each of them a guard below:          *)
(*   - batches are regenerated only when both pools ask for it;            *)
(*   - the coordinator gets a payload before the offline node does, which  *)
(*     deletes it;                                                         *)
(*   - the next payment begins when the offline node is done with the last.*)
(***************************************************************************)
EXTENDS Presignatures, FiniteSets

CONSTANTS
  N,             \* number of parties
  Deliveries,    \* the batches in the order in which they are generated
  BtcPayload,    \* the name of the one payload file
  MaxRound

ASSUME OneDirectoryAssumption ==
  /\ N \in Nat /\ N >= 2
  /\ Deliveries \in Seq(Batches)
  /\ \A j, k \in DOMAIN Deliveries : Deliveries[j] = Deliveries[k] => j = k
  /\ MaxRound \in Nat

MaxOutputs  == MaxRound + 1     \* the offline counters are the rounds
MaxRestarts == 0
MaxSessions == 1
StrayFiles  == FALSE
SingleDir   == TRUE
Names       == {BtcPayload}

VARIABLES
  (* the directory *)
  poolFile,      \* node_<i>/presig_pool.msgpack of the online nodes
  offPoolFile,   \* the two pool files in node_0
  offStray,      \* a file in node_0 that no program has written: there is none
  partialFile,   \* node_0/offline_partial_sig_<r>.msgpack
  ppdFile,       \* node_0/ppd_<r>.msgpack
  payloadFile,
  (* coord_runtime: the names of module CoordRuntime *)
  pc, caller, cursor, poolSizes, failedNodes, remaining, round, payload,
  partials, signErrors, mailbox, reply, initialized, presigPool,
  supplied, issued, published, restarts,
  (* offline_node *)
  offPc, offPresigs, offPpds, sigCounter, name, offPartial, offPpd,
  offSupplied, offIssued, sessions,
  (* btc_auxiliary *)
  btcPc, sighash, signature, output,
  (* initialization *)
  generated,     \* batches begun
  written,       \* pool files of the last of them, the ppd pool included
  (* the operator *)
  started,       \* is the coordinator running?
  dispatched     \* the round in which this payload was entered at the coordinator

outputs   == <<partialFile, ppdFile>>
coordMem  == <<pc, caller, cursor, poolSizes, failedNodes, remaining, round,
               payload, partials, signErrors, mailbox, reply, initialized,
               presigPool, supplied, issued, published, restarts>>
coordVars == <<coordMem, poolFile>>
offMem    == <<offPc, offPresigs, offPpds, sigCounter, name, offPartial, offPpd,
               offSupplied, offIssued, sessions>>
offVars   == <<offMem, offPoolFile, offStray>>
btcVars   == <<btcPc, sighash, signature, output>>
others    == <<generated, written, started, dispatched>>
vars      == <<coordVars, offVars, btcVars, outputs, payloadFile, others>>

\* To the coordinator the offline pool files are foreign files in node_0.
Strays == IF \E kind \in DOMAIN offPoolFile : offPoolFile[kind] # None THEN {0} ELSE {}

SigFile ==
  [r \in 0 .. MaxRound |->
     IF \E x \in published : x.round = r
       THEN (CHOOSE x \in published : x.round = r).payload
       ELSE None]

C == INSTANCE CoordRuntime WITH stray <- Strays
O == INSTANCE OfflineNode WITH
       pc <- offPc, presigPool <- offPresigs, ppdPool <- offPpds,
       partial <- offPartial, ppd <- offPpd, poolFile <- offPoolFile,
       stray <- offStray,
       partialOut <- partialFile, ppdOut <- ppdFile,
       supplied <- offSupplied, issued <- offIssued
B == INSTANCE BtcAuxiliary WITH
       pc <- btcPc, payloadFile <- payloadFile[BtcPayload], sigFile <- SigFile

\* A payload that has not been entered was not entered in any round.
ASSUME AbsentAssumption == None \notin 0 .. MaxRound

Init ==
  /\ O!Init /\ C!Init /\ B!Init
  /\ generated = 0 /\ written = N + 1
  /\ started = FALSE /\ dispatched = None

-----------------------------------------------------------------------------
(* The programs, between two prompts *)

CoordinatorStep ==
  /\ started
  /\ UNCHANGED <<offVars, btcVars, outputs, payloadFile, others>>
  /\ C!Coordinator

NodeStep(i) ==
  /\ UNCHANGED <<offVars, btcVars, outputs, payloadFile, others>>
  /\ C!Node(i)

OfflineStep ==
  /\ UNCHANGED <<coordVars, btcVars, others>>
  /\ O!Loading \/ O!WritePartial \/ O!WritePpd \/ O!DeletePayload

ClientStep ==
  /\ UNCHANGED <<coordVars, offVars, outputs, generated, written, started>>
  /\ \/ /\ UNCHANGED <<payloadFile, dispatched>>
        /\ B!Broadcast \/ B!BroadcastRefused \/ B!Confirm
     \/ /\ payloadFile' = [payloadFile EXCEPT ![BtcPayload] = sighash]
        /\ dispatched' = None
        /\ B!WritePayload

\* regenerate_presignatures writes node_0's pool, those of the other nodes in
\* order, and the ppd pool last.
Generated == written = N + 1

WriteFile ==
  /\ ~Generated
  /\ written' = written + 1
  /\ UNCHANGED <<btcVars, outputs, payloadFile, generated, started, dispatched>>
  /\ LET b == Deliveries[generated]
     IN  \/ written = 0 /\ UNCHANGED coordVars /\ O!SupplyPool("presig", b)
         \/ written \in C!Online /\ UNCHANGED offVars /\ C!SupplyPool(b, written)
         \/ written = N /\ UNCHANGED coordVars /\ O!SupplyPool("ppd", b)

-----------------------------------------------------------------------------
(* The operator *)

\* The start of initialization, or ENTER at its prompt.
Regenerate ==
  /\ Generated
  /\ generated < Len(Deliveries)
  /\ ~started \/ pc = "reload_prompt"
  /\ offPc \in {"down", "serve"} /\ IsEmpty(offPresigs)
  /\ \A i \in C!Online : poolFile[i] = None
  /\ generated' = generated + 1 /\ written' = 0
  /\ UNCHANGED <<coordVars, offVars, btcVars, outputs, payloadFile, started,
                 dispatched>>

StartCoordinator ==
  /\ ~started
  /\ Generated /\ \A i \in C!Online : poolFile[i] # None
  /\ started' = TRUE
  /\ UNCHANGED <<coordVars, offVars, btcVars, outputs, payloadFile, generated,
                 written, dispatched>>

ReloadNodes ==
  /\ Generated /\ \A i \in C!Online : poolFile[i] # None
  /\ UNCHANGED <<offVars, btcVars, outputs, payloadFile, others>>
  /\ C!PressEnterReload

StartOrReloadOffline ==
  /\ Generated /\ \A kind \in O!Kinds : offPoolFile[kind] # None
  /\ UNCHANGED <<coordVars, btcVars, others>>
  /\ O!Start \/ O!PressEnterReload

StartClient ==
  /\ offPc \in {"down", "serve"}
  /\ UNCHANGED <<coordVars, offVars, outputs, payloadFile, others>>
  /\ \E p \in Payloads : B!Fund(p)

EnterPayload ==
  /\ btcPc = "await_signature"
  /\ dispatched = None
  /\ dispatched' = round
  /\ UNCHANGED <<offVars, btcVars, outputs, payloadFile, generated, written,
                 started>>
  /\ C!EnterPayload(payloadFile[BtcPayload])

SignOffline ==
  /\ dispatched # None
  /\ UNCHANGED <<coordVars, btcVars, others>>
  /\ O!SubmitPayload(BtcPayload)

\* ENTER at the coordinator, whatever the offline node is doing.
LoadOutput ==
  /\ UNCHANGED <<offVars, btcVars, payloadFile, others>>
  /\ C!LoadOfflineDirNotEmpty \/ C!CombineFails \/ C!CombineSucceeds(TRUE)

EnterSignatureName ==
  /\ dispatched # None /\ SigFile[dispatched] # None
  /\ UNCHANGED <<coordVars, offVars, outputs, payloadFile, others>>
  /\ B!ReadSignature(dispatched)

-----------------------------------------------------------------------------

OperatorStep ==
  \/ Regenerate \/ StartCoordinator \/ ReloadNodes \/ StartOrReloadOffline
  \/ StartClient \/ EnterPayload \/ SignOffline \/ LoadOutput
  \/ EnterSignatureName

Next ==
  \/ CoordinatorStep
  \/ \E i \in C!Online : NodeStep(i)
  \/ OfflineStep \/ ClientStep \/ WriteFile
  \/ OperatorStep

\* The programs run, and the operator does the next thing there is to do.
Spec ==
  /\ Init /\ [][Next]_vars
  /\ WF_vars(CoordinatorStep)
  /\ \A i \in C!Online : WF_vars(NodeStep(i))
  /\ WF_vars(OfflineStep) /\ WF_vars(ClientStep) /\ WF_vars(WriteFile)
  /\ WF_vars(OperatorStep)

-----------------------------------------------------------------------------
(* Properties *)

\* The payload that the offline node deletes is in no danger of being lost with
\* its file: the coordinator has read the same bytes (its nodes may still be about
\* to sign them), they are what the offline node has signed, and what it made of
\* them is where the coordinator looks for its round, unless the coordinator was
\* faster and the round is over.
DeletedPayloadWasTaken ==
  [][\A f \in Names :
       payloadFile[f] # None /\ payloadFile'[f] = None =>
         /\ payload = payloadFile[f]
         /\ offPartial.payload = payloadFile[f]
         /\ \/ partialFile[round] = offPartial /\ ppdFile[round] = offPpd
            \/ round = sigCounter + 1]_vars

\* "The prototype will work out": every payment whose address was funded is
\* confirmed, over reloads of all pools.  There are as many payments as sets, so
\* the shared directory never makes a round fail: node_0 can be removed whenever the
\* two files of the round are loaded, and what they hold combines.
PaymentsConfirm ==
  \A p \in Payloads : output[p] = "funded" ~> output[p] = "confirmed"
=============================================================================
