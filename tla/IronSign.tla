------------------------------ MODULE IronSign ------------------------------
(***************************************************************************)
(* The demo of the README: btc_auxiliary and coord_runtime on one machine, *)
(* offline_node on the other, and the operator who carries files between   *)
(* them and answers their prompts.  The programs are the modules           *)
(* CoordRuntime (C), OfflineNode (O) and BtcAuxiliary (B); none of their   *)
(* environment actions is used: what the environment may do there, another *)
(* program or the operator does here.                                      *)
(*                                                                         *)
(* The operator follows "Running the full demo" (README, 192-214): all     *)
(* pool files of a batch are in place before a program is started or ENTER *)
(* is pressed for a reload, both machines receive the batches in the same  *)
(* order, every payload is entered once at the coordinator and once at the *)
(* offline node, and the two files of an output travel one after the other.*)
(* Either nothing fails and the operator is careful: he names the signature*)
(* of the payment's round once it is there.  Or one of the two machines may*)
(* be switched off at any point, after which the payload is brought there  *)
(* again, an export may fail, a run of btc_auxiliary may end after the     *)
(* money was sent, and any signature file may be named at any time.        *)
(***************************************************************************)
EXTENDS Presignatures, FiniteSets

CONSTANTS
  N,             \* number of parties
  Deliveries,    \* the batches in the order in which they are supplied
  BtcPayload,    \* the name of the one payload file
  Unreliable,    \* what may be switched off: machines, or "none"
  MaxRound, MaxOutputs, MaxRestarts, MaxSessions

StrayFiles  == FALSE
SingleDir   == FALSE
Names       == {BtcPayload}

ASSUME IronSignAssumption ==
  /\ N \in Nat /\ N >= 2
  /\ Deliveries \in Seq(Batches)
  /\ \A j, k \in DOMAIN Deliveries : Deliveries[j] = Deliveries[k] => j = k
  /\ Unreliable \subseteq {"none", "coordinator", "offline"}
  /\ MaxRound \in Nat /\ MaxOutputs \in Nat
  /\ MaxOutputs <= MaxRound + 1    \* the counter of an output is a round
  /\ MaxRestarts \in Nat /\ MaxSessions \in Nat \ {0}

VARIABLES
  (* coord_runtime: the names of module CoordRuntime *)
  pc, caller, cursor, poolSizes, failedNodes, remaining, round, payload,
  partials, signErrors, mailbox, reply, initialized, presigPool,
  poolFile, stray, partialFile, ppdFile, supplied, issued, published, restarts,
  (* offline_node *)
  offPc, offPresigs, offPpds, sigCounter, name, offPartial, offPpd,
  offPoolFile, offStray, offPayload, partialOut, ppdOut,
  offSupplied, offIssued, sessions,
  (* btc_auxiliary *)
  btcPc, sighash, signature, payloadFile, output,
  (* the operator *)
  unreliable,    \* the one of Unreliable that may be switched off in this run
  started,       \* is the coordinator running?
  dispatched,    \* the round in which this payload was entered at the coordinator
  copied,        \* was it brought to the offline node?
  carried        \* the two files of an output on the way, or None

coordMem  == <<pc, caller, cursor, poolSizes, failedNodes, remaining, round,
               payload, partials, signErrors, mailbox, reply, initialized,
               presigPool, published, restarts>>
coordVars == <<coordMem, poolFile, stray, partialFile, ppdFile, supplied,
               issued>>
offVars   == <<offPc, offPresigs, offPpds, sigCounter, name, offPartial, offPpd,
               offPoolFile, offStray, offPayload, partialOut, ppdOut,
               offSupplied, offIssued, sessions>>
btcVars   == <<btcPc, sighash, signature, payloadFile, output>>
operator  == <<unreliable, started, dispatched, copied, carried>>
vars      == <<coordVars, offVars, btcVars, operator>>

\* The operator is careful where nothing fails.
careful == unreliable = "none"

\* The signature files, by the round in their name: a later session of the
\* coordinator counts from 0 again and writes over them.
SigFile ==
  [r \in 0 .. MaxRound |->
     LET files == {x \in published : x.round = r}
     IN  IF files = {} THEN None
         ELSE (CHOOSE x \in files : \A y \in files : y.session <= x.session).payload]

\* The offline node delivers what it makes in all of its sessions.
C == INSTANCE CoordRuntime WITH MaxOutputs <- MaxSessions * MaxOutputs
O == INSTANCE OfflineNode WITH
       pc <- offPc, presigPool <- offPresigs, ppdPool <- offPpds,
       partial <- offPartial, ppd <- offPpd, poolFile <- offPoolFile,
       stray <- offStray, payloadFile <- offPayload,
       supplied <- offSupplied, issued <- offIssued
B == INSTANCE BtcAuxiliary WITH pc <- btcPc, sigFile <- SigFile

\* An absent round, or nothing carried, is none of those that are there.
ASSUME AbsentAssumption ==
  /\ None \notin 0 .. MaxRound
  /\ None \notin [counter : 0 .. MaxOutputs - 1, partial : Partial \cup {None},
                  ppd : PresigSet]

Init ==
  /\ C!Init /\ O!Init /\ B!Init
  /\ unreliable \in Unreliable
  /\ started = FALSE /\ dispatched = None /\ copied = FALSE /\ carried = None

-----------------------------------------------------------------------------
(* The programs, between two prompts *)

CoordinatorStep ==
  /\ started
  /\ C!Coordinator
  /\ UNCHANGED <<offVars, btcVars, operator>>

NodeStep(i) ==
  /\ C!Node(i)
  /\ UNCHANGED <<offVars, btcVars, operator>>

OfflineStep ==
  /\ O!Loading \/ O!WritePartial \/ O!WritePpd \/ O!DeletePayload
  /\ UNCHANGED <<coordVars, btcVars, operator>>

ClientStep ==
  /\ UNCHANGED <<coordVars, offVars, unreliable, started, carried>>
  /\ \/ /\ \/ B!Broadcast \/ B!BroadcastRefused \/ B!Confirm
           \/ ~careful /\ B!RunFails
        /\ UNCHANGED <<dispatched, copied>>
     \/ B!WritePayload /\ dispatched' = None /\ copied' = FALSE

-----------------------------------------------------------------------------
(* The operator: presignatures *)

\* The next batch for a machine that has received `got` of them.
NextDelivery(b, got) ==
  /\ Cardinality(got) < Len(Deliveries)
  /\ b = Deliveries[Cardinality(got) + 1]

SupplyNode(i) ==
  /\ ~started \/ pc \in {"reload_prompt", "retry_sleep"}
  /\ poolFile[i] = None
  /\ \E b \in Batches :
       /\ NextDelivery(b, {x \in Batches : <<x, i>> \in supplied})
       /\ C!SupplyPool(b, i)
  /\ UNCHANGED <<offVars, btcVars, operator>>

SupplyOffline(kind) ==
  /\ IsEmpty(offPresigs)
  /\ offPoolFile[kind] = None
  /\ \E b \in Batches :
       /\ NextDelivery(b, {x \in Batches : <<kind, x>> \in offSupplied})
       /\ O!SupplyPool(kind, b)
  /\ UNCHANGED <<coordVars, btcVars, operator>>

StartCoordinator ==
  /\ ~started
  /\ \A i \in C!Online : poolFile[i] # None
  /\ started' = TRUE
  /\ UNCHANGED <<coordVars, offVars, btcVars, unreliable, dispatched, copied, carried>>

ReloadNodes ==
  /\ \A i \in C!Online : poolFile[i] # None
  /\ C!PressEnterReload
  /\ UNCHANGED <<offVars, btcVars, operator>>

StartOrReloadOffline ==
  /\ \A kind \in O!Kinds : offPoolFile[kind] # None
  /\ O!Start \/ O!PressEnterReload
  /\ UNCHANGED <<coordVars, btcVars, operator>>

-----------------------------------------------------------------------------
(* The operator: one payment *)

StartClient ==
  /\ UNCHANGED <<coordVars, offVars, operator>>
  /\ \E p \in Payloads : B!Fund(p)

EnterPayload ==
  /\ btcPc = "await_signature"
  /\ dispatched = None
  /\ C!EnterPayload(payloadFile)
  /\ dispatched' = round
  /\ UNCHANGED <<offVars, btcVars, unreliable, started, copied, carried>>

CopyPayload ==
  /\ btcPc = "await_signature"
  /\ ~copied
  /\ O!PutPayload(BtcPayload, payloadFile)
  /\ copied' = TRUE
  /\ UNCHANGED <<coordVars, btcVars, unreliable, started, dispatched, carried>>

SignOffline ==
  /\ O!SubmitPayload(BtcPayload)
  /\ UNCHANGED <<coordVars, btcVars, operator>>

TakeOutput(c) ==
  /\ carried = None
  /\ O!CollectOutput(c)
  /\ carried' = [counter |-> c, partial |-> partialOut[c], ppd |-> ppdOut[c]]
  /\ UNCHANGED <<coordVars, btcVars, unreliable, started, dispatched, copied>>

\* The partial signature arrives first.  For the coordinator that is when party
\* 0 issues it.
BringPartial ==
  /\ carried # None /\ carried.partial # None
  /\ partialFile' = [partialFile EXCEPT ![carried.counter] = carried.partial]
  /\ issued' = [issued EXCEPT ![0] = @ \cup {carried.partial}]
  /\ carried' = [carried EXCEPT !.partial = None]
  /\ UNCHANGED <<coordMem, poolFile, stray, ppdFile, supplied>>
  /\ UNCHANGED <<offVars, btcVars, unreliable, started, dispatched, copied>>

BringPpd ==
  /\ carried # None /\ carried.partial = None
  /\ ppdFile' = [ppdFile EXCEPT ![carried.counter] = carried.ppd]
  /\ carried' = None
  /\ UNCHANGED <<coordMem, poolFile, stray, partialFile, supplied, issued>>
  /\ UNCHANGED <<offVars, btcVars, unreliable, started, dispatched, copied>>

\* ENTER at the coordinator, with nothing left to bring.
LoadOutput ==
  /\ carried = None
  /\ \/ C!LoadOfflineDirNotEmpty
     \/ C!CombineFails
     \/ \E exported \in BOOLEAN : (careful => exported) /\ C!CombineSucceeds(exported)
  /\ UNCHANGED <<offVars, btcVars, operator>>

EnterSignatureName(r) ==
  /\ careful => r = dispatched /\ SigFile[r] # None
  /\ UNCHANGED <<coordVars, offVars, operator>>
  /\ B!ReadSignature(r) \/ B!SignatureMissing(r)

-----------------------------------------------------------------------------
(* A machine is switched off in the middle of anything; the payload will be *)
(* brought there again                                                      *)

CrashCoordinator ==
  /\ unreliable = "coordinator" /\ started
  /\ C!Restart
  /\ dispatched' = None
  /\ UNCHANGED <<offVars, btcVars, unreliable, started, copied, carried>>

CrashOffline ==
  /\ unreliable = "offline"
  /\ O!Crash
  /\ copied' = FALSE
  /\ UNCHANGED <<coordVars, btcVars, unreliable, started, dispatched, carried>>

-----------------------------------------------------------------------------

\* One operator serves both machines: what he has started runs to its next prompt
\* (or sleeps) before he does the next thing.  The machines share nothing but what
\* he carries, so this leaves out only orders of independent steps.
AtPrompts ==
  /\ ~started \/ pc \notin {"init_send", "init_wait", "sign_send", "sign_wait"}
  /\ offPc \in {"down", "serve"}
  /\ btcPc \in {"down", "await_signature"}

OperatorStep ==
  \/ \E i \in C!Online : SupplyNode(i)
  \/ \E kind \in O!Kinds : SupplyOffline(kind)
  \/ StartCoordinator \/ ReloadNodes \/ StartOrReloadOffline
  \/ StartClient \/ EnterPayload \/ CopyPayload \/ SignOffline
  \/ \E c \in O!Counters : TakeOutput(c)
  \/ BringPartial \/ BringPpd \/ LoadOutput
  \/ \E r \in C!Rounds : EnterSignatureName(r)

Next ==
  \/ CoordinatorStep
  \/ \E i \in C!Online : NodeStep(i)
  \/ OfflineStep
  \/ ClientStep
  \/ AtPrompts /\ OperatorStep
  \/ CrashCoordinator \/ CrashOffline

\* The programs run, and the operator does the next thing there is to do.
Spec ==
  /\ Init /\ [][Next]_vars
  /\ WF_vars(CoordinatorStep)
  /\ \A i \in C!Online : WF_vars(NodeStep(i))
  /\ WF_vars(OfflineStep) /\ WF_vars(ClientStep) /\ WF_vars(AtPrompts /\ OperatorStep)

-----------------------------------------------------------------------------
(* Properties *)

\* The three programs together satisfy what the coordinator's module assumes of
\* its environment, the offline node above all: whatever is true of CoordRuntime
\* is true of its coordinator here.
CoordinatorEnvironmentHolds == C!Spec

\* The promise of OneTimeSigning, with party 0 being the real offline node: what
\* it has signed counts from the moment it signs.
Promise == INSTANCE OneTimeSigning WITH
  Parties <- C!Parties,
  Sets <- PresigSet,
  issued <- [i \in C!Parties |-> IF i = 0 THEN offIssued ELSE issued[i]],
  published <- {[set |-> x.set, payload |-> x.payload] : x \in published}
SystemKeepsPromise == Promise!Spec

\* Money leaves address B only by a transaction which every party has signed, all
\* with the same presignature set, whatever is stopped, entered twice or named.
FundsMoveOnlyWhenSigned ==
  \A p \in Payloads : output[p] \in {"spent", "confirmed"} =>
    \E s \in PresigSet :
      LET sig == [set |-> s, payload |-> p]
      IN  sig \in offIssued /\ \A i \in C!Online : sig \in issued[i]

\* With the real offline node, too, no session of the coordinator writes a
\* signature over another one of its own, so a name keeps its meaning while the
\* operator has it in mind.
SignatureFilesKept == C!SessionKeepsSignatures

\* With a careful operator the two machines never fall out of step, over reloads
\* of either: whenever both files of a round are there, they are alone in node_0
\* and combine with the partials of the online nodes.
NoRoundDiscarded ==
  careful /\ pc = "offline_wait" /\ partialFile[round] # None /\ ppdFile[round] # None =>
    /\ ~C!Node0HoldsMore
    /\ Combines(C!AllPartials, N, ppdFile[round], payload)

\* With a careful operator every payment whose address was funded is confirmed.
PaymentsConfirm ==
  \A p \in Payloads : careful /\ output[p] = "funded" ~> output[p] = "confirmed"
=============================================================================
