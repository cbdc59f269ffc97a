------------------------- MODULE PartyTasks_proofs -------------------------
(***************************************************************************)
(* Theorems about PartyTasks for every number of parties, every sequence   *)
(* of protocol rounds and every number of protocol errors.                 *)
(***************************************************************************)
EXTENDS PartyTasks, TLAPS

\* The facts of Execution_proofs for the two networks.
AuxNet == INSTANCE Execution_proofs WITH
  Plan <- AuxPlan, inbox <- auxInbox, stage <- auxStage, round <- auxRound,
  todo <- auxTodo, got <- auxGot
KeygenNet == INSTANCE Execution_proofs WITH
  Plan <- KeygenPlan, inbox <- kgInbox, stage <- kgStage, round <- kgRound,
  todo <- kgTodo, got <- kgGot

USE DEF mainVars, taskVars, auxVars, keygenVars

-----------------------------------------------------------------------------

LEMMA Tables ==
  /\ DOMAIN Command = {"send_aux", "send_keygen", "send_get", "send_shutdown"}
  /\ Command["send_aux"] = "RunAuxInfo" /\ Command["send_keygen"] = "RunKeygen"
  /\ Command["send_get"] = "GetSharedPublicKeyBytes"
  /\ Command["send_shutdown"] = "Shutdown"
  /\ Await["send_aux"] = "await_aux" /\ Await["send_keygen"] = "await_keygen"
  /\ Await["send_get"] = "await_get" /\ Await["send_shutdown"] = "ended"
  /\ DOMAIN After = {"await_aux", "await_keygen", "await_get"}
  /\ After["await_aux"] = "send_keygen" /\ After["await_keygen"] = "send_get"
  /\ After["await_get"] = "send_shutdown"
  BY DEF Command, Await, After

LEMMA NetParameters == AuxNet!Parameters /\ KeygenNet!Parameters
  BY PartyTasksAssumption DEF AuxNet!Parameters, KeygenNet!Parameters

\* The steps of PartyTasks are steps of the two networks.
LEMMA AuxSteps ==
  ASSUME NEW i \in Parties,
         \/ Aux!Start(i, FALSE) \/ Aux!Deliver(i, Parties) \/ Aux!Receive(i)
         \/ Aux!NextRound(i, FALSE) \/ Aux!Finish(i) \/ Aux!Fail(i)
  PROVE  AuxNet!Step(i, Parties, FALSE)
<1>1. Aux!Start(i, FALSE) => AuxNet!Start(i, FALSE)
  BY DEF Aux!EnterRound, Aux!Parties, Aux!Recipients, Aux!Start,
         AuxNet!EnterRound, AuxNet!Parties, AuxNet!Recipients, AuxNet!Start
<1>2. Aux!Deliver(i, Parties) => AuxNet!Deliver(i, Parties)
  BY DEF Aux!Deliver, Aux!Min, Aux!Sends, AuxNet!Deliver, AuxNet!Min,
         AuxNet!Sends
<1>3. Aux!Receive(i) => AuxNet!Receive(i)
  BY DEF Aux!Complete, Aux!Parties, Aux!Receive, Aux!Receives,
         AuxNet!Complete, AuxNet!Parties, AuxNet!Receive, AuxNet!Receives
<1>4. Aux!NextRound(i, FALSE) => AuxNet!NextRound(i, FALSE)
  BY DEF Aux!Complete, Aux!EnterRound, Aux!NextRound, Aux!Parties,
         Aux!Receives, Aux!Recipients, AuxNet!Complete, AuxNet!EnterRound,
         AuxNet!NextRound, AuxNet!Parties, AuxNet!Receives, AuxNet!Recipients
<1>5. Aux!Finish(i) => AuxNet!Finish(i)
  BY DEF Aux!Complete, Aux!Finish, Aux!Parties, Aux!Receives,
         AuxNet!Complete, AuxNet!Finish, AuxNet!Parties, AuxNet!Receives
<1>6. Aux!Fail(i) => AuxNet!Stops(i)
  BY DEF Aux!Fail, Aux!Receives, AuxNet!Stops
<1>7. QED
  BY <1>1, <1>2, <1>3, <1>4, <1>5, <1>6 DEF AuxNet!Step

LEMMA KeygenSteps ==
  ASSUME NEW i \in Parties,
         \/ Keygen!Start(i, FALSE) \/ Keygen!Deliver(i, Parties) \/ Keygen!Receive(i)
         \/ Keygen!NextRound(i, FALSE) \/ Keygen!Finish(i) \/ Keygen!Fail(i)
  PROVE  KeygenNet!Step(i, Parties, FALSE)
<1>1. Keygen!Start(i, FALSE) => KeygenNet!Start(i, FALSE)
  BY DEF Keygen!EnterRound, Keygen!Parties, Keygen!Recipients, Keygen!Start,
         KeygenNet!EnterRound, KeygenNet!Parties, KeygenNet!Recipients,
         KeygenNet!Start
<1>2. Keygen!Deliver(i, Parties) => KeygenNet!Deliver(i, Parties)
  BY DEF Keygen!Deliver, Keygen!Min, Keygen!Sends, KeygenNet!Deliver,
         KeygenNet!Min, KeygenNet!Sends
<1>3. Keygen!Receive(i) => KeygenNet!Receive(i)
  BY DEF Keygen!Complete, Keygen!Parties, Keygen!Receive, Keygen!Receives,
         KeygenNet!Complete, KeygenNet!Parties, KeygenNet!Receive,
         KeygenNet!Receives
<1>4. Keygen!NextRound(i, FALSE) => KeygenNet!NextRound(i, FALSE)
  BY DEF Keygen!Complete, Keygen!EnterRound, Keygen!NextRound,
         Keygen!Parties, Keygen!Receives, Keygen!Recipients,
         KeygenNet!Complete, KeygenNet!EnterRound, KeygenNet!NextRound,
         KeygenNet!Parties, KeygenNet!Receives, KeygenNet!Recipients
<1>5. Keygen!Finish(i) => KeygenNet!Finish(i)
  BY DEF Keygen!Complete, Keygen!Finish, Keygen!Parties, Keygen!Receives,
         KeygenNet!Complete, KeygenNet!Finish, KeygenNet!Parties,
         KeygenNet!Receives
<1>6. Keygen!Fail(i) => KeygenNet!Stops(i)
  BY DEF Keygen!Fail, Keygen!Receives, KeygenNet!Stops
<1>7. QED
  BY <1>1, <1>2, <1>3, <1>4, <1>5, <1>6 DEF KeygenNet!Step

LEMMA NetTypes ==
  /\ Aux!TypeOK <=> AuxNet!TypeOK
  /\ Keygen!TypeOK <=> KeygenNet!TypeOK
<1>1. Aux!TypeOK <=> AuxNet!TypeOK
  BY DEF Aux!TypeOK, Aux!Parties, Aux!Message,
         AuxNet!TypeOK, AuxNet!Parties, AuxNet!Message
<1>2. Keygen!TypeOK <=> KeygenNet!TypeOK
  BY DEF Keygen!TypeOK, Keygen!Parties, Keygen!Message,
         KeygenNet!TypeOK, KeygenNet!Parties, KeygenNet!Message
<1>3. QED
  BY <1>1, <1>2

-----------------------------------------------------------------------------
(* The inductive invariant *)

ControlOK ==
  /\ pc \in DOMAIN Command \cup DOMAIN After \cup {"ended", "error"}
  /\ cursor \in Parties
  /\ mailbox \in [Parties -> Seq(Commands)]
  /\ reply \in [Parties -> {None, "ok", "err"}]
  /\ doing \in [Parties -> {None, "RunAuxInfo", "RunKeygen", "stopped"}]
  /\ auxInfo \subseteq Parties /\ keyShare \subseteq Parties

Free(i) == mailbox[i] = <<>> /\ doing[i] = None /\ reply[i] = None

\* Where a party is with a command it was given: it has not taken it, is working
\* on it, or has replied (with Shutdown, it has stopped).
Handles(i, cmd) ==
  \/ mailbox[i] = <<cmd>> /\ doing[i] = None /\ reply[i] = None
  \/ /\ cmd \in {"RunAuxInfo", "RunKeygen"}
     /\ mailbox[i] = <<>> /\ doing[i] = cmd /\ reply[i] = None
  \/ /\ cmd # "Shutdown"
     /\ mailbox[i] = <<>> /\ doing[i] = None /\ reply[i] # None
  \/ /\ cmd = "Shutdown"
     /\ mailbox[i] = <<>> /\ doing[i] = "stopped" /\ reply[i] = None

PhaseCommand ==
  [send_aux |-> "RunAuxInfo", await_aux |-> "RunAuxInfo",
   send_keygen |-> "RunKeygen", await_keygen |-> "RunKeygen",
   send_get |-> "GetSharedPublicKeyBytes", await_get |-> "GetSharedPublicKeyBytes",
   send_shutdown |-> "Shutdown", ended |-> "Shutdown"]

\* Has main sent the command of its current broadcast to party i?
Commanded(i) == pc \notin DOMAIN Command \/ i < cursor

\* One command at a time.
CommandInv ==
  /\ \A i \in Parties : IF pc # "error" /\ Commanded(i)
                          THEN Handles(i, PhaseCommand[pc]) ELSE Free(i)
  /\ pc \in DOMAIN After => cursor = 0

HasAuxInfos == pc \notin {"send_aux", "await_aux", "error"}
HasKey      == pc \in {"send_get", "await_get", "send_shutdown", "ended"}

\* What a reply means, and what it means that all were good.
ResultInv ==
  /\ pc \in {"send_aux", "await_aux"} =>
       \A i \in Parties : reply[i] = "ok" => i \in auxInfo
  /\ pc \in {"send_keygen", "await_keygen"} =>
       \A i \in Parties : reply[i] = "ok" => i \in keyShare
  /\ HasAuxInfos => auxInfo = Parties
  /\ HasKey => keyShare = Parties
  /\ \A i \in auxInfo : auxStage[i] = "done"
  /\ \A i \in keyShare : kgStage[i] = "done"

NetInv ==
  /\ AuxNet!NetworkInv /\ AuxNet!NoEcho
  /\ KeygenNet!NetworkInv /\ KeygenNet!NoEcho

IInv == ControlOK /\ CommandInv /\ ResultInv /\ NetInv

LEMMA PhaseTable ==
  /\ PhaseCommand["send_aux"] = "RunAuxInfo"
  /\ PhaseCommand["await_aux"] = "RunAuxInfo"
  /\ PhaseCommand["send_keygen"] = "RunKeygen"
  /\ PhaseCommand["await_keygen"] = "RunKeygen"
  /\ PhaseCommand["send_get"] = "GetSharedPublicKeyBytes"
  /\ PhaseCommand["await_get"] = "GetSharedPublicKeyBytes"
  /\ PhaseCommand["send_shutdown"] = "Shutdown"
  /\ PhaseCommand["ended"] = "Shutdown"
  BY DEF PhaseCommand

-----------------------------------------------------------------------------
(* The networks *)

LEMMA InitNet == Init => NetInv
<1> SUFFICES ASSUME Init PROVE NetInv
  OBVIOUS
<1>1. AuxNet!Init
  BY DEF Init, Aux!Init, Aux!Parties, AuxNet!Init, AuxNet!Parties
<1>2. KeygenNet!Init
  BY DEF Init, Keygen!Init, Keygen!Parties, KeygenNet!Init, KeygenNet!Parties
<1>3. QED
  BY <1>1, <1>2, NetParameters, AuxNet!NetworkInit, KeygenNet!NetworkInit
     DEF NetInv

\* In each of the two networks every step is one of its tasks, or none.
LEMMA NetMoves ==
  ASSUME [Next]_vars
  PROVE  /\ \/ UNCHANGED auxVars
            \/ \E i \in Parties : AuxNet!Step(i, Parties, FALSE)
         /\ \/ UNCHANGED keygenVars
            \/ \E i \in Parties : KeygenNet!Step(i, Parties, FALSE)
<1>1. ASSUME NEW i \in Parties, Party(i) \/ ProtocolFails(i)
      PROVE  /\ UNCHANGED auxVars \/ AuxNet!Step(i, Parties, FALSE)
             /\ UNCHANGED keygenVars \/ KeygenNet!Step(i, Parties, FALSE)
  <2>1. \/ UNCHANGED auxVars
        \/ Aux!Start(i, FALSE) \/ Aux!Deliver(i, Parties) \/ Aux!Receive(i)
        \/ Aux!NextRound(i, FALSE) \/ Aux!Finish(i) \/ Aux!Fail(i)
    BY <1>1 DEF Party, ProtocolFails, RunAuxInfo, RunKeygen, Communicate,
       GetSharedPublicKeyBytes, Shutdown, AuxInfoDone, KeygenDone
  <2>2. \/ UNCHANGED keygenVars
        \/ Keygen!Start(i, FALSE) \/ Keygen!Deliver(i, Parties) \/ Keygen!Receive(i)
        \/ Keygen!NextRound(i, FALSE) \/ Keygen!Finish(i) \/ Keygen!Fail(i)
    BY <1>1 DEF Party, ProtocolFails, RunAuxInfo, RunKeygen, Communicate,
       GetSharedPublicKeyBytes, Shutdown, AuxInfoDone, KeygenDone
  <2>3. QED
    BY <2>1, <2>2, AuxSteps, KeygenSteps
<1>2. Main \/ UNCHANGED vars => UNCHANGED auxVars /\ UNCHANGED keygenVars
  BY DEF Main, SendCommand, Joined, vars
<1>3. QED
  BY <1>1, <1>2 DEF Next

LEMMA NetStep ==
  ASSUME NetInv, [Next]_vars
  PROVE  /\ NetInv'
         /\ \A i \in Parties : /\ auxStage[i] = "done" => auxStage'[i] = "done"
                               /\ kgStage[i] = "done" => kgStage'[i] = "done"
<1>1. AuxNet!Parties = Parties /\ KeygenNet!Parties = Parties
  BY DEF AuxNet!Parties, KeygenNet!Parties, Parties
<1>2. /\ AuxNet!NetworkInv' /\ AuxNet!NoEcho'
      /\ \A i \in Parties : auxStage[i] = "done" => auxStage'[i] = "done"
  <2>1. CASE UNCHANGED auxVars
    BY <2>1, AuxNet!NetworkStutter DEF NetInv, AuxNet!vars
  <2>2. CASE \E i \in Parties : AuxNet!Step(i, Parties, FALSE)
    BY <2>2, <1>1, NetParameters, AuxNet!NetworkStep, AuxNet!NoEchoStep,
       AuxNet!DoneStays DEF NetInv
  <2>3. QED
    BY <2>1, <2>2, NetMoves
<1>3. /\ KeygenNet!NetworkInv' /\ KeygenNet!NoEcho'
      /\ \A i \in Parties : kgStage[i] = "done" => kgStage'[i] = "done"
  <2>1. CASE UNCHANGED keygenVars
    BY <2>1, KeygenNet!NetworkStutter DEF NetInv, KeygenNet!vars
  <2>2. CASE \E i \in Parties : KeygenNet!Step(i, Parties, FALSE)
    BY <2>2, <1>1, NetParameters, KeygenNet!NetworkStep, KeygenNet!NoEchoStep,
       KeygenNet!DoneStays DEF NetInv
  <2>3. QED
    BY <2>1, <2>2, NetMoves
<1>4. QED
  BY <1>2, <1>3 DEF NetInv

-----------------------------------------------------------------------------
(* Commands and results *)

LEMMA OneCommand ==
  \A cmd : Head(<<cmd>>) = cmd /\ Tail(<<cmd>>) = <<>> /\ <<cmd>> # <<>>
  OBVIOUS

\* A party takes the command of the phase, once it was given to it.
LEMMA TakesCommandOfPhase ==
  ASSUME ControlOK, CommandInv, pc # "error", NEW i \in Parties, NEW cmd,
         Takes(i, cmd)
  PROVE  /\ Commanded(i) /\ cmd = PhaseCommand[pc] /\ reply[i] = None
         /\ doing[i] = None
         /\ mailbox' = [mailbox EXCEPT ![i] = <<>>]
<1>1. mailbox[i] # <<>> /\ doing[i] = None /\ Head(mailbox[i]) = cmd
      /\ mailbox' = [mailbox EXCEPT ![i] = Tail(mailbox[i])]
  BY DEF Takes
<1>2. Commanded(i) /\ mailbox[i] = <<PhaseCommand[pc]>> /\ reply[i] = None
  BY <1>1 DEF CommandInv, Handles, Free
<1>3. QED
  BY <1>1, <1>2, OneCommand

\* It works on a command only in the phase of that command.
LEMMA WorksInPhase ==
  ASSUME ControlOK, CommandInv, pc # "error", NEW i \in Parties,
         doing[i] \in {"RunAuxInfo", "RunKeygen"}
  PROVE  /\ Commanded(i) /\ doing[i] = PhaseCommand[pc] /\ reply[i] = None
         /\ mailbox[i] = <<>>
  BY DEF CommandInv, Handles, Free, None

\* A step of a party leaves main and the other parties alone, keeps to the
\* command of the phase, and replies "ok" only when it has the result.
LEMMA PartyEffect ==
  ASSUME ControlOK, CommandInv, pc # "error", NEW i \in Parties,
         Party(i) \/ ProtocolFails(i)
  PROVE  /\ UNCHANGED <<pc, cursor>> /\ ControlOK'
         /\ Commanded(i) /\ Handles(i, PhaseCommand[pc])'
         /\ \A j \in Parties \ {i} :
              /\ mailbox'[j] = mailbox[j] /\ doing'[j] = doing[j]
              /\ reply'[j] = reply[j]
         /\ auxInfo \subseteq auxInfo' /\ keyShare \subseteq keyShare'
         /\ PhaseCommand[pc] = "RunAuxInfo" /\ reply'[i] = "ok" => i \in auxInfo'
         /\ PhaseCommand[pc] = "RunKeygen" /\ reply'[i] = "ok" => i \in keyShare'
         /\ \A j \in auxInfo' \ auxInfo : j = i /\ Aux!Finish(i)
         /\ \A j \in keyShare' \ keyShare : j = i /\ Keygen!Finish(i)
<1> USE DEF ControlOK, None
<1>e. <<>> \in Seq(Commands)
  OBVIOUS
<1>1. CASE RunAuxInfo(i)
  <2>1. /\ Commanded(i) /\ PhaseCommand[pc] = "RunAuxInfo" /\ reply[i] = None
        /\ mailbox' = [mailbox EXCEPT ![i] = <<>>]
        /\ doing' = [doing EXCEPT ![i] = "RunAuxInfo"]
        /\ UNCHANGED <<pc, cursor, reply, auxInfo, keyShare>>
    BY <1>1, TakesCommandOfPhase DEF RunAuxInfo
  <2>2. QED
    BY <2>1, <1>e DEF Handles
<1>2. CASE RunKeygen(i)
  <2>1. /\ Commanded(i) /\ PhaseCommand[pc] = "RunKeygen" /\ reply[i] = None
        /\ doing[i] = None
        /\ mailbox' = [mailbox EXCEPT ![i] = <<>>]
        /\ UNCHANGED <<pc, cursor, auxInfo, keyShare>>
    BY <1>2, TakesCommandOfPhase DEF RunKeygen
  <2>2. \/ doing' = [doing EXCEPT ![i] = "RunKeygen"] /\ UNCHANGED reply
        \/ /\ reply' = [reply EXCEPT ![i] = "err"]
           /\ doing' = [doing EXCEPT ![i] = None]
    BY <1>2 DEF RunKeygen, Replies
  <2>3. QED
    BY <2>1, <2>2, <1>e DEF Handles
<1>3. CASE GetSharedPublicKeyBytes(i)
  <2>1. /\ Commanded(i) /\ PhaseCommand[pc] = "GetSharedPublicKeyBytes"
        /\ reply[i] = None
        /\ mailbox' = [mailbox EXCEPT ![i] = <<>>]
        /\ doing' = [doing EXCEPT ![i] = None]
        /\ UNCHANGED <<pc, cursor, auxInfo, keyShare>>
    BY <1>3, TakesCommandOfPhase DEF GetSharedPublicKeyBytes, Replies
  <2>2. \/ reply' = [reply EXCEPT ![i] = "err"]
        \/ reply' = [reply EXCEPT ![i] = "ok"]
    BY <1>3 DEF GetSharedPublicKeyBytes, Replies
  <2>3. QED
    BY <2>1, <2>2, <1>e DEF Handles
<1>4. CASE Shutdown(i)
  <2>1. /\ Commanded(i) /\ PhaseCommand[pc] = "Shutdown" /\ reply[i] = None
        /\ mailbox' = [mailbox EXCEPT ![i] = <<>>]
        /\ doing' = [doing EXCEPT ![i] = "stopped"]
        /\ UNCHANGED <<pc, cursor, reply, auxInfo, keyShare>>
    BY <1>4, TakesCommandOfPhase DEF Shutdown
  <2>2. QED
    BY <2>1, <1>e DEF Handles
<1>5. CASE Communicate(i)
  <2>1. /\ doing[i] \in {"RunAuxInfo", "RunKeygen"}
        /\ UNCHANGED <<pc, cursor, mailbox, reply, doing, auxInfo, keyShare>>
    BY <1>5 DEF Communicate
  <2>2. QED
    BY <2>1, WorksInPhase DEF Handles
<1>6. CASE AuxInfoDone(i)
  <2>1. /\ doing[i] = "RunAuxInfo" /\ Aux!Finish(i)
        /\ auxInfo' = auxInfo \cup {i} /\ reply' = [reply EXCEPT ![i] = "ok"]
        /\ doing' = [doing EXCEPT ![i] = None]
        /\ UNCHANGED <<pc, cursor, mailbox, keyShare>>
    BY <1>6 DEF AuxInfoDone, Replies
  <2>2. QED
    BY <2>1, WorksInPhase DEF Handles
<1>7. CASE KeygenDone(i)
  <2>1. /\ doing[i] = "RunKeygen" /\ Keygen!Finish(i)
        /\ keyShare' = keyShare \cup {i} /\ reply' = [reply EXCEPT ![i] = "ok"]
        /\ doing' = [doing EXCEPT ![i] = None]
        /\ UNCHANGED <<pc, cursor, mailbox, auxInfo>>
    BY <1>7 DEF KeygenDone, Replies
  <2>2. QED
    BY <2>1, WorksInPhase DEF Handles
<1>8. CASE ProtocolFails(i)
  <2>1. /\ doing[i] \in {"RunAuxInfo", "RunKeygen"}
        /\ reply' = [reply EXCEPT ![i] = "err"]
        /\ doing' = [doing EXCEPT ![i] = None]
        /\ UNCHANGED <<pc, cursor, mailbox, auxInfo, keyShare>>
    BY <1>8 DEF ProtocolFails, Replies
  <2>2. QED
    BY <2>1, WorksInPhase DEF Handles
<1>9. QED
  BY <1>1, <1>2, <1>3, <1>4, <1>5, <1>6, <1>7, <1>8 DEF Party

LEMMA PartyKeeps ==
  ASSUME IInv, [Next]_vars, pc # "error", NEW i \in Parties,
         Party(i) \/ ProtocolFails(i)
  PROVE  ControlOK' /\ CommandInv' /\ ResultInv'
<1>i. ControlOK /\ CommandInv /\ ResultInv
  BY DEF IInv
<1>e. /\ UNCHANGED <<pc, cursor>> /\ ControlOK'
      /\ Commanded(i) /\ Handles(i, PhaseCommand[pc])'
      /\ \A j \in Parties \ {i} :
           /\ mailbox'[j] = mailbox[j] /\ doing'[j] = doing[j]
           /\ reply'[j] = reply[j]
      /\ auxInfo \subseteq auxInfo' /\ keyShare \subseteq keyShare'
      /\ PhaseCommand[pc] = "RunAuxInfo" /\ reply'[i] = "ok" => i \in auxInfo'
      /\ PhaseCommand[pc] = "RunKeygen" /\ reply'[i] = "ok" => i \in keyShare'
      /\ \A j \in auxInfo' \ auxInfo : j = i /\ Aux!Finish(i)
      /\ \A j \in keyShare' \ keyShare : j = i /\ Keygen!Finish(i)
  BY <1>i, PartyEffect
<1>1. CommandInv'
  <2>1. ASSUME NEW j \in Parties
        PROVE  (IF pc # "error" /\ Commanded(j)
                  THEN Handles(j, PhaseCommand[pc]) ELSE Free(j))'
    <3>1. CASE j = i
      BY <3>1, <1>e DEF Commanded
    <3>2. CASE j # i
      BY <3>2, <1>e, <1>i DEF CommandInv, Commanded, Handles, Free
    <3>3. QED
      BY <3>1, <3>2
  <2>2. QED
    BY <2>1, <1>e, <1>i DEF CommandInv
<1>2. /\ \A j \in auxInfo' : auxStage'[j] = "done"
      /\ \A j \in keyShare' : kgStage'[j] = "done"
  <2>1. /\ \A j \in auxInfo : auxStage'[j] = "done"
        /\ \A j \in keyShare : kgStage'[j] = "done"
    BY <1>i, NetStep DEF IInv, ResultInv, ControlOK
  <2>2. /\ Aux!Finish(i) => auxStage'[i] = "done"
        /\ Keygen!Finish(i) => kgStage'[i] = "done"
    <3>1. i \in DOMAIN auxStage /\ i \in DOMAIN kgStage
      BY DEF IInv, NetInv, AuxNet!NetworkInv, AuxNet!TypeOK, AuxNet!Parties,
             KeygenNet!NetworkInv, KeygenNet!TypeOK, KeygenNet!Parties, Parties
    <3>2. QED
      BY <3>1 DEF Aux!Finish, Keygen!Finish
  <2>3. QED
    BY <2>1, <2>2, <1>e
<1>3. ResultInv'
  <2>1. auxInfo' \subseteq Parties /\ keyShare' \subseteq Parties
    BY <1>e DEF ControlOK
  <2>2. (HasAuxInfos => auxInfo = Parties)' /\ (HasKey => keyShare = Parties)'
    BY <2>1, <1>e, <1>i DEF ResultInv, HasAuxInfos, HasKey
  <2>3. ASSUME pc \in {"send_aux", "await_aux"}, NEW j \in Parties, reply'[j] = "ok"
        PROVE  j \in auxInfo'
    <3>1. CASE j = i
      BY <2>3, <3>1, <1>e, PhaseTable
    <3>2. CASE j # i
      BY <2>3, <3>2, <1>e, <1>i DEF ResultInv
    <3>3. QED
      BY <3>1, <3>2
  <2>4. ASSUME pc \in {"send_keygen", "await_keygen"}, NEW j \in Parties,
               reply'[j] = "ok"
        PROVE  j \in keyShare'
    <3>1. CASE j = i
      BY <2>4, <3>1, <1>e, PhaseTable
    <3>2. CASE j # i
      BY <2>4, <3>2, <1>e, <1>i DEF ResultInv
    <3>3. QED
      BY <3>1, <3>2
  <2>5. QED
    BY <2>2, <2>3, <2>4, <1>2, <1>e DEF ResultInv
<1>4. QED
  BY <1>e, <1>1, <1>3

LEMMA MainKeeps ==
  ASSUME IInv, [Next]_vars, Main
  PROVE  ControlOK' /\ CommandInv' /\ ResultInv'
<1>i. /\ ControlOK /\ CommandInv /\ ResultInv /\ N \in Nat /\ N >= 2
      /\ cursor \in Nat /\ cursor <= N - 1
  BY PartyTasksAssumption DEF IInv, ControlOK, Parties
<1>c. DOMAIN Command \cap DOMAIN After = {} /\ "error" \notin DOMAIN Command \cup DOMAIN After
  BY Tables
<1>s. /\ UNCHANGED <<auxInfo, keyShare, auxStage, kgStage>>
  BY DEF Main, SendCommand, Joined
<1>1. CASE SendCommand
  <2>1. /\ pc \in DOMAIN Command /\ ~Commanded(cursor) /\ Free(cursor)
        /\ mailbox' = [mailbox EXCEPT ![cursor] = Append(@, Command[pc])]
        /\ UNCHANGED <<reply, doing, auxInfo, keyShare>>
        /\ IF cursor < N - 1 THEN cursor' = cursor + 1 /\ pc' = pc
                             ELSE cursor' = 0 /\ pc' = Await[pc]
    BY <1>1, <1>i, <1>c DEF SendCommand, CommandInv, Commanded, ControlOK
  <2>2. Command[pc] \in Commands /\ PhaseCommand[pc] = Command[pc]
    BY <2>1, Tables, PhaseTable DEF Commands
  <2>3. Append(<<>>, Command[pc]) = <<Command[pc]>> /\ <<Command[pc]>> \in Seq(Commands)
    BY <2>2
  <2>4. mailbox' = [mailbox EXCEPT ![cursor] = <<Command[pc]>>]
    BY <2>1, <2>3 DEF Free
  <2>5. /\ PhaseCommand[pc'] = PhaseCommand[pc] /\ pc' # "error"
        /\ pc' \in DOMAIN Command \cup {"await_aux", "await_keygen", "await_get", "ended"}
        /\ pc' \in DOMAIN Command => pc' = pc /\ cursor' = cursor + 1
        /\ pc' \in DOMAIN After => cursor' = 0
        /\ HasAuxInfos' = HasAuxInfos /\ HasKey' = HasKey
        /\ pc' \in {"send_aux", "await_aux"} <=> pc \in {"send_aux", "await_aux"}
        /\ pc' \in {"send_keygen", "await_keygen"} <=> pc \in {"send_keygen", "await_keygen"}
        /\ pc' \notin DOMAIN Command => cursor = N - 1
    BY <2>1, <1>i, Tables, PhaseTable DEF HasAuxInfos, HasKey
  <2>6. ControlOK'
    BY <2>1, <2>3, <2>4, <2>5, <1>i, Tables DEF ControlOK, Parties
  <2>7. ASSUME NEW j \in Parties
        PROVE  (IF pc # "error" /\ Commanded(j)
                  THEN Handles(j, PhaseCommand[pc]) ELSE Free(j))'
    <3>1. CASE j = cursor
      <4>1. Handles(j, PhaseCommand[pc])'
        BY <3>1, <2>1, <2>2, <2>4, <2>5, <1>i DEF Handles, Free, ControlOK
      <4>2. Commanded(j)'
        BY <3>1, <2>5, <1>i DEF Commanded
      <4>3. QED
        BY <4>1, <4>2, <2>5
    <3>2. CASE j # cursor
      <4>1. mailbox'[j] = mailbox[j]
        BY <3>2, <2>4, <1>i DEF ControlOK
      <4>2. Commanded(j)' <=> Commanded(j)
        BY <3>2, <2>1, <2>5, <1>i DEF Commanded, Parties
      <4>3. IF Commanded(j) THEN Handles(j, PhaseCommand[pc]) ELSE Free(j)
        BY <2>1, <1>i, <1>c DEF CommandInv
      <4>4. QED
        BY <4>1, <4>2, <4>3, <2>1, <2>5 DEF Handles, Free
    <3>3. QED
      BY <3>1, <3>2
  <2>8. CommandInv'
    BY <2>5, <2>7 DEF CommandInv
  <2>9. ResultInv'
    BY <2>1, <2>5, <1>s, <1>i DEF ResultInv
  <2>10. QED
    BY <2>6, <2>8, <2>9
<1>2. CASE Joined
  <2>1. /\ pc \in DOMAIN After /\ cursor = 0 /\ Answered
        /\ pc' = IF \A i \in Parties : reply[i] = "ok" THEN After[pc] ELSE "error"
        /\ reply' = [i \in Parties |-> None]
        /\ UNCHANGED <<cursor, mailbox, doing>>
    BY <1>2, <1>i DEF Joined, CommandInv
  <2>2. \A j \in Parties : mailbox[j] = <<>> /\ doing[j] = None
    BY <2>1, <1>i, <1>c DEF CommandInv, Commanded, Handles, Answered
  <2>3. ControlOK'
    BY <2>1, <1>i, Tables DEF ControlOK
  <2>4. \A j \in Parties : Free(j)' /\ ~(pc' # "error" /\ Commanded(j)')
    BY <2>1, <2>2, <1>i, Tables DEF Free, Commanded, Parties
  <2>5. CommandInv'
    BY <2>1, <2>4 DEF CommandInv
  <2>6. ResultInv'
    <3>1. /\ HasAuxInfos' => auxInfo = Parties
          /\ HasKey' => keyShare = Parties
      BY <2>1, <1>i, Tables DEF HasAuxInfos, HasKey, ResultInv, ControlOK
    <3>2. \A j \in Parties : reply'[j] # "ok"
      BY <2>1 DEF None
    <3>3. QED
      BY <3>1, <3>2, <1>s, <1>i DEF ResultInv
  <2>7. QED
    BY <2>3, <2>5, <2>6
<1>3. QED
  BY <1>1, <1>2 DEF Main

LEMMA InitIInv == Init => IInv
<1> SUFFICES ASSUME Init PROVE IInv
  OBVIOUS
<1>1. <<>> \in Seq(Commands) /\ 0 \in Parties
  BY PartyTasksAssumption DEF Parties
<1>2. ControlOK
  BY <1>1, Tables DEF Init, ControlOK, None
<1>3. \A i \in Parties : ~Commanded(i) /\ Free(i)
  BY Tables, PartyTasksAssumption DEF Init, Free, Commanded, Parties
<1>4. CommandInv
  BY <1>3, Tables DEF Init, CommandInv
<1>5. ResultInv
  BY DEF Init, ResultInv, HasAuxInfos, HasKey, None
<1>6. QED
  BY <1>2, <1>4, <1>5, InitNet DEF IInv

\* Every task has the command of main's current broadcast or has answered it, and
\* both networks keep the invariant of Execution_proofs.
THEOREM IInvHolds == Spec => []IInv
<1>1. IInv /\ [Next]_vars => IInv'
  <2> SUFFICES ASSUME IInv, [Next]_vars PROVE ControlOK' /\ CommandInv' /\ ResultInv'
    BY NetStep DEF IInv
  <2>1. CASE Main
    BY <2>1, MainKeeps
  <2>2. ASSUME NEW i \in Parties, Party(i) \/ (pc # "error" /\ ProtocolFails(i))
        PROVE  ControlOK' /\ CommandInv' /\ ResultInv'
    BY <2>2, PartyKeeps DEF Party
  <2>3. CASE UNCHANGED vars
    BY <2>3 DEF vars, IInv, ControlOK, CommandInv, ResultInv, Commanded, Handles,
                Free, HasAuxInfos, HasKey
  <2>4. QED
    BY <2>1, <2>2, <2>3 DEF Next
<1>2. QED
  BY InitIInv, <1>1, PTL DEF Spec

-----------------------------------------------------------------------------
(* The properties *)

\* Every variable of main, of the tasks and of the two networks keeps its type.
THEOREM TypeCorrect == Spec => []TypeOK
<1>1. IInv => TypeOK
  BY NetTypes DEF IInv, ControlOK, NetInv, AuxNet!NetworkInv,
                  KeygenNet!NetworkInv, TypeOK
<1>2. QED
  BY IInvHolds, <1>1, PTL

\* No party is told to run key generation before all have aux info, and none is
\* asked for the key before all have a key share, whichever protocols fail.
THEOREM SeparatePhases == Spec => []PhasesNeverOverlap
<1>1. IInv => PhasesNeverOverlap
  <2> SUFFICES ASSUME IInv, NEW i \in Parties
               PROVE  /\ "RunKeygen" \in {mailbox[i][k] : k \in DOMAIN mailbox[i]} \cup {doing[i]}
                           => auxInfo = Parties
                      /\ "GetSharedPublicKeyBytes" \in
                              {mailbox[i][k] : k \in DOMAIN mailbox[i]}
                           => keyShare = Parties
    BY DEF PhasesNeverOverlap
  <2>1. ControlOK /\ CommandInv /\ ResultInv
    BY DEF IInv
  <2>2. \A cmd : cmd \in {mailbox[i][k] : k \in DOMAIN mailbox[i]} \cup {doing[i]}
                   /\ cmd \in {"RunKeygen", "GetSharedPublicKeyBytes"}
                 => pc # "error" /\ cmd = PhaseCommand[pc]
    <3>1. \A c : DOMAIN <<c>> = {1} /\ <<c>>[1] = c
      OBVIOUS
    <3>2. DOMAIN <<>> = {}
      OBVIOUS
    <3>3. QED
      BY <2>1, <3>1, <3>2 DEF CommandInv, Handles, Free, None
  <2>3. /\ pc # "error" /\ PhaseCommand[pc] = "RunKeygen" => HasAuxInfos
        /\ pc # "error" /\ PhaseCommand[pc] = "GetSharedPublicKeyBytes" => HasKey
    BY <2>1, PhaseTable, Tables DEF ControlOK, HasAuxInfos, HasKey
  <2>4. QED
    BY <2>1, <2>2, <2>3 DEF ResultInv
<1>2. QED
  BY IInvHolds, <1>1, PTL

\* When main has the results of a protocol, its network is empty and stays so.
THEOREM Drained == Spec => []NetworksDrained
<1>1. IInv => NetworksDrained
  <2> SUFFICES ASSUME IInv PROVE NetworksDrained
    OBVIOUS
  <2>1. AuxNet!Parties = Parties /\ KeygenNet!Parties = Parties
    BY DEF AuxNet!Parties, KeygenNet!Parties, Parties
  <2>2. ASSUME NEW i \in Parties, auxStage[i] = "done"
        PROVE  auxInbox[i] = <<>> /\ auxTodo[i] = {}
    BY <2>1, <2>2, NetParameters, AuxNet!DoneInboxEmpty
       DEF IInv, NetInv, AuxNet!NetworkInv, AuxNet!TaskInv
  <2>3. ASSUME NEW i \in Parties, kgStage[i] = "done"
        PROVE  kgInbox[i] = <<>> /\ kgTodo[i] = {}
    BY <2>1, <2>3, NetParameters, KeygenNet!DoneInboxEmpty
       DEF IInv, NetInv, KeygenNet!NetworkInv, KeygenNet!TaskInv
  <2>4. QED
    BY <2>2, <2>3 DEF IInv, ResultInv, HasAuxInfos, HasKey, NetworksDrained
<1>2. QED
  BY IInvHolds, <1>1, PTL

\* No inbox ever holds more than two messages of one sender.
THEOREM SmallInboxes == Spec => []InboxesStaySmall
<1>1. ASSUME IInv PROVE InboxesStaySmall
  <2>1. AuxNet!Parties = Parties /\ KeygenNet!Parties = Parties
    BY DEF AuxNet!Parties, KeygenNet!Parties, Parties
  <2>2. ASSUME NEW i \in Parties, NEW j \in Parties, i # j
        PROVE  Cardinality({k \in DOMAIN auxInbox[i] : auxInbox[i][k].from = j}) <= 2
    <3>1. i \in AuxNet!Parties /\ j \in AuxNet!Parties
      BY <2>1
    <3>2. AuxNet!Parameters /\ AuxNet!NetworkInv
      BY <1>1, NetParameters DEF IInv, NetInv
    <3>3. QED
      BY <3>1, <3>2, <2>2, AuxNet!AtMostTwoWaiting, Zenon
         DEF Cardinality, IsFiniteSet, AuxNet!Cardinality, AuxNet!IsFiniteSet
  <2>3. ASSUME NEW i \in Parties, NEW j \in Parties, i # j
        PROVE  Cardinality({k \in DOMAIN kgInbox[i] : kgInbox[i][k].from = j}) <= 2
    <3>1. i \in KeygenNet!Parties /\ j \in KeygenNet!Parties
      BY <2>1
    <3>2. KeygenNet!Parameters /\ KeygenNet!NetworkInv
      BY <1>1, NetParameters DEF IInv, NetInv
    <3>3. QED
      BY <3>1, <3>2, <2>3, KeygenNet!AtMostTwoWaiting, Zenon
         DEF Cardinality, IsFiniteSet, KeygenNet!Cardinality, KeygenNet!IsFiniteSet
  <2>4. QED
    BY <2>2, <2>3 DEF InboxesStaySmall
<1>2. QED
  BY IInvHolds, <1>1, PTL
=============================================================================
