------------------------ MODULE CoordRuntime_proofs ------------------------
(***************************************************************************)
(* Theorems about CoordRuntime for every number of parties, every set of   *)
(* batches and payloads, every choice of pool sizes and every bound.       *)
(***************************************************************************)
EXTENDS CoordRuntime, TLAPS

-----------------------------------------------------------------------------
(* Pools and presignature sets *)

LEMMA PoolOfType ==
  ASSUME NEW b \in Batches
  PROVE  /\ PoolOf(b) \in Seq(PresigSet)
         /\ Len(PoolOf(b)) = PoolSize[b]
         /\ PoolSize[b] \in Nat
         /\ DOMAIN PoolOf(b) = 1 .. PoolSize[b]
         /\ \A k \in DOMAIN PoolOf(b) : PoolOf(b)[k] = [batch |-> b, index |-> k]
<1>1. PoolSize[b] \in Nat
  BY BatchAssumption
<1>2. \A k \in 1 .. PoolSize[b] : [batch |-> b, index |-> k] \in PresigSet
  BY DEF PresigSet
<1>3. QED
  BY <1>1, <1>2 DEF PoolOf

LEMMA AfterPopType ==
  ASSUME NEW S, NEW q \in Seq(S), q # <<>>
  PROVE  /\ NextItem(q) \in S
         /\ AfterPop(q) \in Seq(S)
         /\ Len(AfterPop(q)) = Len(q) - 1
         /\ Len(q) > 0
         /\ \A k \in DOMAIN AfterPop(q) : AfterPop(q)[k] = q[k + 1]
         /\ NextItem(q) = q[1]
  BY DEF NextItem, AfterPop

LEMMA PresigFields ==
  ASSUME NEW s \in PresigSet
  PROVE  /\ s.batch \in Batches /\ s.index \in 1 .. PoolSize[s.batch]
         /\ s.index \in Nat /\ PoolSize[s.batch] \in Nat
         /\ s = [batch |-> s.batch, index |-> s.index]
<1>1. PICK b \in Batches : \E k \in 1 .. PoolSize[b] : s = [batch |-> b, index |-> k]
  BY DEF PresigSet
<1>2. PICK k \in 1 .. PoolSize[b] : s = [batch |-> b, index |-> k]
  BY <1>1
<1>3. PoolSize[b] \in Nat
  BY BatchAssumption
<1>4. QED
  BY <1>2, <1>3

\* A set is determined by its batch and its place in it.
LEMMA PresigExtensionality ==
  ASSUME NEW s \in PresigSet, NEW t \in PresigSet,
         s.batch = t.batch, s.index = t.index
  PROVE  s = t
  BY PresigFields

LEMMA PartialFields ==
  ASSUME NEW sig \in Partial
  PROVE  /\ sig.set \in PresigSet /\ sig.payload \in Payloads
         /\ sig = [set |-> sig.set, payload |-> sig.payload]
  BY DEF Partial

USE DEF Online, Parties, Rounds

-----------------------------------------------------------------------------
(* The inductive invariant *)

Idle == reply = NoReply /\ \A i \in Online : mailbox[i] = <<>>

\* The command for the node under the cursor is in its mailbox, or its result is
\* in the oneshot; all other mailboxes are empty.
InFlight(command, results) ==
  /\ \A i \in Online : i # cursor => mailbox[i] = <<>>
  /\ \/ mailbox[cursor] = <<command>> /\ reply = NoReply
     \/ mailbox[cursor] = <<>> /\ reply \in results

RequestReply ==
  /\ pc \notin {"init_wait", "sign_wait"} => Idle
  /\ pc = "init_wait" =>
       InFlight(InitCommand, {ErrReply} \cup [tag : {"size"}, size : Nat])
  /\ pc = "sign_wait" =>
       InFlight(SignCommand(payload),
                {ErrReply} \cup [tag : {"partial"}, sig : Partial])

\* During a pass without failures the sizes reported so far are the sizes of the
\* pools of the nodes visited so far.
Loaded(i, size) == i \in initialized /\ Len(presigPool[i]) = size

InitPassInv ==
  /\ pc \in {"init_send", "init_wait"} /\ failedNodes = {} =>
       /\ Len(poolSizes) = cursor - 1
       /\ \A k \in 1 .. cursor - 1 : Loaded(k, poolSizes[k])
  /\ pc = "init_wait" /\ reply # NoReply /\ reply # ErrReply =>
       Loaded(cursor, reply.size)

\* A signing pass consumes one presignature per node visited, or fails on all
\* nodes because all pools are empty.
Visited(i) == i < cursor \/ (i = cursor /\ pc = "sign_wait" /\ reply # NoReply)

SignPassInv ==
  /\ pc \in SignPcs \cup {"offline_wait"} =>
       /\ payload \in Payloads /\ round < MaxRound
       /\ \A i \in Online : i \in initialized
  /\ pc \in SignPcs =>
       IF remaining = 0
         THEN /\ \A i \in Online : Len(presigPool[i]) = 0
              /\ partials = <<>>
              /\ reply = NoReply \/ reply = ErrReply
         ELSE /\ signErrors = {}
              /\ reply # ErrReply
              /\ \A i \in Online :
                   Len(presigPool[i]) = IF Visited(i) THEN remaining - 1
                                                      ELSE remaining

IInv ==
  /\ TypeOK
  /\ RequestReply
  /\ InitPassInv
  /\ SignPassInv
  /\ PoolsInLockstep
  /\ SignPassAllOrNothing

-----------------------------------------------------------------------------

LEMMA SendType ==
  ASSUME mailbox \in [Online -> Seq(Commands)], cursor \in Online,
         NEW command \in Commands
  PROVE  [mailbox EXCEPT ![cursor] = Append(@, command)]
           \in [Online -> Seq(Commands)]
  OBVIOUS

-----------------------------------------------------------------------------

\* A handled command has left a reply of the pass: the error path is an error
\* reply and nothing else.
LEMMA ReplyKinds ==
  ASSUME RequestReply
  PROVE  /\ RecvInit => /\ reply = ErrReply \/ reply \in [tag : {"size"}, size : Nat]
                        /\ reply # NoReply
                        /\ reply.tag = "size" <=> reply # ErrReply
         /\ RecvSign => /\ reply = ErrReply \/ reply \in [tag : {"partial"}, sig : Partial]
                        /\ reply # NoReply
                        /\ reply.tag = "partial" <=> reply # ErrReply
<1>1. ErrReply.tag = "err" /\ NoReply.tag = "none"
  BY DEF ErrReply, NoReply
<1>2. ASSUME RecvInit
      PROVE  reply = ErrReply \/ reply \in [tag : {"size"}, size : Nat]
  BY <1>2 DEF RecvInit, CommandHandled, RequestReply, InFlight
<1>3. ASSUME RecvSign
      PROVE  reply = ErrReply \/ reply \in [tag : {"partial"}, sig : Partial]
  BY <1>3 DEF RecvSign, CommandHandled, RequestReply, InFlight
<1>4. \A r : /\ r \in [tag : {"size"}, size : Nat] => r.tag = "size"
             /\ r \in [tag : {"partial"}, sig : Partial] => r.tag = "partial"
  OBVIOUS
<1>5. QED
  BY <1>1, <1>2, <1>3, <1>4

-----------------------------------------------------------------------------
(* Initial states *)

LEMMA InitIInv == Init => IInv
<1> SUFFICES ASSUME Init PROVE IInv
  OBVIOUS
<1> USE DEF Init, ProcessInit
<1>1. TypeOK
  BY CoordAssumption DEF TypeOK, Pcs, InitPcs, Replies, NoReply
<1>2. RequestReply /\ InitPassInv
  BY <1>1 DEF RequestReply, Idle, InitPassInv, TypeOK
<1>3. SignPassInv /\ PoolsInLockstep /\ SignPassAllOrNothing
  BY DEF SignPassInv, PoolsInLockstep, SignPassAllOrNothing, SignPcs
<1>4. QED
  BY <1>1, <1>2, <1>3 DEF IInv
-----------------------------------------------------------------------------
(* Steps preserve the types *)

LEMMA TypeStep == IInv /\ [Next]_vars => TypeOK'
<1> SUFFICES ASSUME IInv, [Next]_vars PROVE TypeOK'
  OBVIOUS
<1> USE CoordAssumption DEF TypeOK, Pcs, InitPcs, SignPcs, LoopTop, mainVars,
        initVars, signVars, passVars, nodeVars, fileVars, history, program
<1>i. TypeOK /\ RequestReply /\ InitPassInv /\ SignPassInv /\ PoolsInLockstep
  BY DEF IInv
<1>1. CASE SendInit
  <2>1. InitCommand \in Commands
    BY DEF InitCommand, Commands
  <2>2. mailbox' \in [Online -> Seq(Commands)]
    BY <1>1, <1>i, <2>1, SendType DEF SendInit
  <2>3. QED
    BY <1>1, <1>i, <2>2 DEF SendInit
<1>2. CASE RecvInit
  <2>1. reply = ErrReply \/ reply \in [tag : {"size"}, size : Nat]
    BY <1>2, <1>i, ReplyKinds
  <2>2. NoReply \in Replies
    BY DEF NoReply, Replies
  <2>3. poolSizes' \in Seq(Nat) /\ failedNodes' \subseteq Online
    <3>1. CASE reply = ErrReply
      BY <1>2, <1>i, <3>1, ReplyKinds DEF RecvInit
    <3>2. CASE reply # ErrReply
      <4>1. reply.size \in Nat
        BY <2>1, <3>2
      <4>2. Append(poolSizes, reply.size) \in Seq(Nat)
        BY <4>1, <1>i
      <4>3. QED
        BY <1>2, <1>i, <3>2, <4>2, ReplyKinds DEF RecvInit
    <3>3. QED
      BY <3>1, <3>2
  <2>4. cursor' \in Online /\ pc' \in Pcs /\ remaining' \in Nat
    <3>1. CASE cursor < N - 1
      BY <1>2, <1>i, <3>1, ReplyKinds DEF RecvInit
    <3>2. CASE ~(cursor < N - 1)
      <4>1. cursor' = cursor /\ InitPassEnds(poolSizes', failedNodes')
        BY <1>2, <3>2 DEF RecvInit
      <4>2. CASE PassRejected(poolSizes', failedNodes')
        BY <4>1, <4>2, <1>i DEF InitPassEnds
      <4>3. CASE ~PassRejected(poolSizes', failedNodes')
        <5>1. failedNodes' = {}
          BY <4>3 DEF PassRejected
        <5>2. reply # ErrReply /\ poolSizes' = Append(poolSizes, reply.size)
          BY <5>1, <1>2, <1>i, ReplyKinds DEF RecvInit
        <5>3. poolSizes'[1] \in Nat
          BY <5>2, <2>1, <1>i
        <5>4. QED
          BY <4>1, <4>3, <5>3, <1>i DEF InitPassEnds
      <4>4. QED
        BY <4>2, <4>3
    <3>3. QED
      BY <3>1, <3>2
  <2>5. QED
    BY <1>2, <1>i, <2>2, <2>3, <2>4 DEF RecvInit
<1>3. CASE RetryInit
  <2>1. cursor' \in Online /\ poolSizes' \in Seq(Nat) /\ failedNodes' \subseteq Online
    BY <1>3, CoordAssumption DEF RetryInit, StartInitPass, Online
  <2>2. QED
    BY <1>3, <1>i, <2>1 DEF RetryInit, StartInitPass
<1>4. CASE SendSign
  <2>1. SignCommand(payload) \in Commands
    BY <1>4, <1>i DEF SendSign, SignPassInv, SignCommand, Commands
  <2>2. mailbox' \in [Online -> Seq(Commands)]
    BY <1>4, <1>i, <2>1, SendType DEF SendSign
  <2>3. QED
    BY <1>4, <1>i, <2>2 DEF SendSign
<1>5. CASE RecvSign
  <2>1. reply = ErrReply \/ reply \in [tag : {"partial"}, sig : Partial]
    BY <1>5, <1>i, ReplyKinds
  <2>2. NoReply \in Replies
    BY DEF NoReply, Replies
  <2>3. partials' \in Seq(Partial) /\ signErrors' \subseteq Online
    <3>1. CASE reply = ErrReply
      BY <1>5, <1>i, <3>1, ReplyKinds DEF RecvSign
    <3>2. CASE reply # ErrReply
      <4>1. reply.sig \in Partial
        BY <2>1, <3>2
      <4>2. Append(partials, reply.sig) \in Seq(Partial)
        BY <4>1, <1>i
      <4>3. QED
        BY <1>5, <1>i, <3>2, <4>2, ReplyKinds DEF RecvSign
    <3>3. QED
      BY <3>1, <3>2
  <2>4. cursor' \in Online /\ pc' \in Pcs /\ remaining' \in Nat
    <3>1. CASE cursor < N - 1
      <4>1. cursor' = cursor + 1 /\ pc' = "sign_send" /\ remaining' = remaining
        BY <1>5, <3>1 DEF RecvSign
      <4>2. QED
        BY <4>1, <3>1, <1>i, CoordAssumption DEF Online, Pcs
    <3>2. CASE ~(cursor < N - 1)
      <4>1. cursor' = cursor /\ SignPassEnds(signErrors')
        BY <1>5, <3>2 DEF RecvSign
      <4>2. pc' \in Pcs /\ remaining' \in Nat
        BY <4>1, <1>i DEF SignPassEnds, Pcs
      <4>3. QED
        BY <4>1, <4>2, <1>i
    <3>3. QED
      BY <3>1, <3>2
  <2>5. QED
    BY <1>5, <1>i, <2>2, <2>3, <2>4 DEF RecvSign
<1>6. ASSUME NEW i \in Online, Node(i) PROVE TypeOK'
  <2> USE DEF TakesCommand, Answer, RemovePoolFile
  <2>1. /\ mailbox' = [mailbox EXCEPT ![i] = Tail(@)]
        /\ mailbox[i] # <<>>
    BY <1>6 DEF Node, NodeInitMissing, NodeInitDirNotEmpty, NodeInitLoads,
                NodeSignRefuses, NodeSigns
  <2>2. mailbox' \in [Online -> Seq(Commands)]
    BY <2>1, <1>i
  <2>3. ErrReply \in Replies
    BY DEF ErrReply, Replies
  <2>4. CASE NodeInitMissing(i)
    BY <2>2, <2>3, <2>4, <1>i DEF NodeInitMissing
  <2>5. CASE NodeInitDirNotEmpty(i)
    BY <2>2, <2>3, <2>5, <1>i DEF NodeInitDirNotEmpty
  <2>6. CASE NodeInitLoads(i)
    <3>1. poolFile[i] \in Batches
      BY <2>6, <1>i DEF NodeInitLoads
    <3>2. /\ PoolOf(poolFile[i]) \in Seq(PresigSet)
          /\ SizeReply(PoolSize[poolFile[i]]) \in Replies
      BY <3>1, PoolOfType DEF SizeReply, Replies
    <3>3. QED
      BY <2>2, <2>6, <3>2, <1>i DEF NodeInitLoads
  <2>7. CASE NodeSignRefuses(i)
    BY <2>2, <2>3, <2>7, <1>i DEF NodeSignRefuses
  <2>8. CASE NodeSigns(i)
    <3> DEFINE sig == IssuePartialSignature(NextItem(presigPool[i]),
                                            Head(mailbox[i]).payload)
    <3>1. /\ NextItem(presigPool[i]) \in PresigSet
          /\ AfterPop(presigPool[i]) \in Seq(PresigSet)
      BY <2>8, <1>i, AfterPopType DEF NodeSigns, IsEmpty
    <3>2. Head(mailbox[i]) \in Commands /\ Head(mailbox[i]).cmd = "Sign"
      BY <2>8, <1>i DEF NodeSigns
    <3>3. Head(mailbox[i]).payload \in Payloads
      BY <3>2 DEF Commands
    <3>4. sig \in Partial
      BY <3>1, <3>3 DEF IssuePartialSignature, Partial
    <3>5. SignReply(sig) \in Replies
      BY <3>4 DEF SignReply, Replies
    <3>6. /\ reply' = SignReply(sig)
          /\ issued' = [issued EXCEPT ![i] = @ \cup {sig}]
      BY <2>8 DEF NodeSigns
    <3>7. issued' \in [Parties -> SUBSET Partial]
      BY <3>4, <3>6, <1>i
    <3>8. QED
      BY <2>2, <2>8, <3>1, <3>5, <3>6, <3>7, <1>i DEF NodeSigns
  <2>9. QED
    BY <1>6, <2>4, <2>5, <2>6, <2>7, <2>8 DEF Node
<1>7. CASE PressEnterReload
  <2>1. cursor' \in Online /\ poolSizes' \in Seq(Nat) /\ failedNodes' \subseteq Online
    BY <1>7, CoordAssumption DEF PressEnterReload, StartInitPass, Online
  <2>2. QED
    BY <1>7, <1>i, <2>1 DEF PressEnterReload, StartInitPass
<1>8. CASE EnterBadPayload
  BY <1>8, <1>i DEF EnterBadPayload
<1>9. ASSUME NEW p \in Payloads, EnterPayload(p) PROVE TypeOK'
  BY <1>9, <1>i DEF EnterPayload
<1>10. CASE LoadOfflineDirNotEmpty
  BY <1>10, <1>i DEF LoadOfflineDirNotEmpty, RemoveOutputs
<1>11. CASE CombineFails
  <2>1. round' \in Rounds
    BY <1>11, <1>i DEF CombineFails, OutputsReadable, NextRound, SignPassInv
  <2>2. /\ partialFile' \in [Rounds -> Partial \cup {None}]
        /\ ppdFile' \in [Rounds -> PresigSet \cup {None}]
    BY <1>11, <1>i DEF CombineFails, RemoveOutputs
  <2>3. QED
    BY <1>11, <2>1, <2>2, <1>i DEF CombineFails
<1>12. ASSUME NEW exported \in BOOLEAN, CombineSucceeds(exported)
       PROVE  TypeOK'
  <2>1. /\ payload \in Payloads /\ round < MaxRound
        /\ ppdFile[round] \in PresigSet
        /\ restarts \in 0 .. MaxRestarts
    BY <1>12, <1>i DEF CombineSucceeds, OutputsReadable, SignPassInv
  <2>2. [session |-> restarts, round |-> round, set |-> ppdFile[round],
         payload |-> payload] \in Published
    BY <2>1, <1>i DEF Published
  <2>3. remaining - 1 \in Nat
    <3>1. pc = "offline_wait" /\ 1 \in Online
      BY <1>12 DEF CombineSucceeds, OutputsReadable
    <3>2. Len(presigPool[1]) + 1 = remaining /\ Len(presigPool[1]) \in Nat
      BY <3>1, <1>i DEF PoolsInLockstep
    <3>3. QED
      BY <3>2
  <2>4. published' \subseteq Published
    BY <1>12, <2>2, <1>i DEF CombineSucceeds
  <2>5. /\ partialFile' \in [Rounds -> Partial \cup {None}]
        /\ ppdFile' \in [Rounds -> PresigSet \cup {None}]
        /\ round' \in Rounds
    BY <1>12, <2>1, <1>i DEF CombineSucceeds, RemoveOutputs, NextRound
  <2>6. QED
    BY <1>12, <2>3, <2>4, <2>5, <1>i DEF CombineSucceeds
<1>13. CASE Restart
  <2>1. NoReply \in Replies
    BY DEF NoReply, Replies
  <2>2. QED
    BY <1>13, <2>1, <1>i DEF Restart
<1>14. ASSUME NEW b \in Batches, NEW i \in Online, SupplyPool(b, i)
       PROVE  TypeOK'
  <2>1. <<b, i>> \in Batches \X Online
    OBVIOUS
  <2>2. supplied' \subseteq Batches \X Online
    BY <1>14, <1>i, <2>1 DEF SupplyPool
  <2>3. poolFile' \in [Online -> Batches \cup {None}]
    BY <1>14, <1>i DEF SupplyPool
  <2>4. QED
    BY <1>14, <1>i, <2>2, <2>3 DEF SupplyPool
<1>15. ASSUME NEW i \in Parties, ToggleStray(i) PROVE TypeOK'
  BY <1>15, <1>i DEF ToggleStray
<1>16. ASSUME NEW r \in Rounds, NEW s \in PresigSet, NEW p \in Payloads,
              DeliverPartial(r, s, p)
       PROVE  TypeOK'
  <2>1. [set |-> s, payload |-> p] \in Partial
    BY DEF Partial
  <2>2. QED
    BY <1>16, <2>1, <1>i DEF DeliverPartial
<1>17. ASSUME NEW r \in Rounds, NEW s \in PresigSet, DeliverPpd(r, s)
       PROVE  TypeOK'
  BY <1>17, <1>i DEF DeliverPpd
<1>18. CASE UNCHANGED vars
  BY <1>18, <1>i DEF vars
<1>19. QED
  BY <1>1, <1>2, <1>3, <1>4, <1>5, <1>6, <1>7, <1>8, <1>9, <1>10, <1>11, <1>12,
     <1>13, <1>14, <1>15, <1>16, <1>17, <1>18
     DEF Next, Coordinator, Terminal, Environment
-----------------------------------------------------------------------------
(* Steps preserve the rest of the invariant *)

Rest == /\ RequestReply /\ InitPassInv /\ SignPassInv
        /\ PoolsInLockstep /\ SignPassAllOrNothing

\* The steps of the operator, of the offline node and of a failed load change
\* files only.
LEMMA StepKinds ==
  ASSUME [Next]_vars
  PROVE  \/ UNCHANGED program
         \/ SendInit \/ RecvInit \/ RetryInit \/ SendSign \/ RecvSign
         \/ \E i \in Online : Node(i)
         \/ PressEnterReload \/ EnterBadPayload
         \/ \E p \in Payloads : EnterPayload(p)
         \/ CombineFails
         \/ \E exported \in BOOLEAN : CombineSucceeds(exported)
         \/ Restart
<1>1. CASE Environment
  BY <1>1 DEF Environment, SupplyPool, ToggleStray, DeliverPartial, DeliverPpd
<1>2. CASE LoadOfflineDirNotEmpty
  BY <1>2 DEF LoadOfflineDirNotEmpty
<1>3. CASE UNCHANGED vars
  BY <1>3 DEF vars
<1>4. QED
  BY <1>1, <1>2, <1>3 DEF Next, Coordinator, Terminal

\* A node task works only on the command the coordinator awaits.
LEMMA NodeAtCursor ==
  ASSUME IInv, NEW i \in Online, Node(i)
  PROVE  /\ i = cursor
         /\ reply = NoReply
         /\ pc \in {"init_wait", "sign_wait"}
         /\ pc = "init_wait" => mailbox[i] = <<InitCommand>>
         /\ pc = "sign_wait" => mailbox[i] = <<SignCommand(payload)>>
         /\ mailbox' = [mailbox EXCEPT ![i] = <<>>]
         /\ \A j \in Online : mailbox'[j] = <<>>
<1>1. /\ mailbox[i] # <<>>
      /\ mailbox' = [mailbox EXCEPT ![i] = Tail(@)]
  BY DEF Node, NodeInitMissing, NodeInitDirNotEmpty, NodeInitLoads,
         NodeSignRefuses, NodeSigns, TakesCommand
<1>2. mailbox \in [Online -> Seq(Commands)] /\ cursor \in Online /\ RequestReply
  BY DEF IInv, TypeOK
<1>3. pc \in {"init_wait", "sign_wait"}
  BY <1>1, <1>2 DEF RequestReply, Idle
<1>4. i = cursor /\ reply = NoReply
  BY <1>1, <1>2, <1>3 DEF RequestReply, InFlight
<1>5. /\ pc = "init_wait" => mailbox[i] = <<InitCommand>>
      /\ pc = "sign_wait" => mailbox[i] = <<SignCommand(payload)>>
  BY <1>1, <1>2, <1>3, <1>4 DEF RequestReply, InFlight
<1>6. Tail(mailbox[i]) = <<>>
  <2>1. \A c : Tail(<<c>>) = <<>>
    OBVIOUS
  <2>2. QED
    BY <1>3, <1>5, <2>1
<1>7. \A j \in Online : j # cursor => mailbox[j] = <<>>
  BY <1>2, <1>3 DEF RequestReply, InFlight
<1>8. mailbox' = [mailbox EXCEPT ![i] = <<>>]
  BY <1>1, <1>6
<1>9. QED
  BY <1>2, <1>3, <1>4, <1>5, <1>7, <1>8
LEMMA NodeKeepsRest ==
  ASSUME IInv, NEW i \in Online, Node(i)
  PROVE  Rest'
<1> USE DEF mainVars, initVars, signVars, passVars, nodeVars, fileVars, history,
            SignPcs
<1>i. TypeOK /\ RequestReply /\ InitPassInv /\ SignPassInv /\ PoolsInLockstep
        /\ SignPassAllOrNothing
  BY DEF IInv
<1>m. /\ i = cursor /\ reply = NoReply
      /\ pc = "init_wait" => mailbox[i] = <<InitCommand>>
      /\ pc = "sign_wait" => mailbox[i] = <<SignCommand(payload)>>
      /\ pc \in {"init_wait", "sign_wait"}
      /\ \A j \in Online : mailbox'[j] = <<>>
  BY NodeAtCursor
<1>c. /\ InitCommand.cmd = "Init" /\ SignCommand(payload).cmd = "Sign"
      /\ \A c : Head(<<c>>) = c
  BY DEF InitCommand, SignCommand
<1>r. /\ NoReply # ErrReply
      /\ \A size : SizeReply(size) # NoReply /\ SizeReply(size) # ErrReply
                   /\ SizeReply(size).size = size
      /\ \A sig : SignReply(sig) # NoReply /\ SignReply(sig) # ErrReply
  BY DEF NoReply, ErrReply, SizeReply, SignReply
<1>1. CASE NodeInitMissing(i) \/ NodeInitDirNotEmpty(i)
  <2>1. /\ pc = "init_wait" /\ reply' = ErrReply
        /\ UNCHANGED <<pc, mainVars, cursor, passVars, nodeVars>>
    BY <1>1, <1>m, <1>c DEF NodeInitMissing, NodeInitDirNotEmpty, TakesCommand,
                            Answer
  <2>2. RequestReply'
    BY <2>1, <1>m, <1>i DEF RequestReply, InFlight, TypeOK
  <2>3. QED
    BY <2>1, <2>2, <1>i DEF Rest, InitPassInv, Loaded, SignPassInv,
                            PoolsInLockstep, SignPassAllOrNothing
<1>2. CASE NodeInitLoads(i)
  <2> DEFINE b == poolFile[i]
  <2>1. /\ pc = "init_wait" /\ reply' = SizeReply(PoolSize[b]) /\ b # None
        /\ presigPool' = [presigPool EXCEPT ![i] = PoolOf(b)]
        /\ initialized' = initialized \cup {i}
        /\ UNCHANGED <<pc, mainVars, cursor, passVars>>
    BY <1>2, <1>m, <1>c DEF NodeInitLoads, TakesCommand, Answer
  <2>2. b \in Batches
    BY <2>1, <1>i DEF TypeOK
  <2>3. PoolSize[b] \in Nat /\ Len(PoolOf(b)) = PoolSize[b]
    BY <2>2, PoolOfType
  <2>4. RequestReply'
    <3>1. reply' \in [tag : {"size"}, size : Nat]
      BY <2>1, <2>3 DEF SizeReply
    <3>2. QED
      BY <2>1, <3>1, <1>m, <1>i DEF RequestReply, InFlight, TypeOK
  <2>5. InitPassInv'
    <3>1. cursor \in initialized' /\ Len(presigPool'[cursor]) = PoolSize[b]
      BY <2>1, <2>3, <1>m, <1>i DEF Loaded, TypeOK
    <3>2. \A k \in 1 .. cursor - 1 :
            Loaded(k, poolSizes[k]) => Loaded(k, poolSizes[k])'
      BY <2>1, <1>m, <1>i DEF Loaded, TypeOK
    <3>3. QED
      BY <2>1, <3>1, <3>2, <1>i, <1>r DEF InitPassInv, Loaded
  <2>6. QED
    BY <2>1, <2>4, <2>5, <1>i DEF Rest, SignPassInv, PoolsInLockstep,
                                  SignPassAllOrNothing
<1>3. CASE NodeSignRefuses(i)
  <2>1. /\ pc = "sign_wait" /\ reply' = ErrReply
        /\ i \notin initialized \/ presigPool[i] = <<>>
        /\ UNCHANGED <<pc, mainVars, cursor, passVars, nodeVars>>
    BY <1>3, <1>m, <1>c DEF NodeSignRefuses, TakesCommand, Answer, IsEmpty
  <2>2. RequestReply'
    BY <2>1, <1>m, <1>i DEF RequestReply, InFlight, TypeOK
  <2>3. remaining = 0
    <3>1. i \in initialized /\ Len(presigPool[i]) = 0
      BY <2>1, <1>i DEF SignPassInv
    <3>2. ~Visited(i)
      BY <1>m, <1>i DEF Visited, TypeOK
    <3>3. QED
      BY <2>1, <3>1, <3>2, <1>i DEF SignPassInv
  <2>4. SignPassInv'
    BY <2>1, <2>3, <1>i DEF SignPassInv
  <2>5. QED
    BY <2>1, <2>2, <2>4, <1>i DEF Rest, InitPassInv, PoolsInLockstep,
                                  SignPassAllOrNothing
<1>4. CASE NodeSigns(i)
  <2> DEFINE sig == IssuePartialSignature(NextItem(presigPool[i]),
                                          Head(mailbox[i]).payload)
  <2>1. /\ pc = "sign_wait" /\ reply' = SignReply(sig)
        /\ presigPool[i] # <<>>
        /\ presigPool' = [presigPool EXCEPT ![i] = AfterPop(@)]
        /\ UNCHANGED <<pc, mainVars, cursor, passVars, initialized>>
    BY <1>4, <1>m, <1>c DEF NodeSigns, TakesCommand, Answer, IsEmpty
  <2>2. presigPool[i] \in Seq(PresigSet)
    BY <1>i DEF TypeOK
  <2>3. Len(AfterPop(presigPool[i])) = Len(presigPool[i]) - 1
    BY <2>1, <2>2, AfterPopType
  <2>4. remaining # 0
    <3>1. Len(presigPool[i]) # 0
      BY <2>1, <2>2
    <3>2. QED
      BY <2>1, <3>1, <1>i DEF SignPassInv
  <2>5. RequestReply'
    <3>1. sig \in Partial
      <4>1. NextItem(presigPool[i]) \in PresigSet
        BY <2>1, <2>2, AfterPopType
      <4>2. Head(mailbox[i]).payload = payload
        BY <2>1, <1>m, <1>c DEF SignCommand
      <4>3. payload \in Payloads
        BY <2>1, <1>i DEF SignPassInv
      <4>4. QED
        BY <4>1, <4>2, <4>3 DEF IssuePartialSignature, Partial
    <3>2. reply' \in [tag : {"partial"}, sig : Partial]
      BY <2>1, <3>1 DEF SignReply
    <3>3. QED
      BY <2>1, <3>2, <1>m, <1>i DEF RequestReply, InFlight, TypeOK
  <2>6. SignPassInv'
    <3>1. /\ reply' # NoReply /\ reply' # ErrReply
      BY <2>1, <1>r
    <3>2. /\ ~Visited(i) /\ Visited(i)'
          /\ \A j \in Online : j # i => (Visited(j)' <=> Visited(j))
      BY <2>1, <3>1, <1>m, <1>i DEF Visited, TypeOK
    <3>3. \A j \in Online : Len(presigPool[j]) = IF Visited(j)
                                 THEN remaining - 1 ELSE remaining
      BY <2>1, <2>4, <1>i DEF SignPassInv
    <3>4. presigPool'[i] = AfterPop(presigPool[i])
            /\ \A j \in Online : j # i => presigPool'[j] = presigPool[j]
      BY <2>1, <1>i DEF TypeOK
    <3>5. \A j \in Online : Len(presigPool'[j]) = IF Visited(j)'
                                 THEN remaining - 1 ELSE remaining
      BY <2>3, <3>2, <3>3, <3>4
    <3>6. QED
      BY <2>1, <2>4, <3>1, <3>5, <1>i DEF SignPassInv
  <2>7. QED
    BY <2>1, <2>5, <2>6, <1>i DEF Rest, InitPassInv, PoolsInLockstep,
                                  SignPassAllOrNothing
<1>5. QED
  BY <1>1, <1>2, <1>3, <1>4 DEF Node

LEMMA RestStep == IInv /\ [Next]_vars => Rest'
<1> SUFFICES ASSUME IInv, [Next]_vars PROVE Rest'
  OBVIOUS
<1> USE CoordAssumption DEF SignPcs, LoopTop, mainVars, initVars, signVars,
        passVars, nodeVars, fileVars, history
<1>i. TypeOK /\ RequestReply /\ InitPassInv /\ SignPassInv /\ PoolsInLockstep
        /\ SignPassAllOrNothing
  BY DEF IInv
<1>t. TypeOK'
  BY TypeStep
<1>0. CASE UNCHANGED program
  BY <1>0, <1>i DEF program, Rest, RequestReply, Idle, InFlight, InitPassInv,
     Loaded, SignPassInv, Visited, PoolsInLockstep, SignPassAllOrNothing
<1>1. CASE SendInit
  <2> USE <1>1 DEF SendInit
  <2>1. RequestReply'
    <3>1. Idle
      BY <1>i DEF RequestReply
    <3>2. mailbox'[cursor] = <<InitCommand>>
      <4>1. mailbox'[cursor] = Append(<<>>, InitCommand)
        BY <3>1, <1>i DEF Idle, TypeOK
      <4>2. \A c : Append(<<>>, c) = <<c>>
        OBVIOUS
      <4>3. QED
        BY <4>1, <4>2
    <3>3. QED
      BY <3>1, <3>2, <1>i DEF RequestReply, Idle, InFlight, TypeOK
  <2>2. InitPassInv'
    BY <1>i DEF InitPassInv, Loaded, RequestReply, Idle
  <2>3. SignPassInv' /\ PoolsInLockstep' /\ SignPassAllOrNothing'
    BY <1>i DEF SignPassInv, PoolsInLockstep, SignPassAllOrNothing
  <2>4. QED
    BY <2>1, <2>2, <2>3 DEF Rest
<1>2. CASE RecvInit
  <2> USE <1>2 DEF RecvInit
  <2>1. Idle'
    BY <1>i DEF CommandHandled, RequestReply, InFlight, Idle, TypeOK, NoReply
  <2>2. pc' \in {"init_send", "retry_sleep", "reload_prompt", "payload_prompt"}
    BY DEF InitPassEnds
  <2>3. RequestReply'
    BY <2>1, <2>2 DEF RequestReply
  <2>4. failedNodes' = {} => /\ failedNodes = {}
                            /\ reply # ErrReply
                            /\ poolSizes' = Append(poolSizes, reply.size)
    BY <1>i, ReplyKinds
  <2>5. ASSUME failedNodes' = {}
        PROVE  /\ Len(poolSizes') = cursor
               /\ \A k \in 1 .. cursor : Loaded(k, poolSizes'[k])
    <3>1. /\ Len(poolSizes) = cursor - 1
          /\ \A k \in 1 .. cursor - 1 : Loaded(k, poolSizes[k])
          /\ Loaded(cursor, reply.size)
      BY <2>4, <2>5, <1>i, ReplyKinds DEF InitPassInv
    <3>2. poolSizes \in Seq(Nat) /\ cursor \in Online
      BY <1>i DEF TypeOK
    <3>3. QED
      BY <2>4, <2>5, <3>1, <3>2
  <2>6. InitPassInv'
    <3>1. CASE pc' = "init_send"
      <4>1. cursor' = cursor + 1
        BY <3>1 DEF InitPassEnds
      <4>2. QED
        BY <2>5, <3>1, <4>1, <1>i DEF InitPassInv, Loaded, TypeOK
    <3>2. CASE pc' # "init_send"
      BY <2>2, <3>2 DEF InitPassInv
    <3>3. QED
      BY <3>1, <3>2
  <2>7. PoolsInLockstep'
    <3>1. CASE pc' = "payload_prompt"
      <4>1. cursor = N - 1 /\ InitPassEnds(poolSizes', failedNodes')
        BY <3>1, <1>i DEF TypeOK
      <4>2. ~PassRejected(poolSizes', failedNodes')
        BY <4>1, <3>1 DEF InitPassEnds
      <4>3. /\ failedNodes' = {}
            /\ \A k \in DOMAIN poolSizes' : poolSizes'[k] = poolSizes'[1]
            /\ remaining' = poolSizes'[1]
        BY <4>1, <4>2 DEF InitPassEnds, PassRejected
      <4>4. DOMAIN poolSizes' = Online
        BY <2>5, <4>1, <4>3, <1>t DEF TypeOK
      <4>5. \A k \in Online : Loaded(k, remaining')
        BY <2>5, <4>1, <4>3, <4>4
      <4>6. QED
        BY <3>1, <4>5 DEF PoolsInLockstep, Loaded
    <3>2. CASE pc' # "payload_prompt"
      BY <2>2, <3>2 DEF PoolsInLockstep
    <3>3. QED
      BY <3>1, <3>2
  <2>8. SignPassInv' /\ SignPassAllOrNothing'
    BY <2>2, <1>i DEF SignPassInv, SignPassAllOrNothing
  <2>9. QED
    BY <2>3, <2>6, <2>7, <2>8 DEF Rest
<1>3. CASE RetryInit \/ PressEnterReload
  <2> USE <1>3 DEF RetryInit, PressEnterReload, StartInitPass
  <2>1. RequestReply'
    BY <1>i DEF RequestReply, Idle
  <2>2. InitPassInv'
    BY DEF InitPassInv
  <2>3. SignPassInv' /\ PoolsInLockstep' /\ SignPassAllOrNothing'
    BY <1>i DEF SignPassInv, PoolsInLockstep, SignPassAllOrNothing
  <2>4. QED
    BY <2>1, <2>2, <2>3 DEF Rest
<1>4. CASE EnterBadPayload
  <2> USE <1>4 DEF EnterBadPayload
  <2>1. RequestReply' /\ InitPassInv'
    BY <1>i DEF RequestReply, Idle, InitPassInv
  <2>2. SignPassInv' /\ PoolsInLockstep' /\ SignPassAllOrNothing'
    BY <1>i DEF SignPassInv, PoolsInLockstep, SignPassAllOrNothing
  <2>3. QED
    BY <2>1, <2>2 DEF Rest
<1>5. ASSUME NEW p \in Payloads, EnterPayload(p) PROVE Rest'
  <2> USE <1>5 DEF EnterPayload
  <2>1. RequestReply' /\ InitPassInv'
    BY <1>i DEF RequestReply, Idle, InitPassInv
  <2>2. \A i \in Online : i \in initialized /\ Len(presigPool[i]) = remaining
    BY <1>i DEF PoolsInLockstep
  <2>3. SignPassInv'
    <3>1. reply = NoReply /\ NoReply # ErrReply
      BY <1>i DEF RequestReply, Idle, NoReply, ErrReply
    <3>2. \A i \in Online : ~Visited(i)'
      BY DEF Visited
    <3>3. QED
      BY <2>2, <3>1, <3>2 DEF SignPassInv
  <2>4. PoolsInLockstep' /\ SignPassAllOrNothing'
    BY DEF PoolsInLockstep, SignPassAllOrNothing
  <2>5. QED
    BY <2>1, <2>3, <2>4 DEF Rest
<1>6. CASE SendSign
  <2> USE <1>6 DEF SendSign
  <2>1. RequestReply'
    <3>1. Idle
      BY <1>i DEF RequestReply
    <3>2. mailbox'[cursor] = <<SignCommand(payload)>>
      <4>1. mailbox'[cursor] = Append(<<>>, SignCommand(payload))
        BY <3>1, <1>i DEF Idle, TypeOK
      <4>2. \A c : Append(<<>>, c) = <<c>>
        OBVIOUS
      <4>3. QED
        BY <4>1, <4>2
    <3>3. QED
      BY <3>1, <3>2, <1>i DEF RequestReply, Idle, InFlight, TypeOK
  <2>2. SignPassInv'
    <3>1. reply = NoReply
      BY <1>i DEF RequestReply, Idle
    <3>2. \A i \in Online : Visited(i)' = Visited(i)
      BY <3>1 DEF Visited
    <3>3. QED
      BY <3>1, <3>2, <1>i DEF SignPassInv
  <2>3. InitPassInv' /\ PoolsInLockstep' /\ SignPassAllOrNothing'
    BY <1>i DEF InitPassInv, PoolsInLockstep, SignPassAllOrNothing
  <2>4. QED
    BY <2>1, <2>2, <2>3 DEF Rest
<1>7. CASE RecvSign
  <2> USE <1>7 DEF RecvSign
  <2>1. Idle'
    BY <1>i DEF CommandHandled, RequestReply, InFlight, Idle, TypeOK, NoReply
  <2>2. pc' \in {"sign_send", "offline_wait", "reload_prompt"}
    BY DEF SignPassEnds
  <2>3. RequestReply' /\ InitPassInv'
    BY <2>1, <2>2 DEF RequestReply, InitPassInv
  <2>4. /\ payload \in Payloads /\ round < MaxRound
        /\ \A i \in Online : i \in initialized
        /\ Visited(cursor)
    BY <1>i, ReplyKinds DEF SignPassInv, Visited
  <2>5. CASE remaining = 0
    <3>1. /\ \A i \in Online : Len(presigPool[i]) = 0
          /\ partials = <<>> /\ reply = ErrReply
      BY <2>5, <1>i, ReplyKinds DEF SignPassInv
    <3>2. signErrors' # {} /\ partials' = <<>>
      BY <3>1, <1>i, ReplyKinds
    <3>3. remaining' = 0 /\ pc' # "offline_wait"
      BY <2>5, <3>2 DEF SignPassEnds
    <3>4. SignPassInv'
      BY <2>1, <2>2, <2>4, <3>1, <3>2, <3>3 DEF SignPassInv, Idle
    <3>5. QED
      BY <2>2, <2>3, <3>2, <3>3, <3>4 DEF Rest, PoolsInLockstep,
                                         SignPassAllOrNothing
  <2>6. CASE remaining # 0
    <3>1. /\ signErrors' = {}
          /\ \A i \in Online : Len(presigPool[i]) = IF Visited(i)
                                   THEN remaining - 1 ELSE remaining
      BY <2>6, <1>i, ReplyKinds DEF SignPassInv
    <3>2. remaining' = remaining
      BY <3>1 DEF SignPassEnds
    <3>3. CASE pc' = "sign_send"
      <4>1. cursor' = cursor + 1
        BY <3>1, <3>3 DEF SignPassEnds
      <4>2. \A i \in Online : Visited(i)' <=> Visited(i)
        BY <3>3, <4>1, <1>i, ReplyKinds DEF Visited, TypeOK
      <4>3. SignPassInv'
        BY <2>1, <2>4, <2>6, <3>1, <3>2, <3>3, <4>2
           DEF SignPassInv, Idle, NoReply, ErrReply
      <4>4. QED
        BY <2>3, <3>1, <3>3, <4>3 DEF Rest, PoolsInLockstep,
                                     SignPassAllOrNothing
    <3>4. CASE pc' # "sign_send"
      <4>1. cursor = N - 1 /\ pc' = "offline_wait"
        BY <3>1, <3>4, <1>i DEF SignPassEnds, TypeOK
      <4>2. \A i \in Online : Visited(i)
        BY <2>4, <4>1 DEF Visited
      <4>3. \A i \in Online : Len(presigPool[i]) + 1 = remaining
        BY <3>1, <4>2, <1>i DEF TypeOK
      <4>4. QED
        BY <2>3, <2>4, <3>1, <3>2, <4>1, <4>3
           DEF Rest, SignPassInv, PoolsInLockstep, SignPassAllOrNothing
    <3>5. QED
      BY <3>3, <3>4
  <2>7. QED
    BY <2>5, <2>6
<1>8. ASSUME NEW i \in Online, Node(i) PROVE Rest'
  BY <1>8, NodeKeepsRest
<1>9. CASE CombineFails \/ \E exported \in BOOLEAN : CombineSucceeds(exported)
  <2>1. /\ pc = "offline_wait" /\ pc' \in {"reload_prompt", "payload_prompt"}
        /\ UNCHANGED <<reply, mailbox, partials, signErrors, nodeVars>>
        /\ pc' = "payload_prompt" => remaining' = remaining - 1
    BY <1>9 DEF CombineFails, CombineSucceeds, OutputsReadable
  <2>2. RequestReply' /\ InitPassInv' /\ SignPassInv' /\ SignPassAllOrNothing'
    BY <2>1, <1>i DEF RequestReply, Idle, InitPassInv, SignPassInv,
                      SignPassAllOrNothing
  <2>3. \A i \in Online :
          /\ i \in initialized
          /\ Len(presigPool[i]) \in Nat /\ Len(presigPool[i]) + 1 = remaining
    BY <2>1, <1>i DEF PoolsInLockstep, SignPassInv, TypeOK
  <2>4. \A i \in Online : Len(presigPool[i]) = remaining - 1
    BY <2>3
  <2>5. PoolsInLockstep'
    BY <2>1, <2>3, <2>4 DEF PoolsInLockstep
  <2>6. QED
    BY <2>2, <2>5 DEF Rest
<1>10. CASE Restart
  <2> USE <1>10 DEF Restart
  <2>1. RequestReply' /\ InitPassInv'
    BY DEF RequestReply, Idle, InitPassInv
  <2>2. SignPassInv' /\ PoolsInLockstep' /\ SignPassAllOrNothing'
    BY DEF SignPassInv, PoolsInLockstep, SignPassAllOrNothing
  <2>3. QED
    BY <2>1, <2>2 DEF Rest
<1>11. QED
  BY <1>0, <1>1, <1>2, <1>3, <1>4, <1>5, <1>6, <1>7, <1>8, <1>9, <1>10, StepKinds
-----------------------------------------------------------------------------
(* The invariant holds *)

THEOREM IInvHolds == Spec => []IInv
<1>1. IInv /\ [Next]_vars => IInv'
  BY TypeStep, RestStep DEF IInv, Rest
<1>2. QED
  BY InitIInv, <1>1, PTL DEF Spec

\* Every variable keeps its type.  In particular remaining_presigs, a usize, is
\* never decremented at zero (line 415), and every size the coordinator compares
\* or returns was reported by a node.
THEOREM TypeCorrect == Spec => []TypeOK
<1>1. IInv => TypeOK
  BY DEF IInv
<1>2. QED
  BY IInvHolds, <1>1, PTL

\* The coordinator's count and the pools of all online nodes stay equal, for any
\* number of nodes, batches and restarts.
THEOREM Lockstep == Spec => []PoolsInLockstep
<1>1. IInv => PoolsInLockstep
  BY DEF IInv
<1>2. QED
  BY IInvHolds, <1>1, PTL

\* A signing pass that is thrown away has cost no node a presignature.
THEOREM AllOrNothing == Spec => []SignPassAllOrNothing
<1>1. IInv => SignPassAllOrNothing
  BY DEF IInv
<1>2. QED
  BY IInvHolds, <1>1, PTL

-----------------------------------------------------------------------------
(* No presignature is used twice.  A batch passes from the operator to the     *)
(* pool file and from there to the pool in memory; what a node has signed with *)
(* lies behind all of them.                                                    *)

\* The pool of a node comes from one batch, in increasing order.
PoolOrdered(i) ==
  \A j, k \in DOMAIN presigPool[i] :
    /\ presigPool[i][j].batch = presigPool[i][k].batch
    /\ j < k => presigPool[i][j].index < presigPool[i][k].index

BatchLeftDisk(b, i) == <<b, i>> \in supplied /\ b # poolFile[i]

FreshAt(i) ==
  /\ poolFile[i] # None => <<poolFile[i], i>> \in supplied
  /\ PoolOrdered(i)
  /\ \A k \in DOMAIN presigPool[i] : BatchLeftDisk(presigPool[i][k].batch, i)
  /\ \A sig \in issued[i] :
       /\ BatchLeftDisk(sig.set.batch, i)
       /\ \A k \in DOMAIN presigPool[i] :
            sig.set.batch = presigPool[i][k].batch
              => sig.set.index < presigPool[i][k].index

FreshInv == \A i \in Online : FreshAt(i)

LEMMA FreshImplies == TypeOK /\ FreshInv => NeverSignedAgain
<1> SUFFICES ASSUME TypeOK, FreshInv, NEW i \in Online
             PROVE  /\ \A j, k \in DOMAIN presigPool[i] :
                         presigPool[i][j] = presigPool[i][k] => j = k
                    /\ \A sig \in issued[i] :
                         /\ \A k \in DOMAIN presigPool[i] :
                              presigPool[i][k] # sig.set
                         /\ poolFile[i] # sig.set.batch
  BY DEF NeverSignedAgain
<1>1. FreshAt(i) /\ presigPool[i] \in Seq(PresigSet)
  BY DEF FreshInv, TypeOK
<1>2. \A k \in DOMAIN presigPool[i] :
        k \in Nat /\ presigPool[i][k].index \in Nat
  BY <1>1, PresigFields
<1>3. \A j, k \in DOMAIN presigPool[i] :
        presigPool[i][j] = presigPool[i][k] => j = k
  BY <1>1, <1>2 DEF FreshAt, PoolOrdered
<1>4. ASSUME NEW sig \in issued[i], NEW k \in DOMAIN presigPool[i],
             presigPool[i][k] = sig.set
      PROVE  FALSE
  <2>1. sig.set.index < presigPool[i][k].index
    BY <1>1, <1>4 DEF FreshAt
  <2>2. presigPool[i][k].index \in Nat
    BY <1>2
  <2>3. QED
    BY <1>4, <2>1, <2>2
<1>5. \A sig \in issued[i] : poolFile[i] # sig.set.batch
  BY <1>1 DEF FreshAt, BatchLeftDisk
<1>6. QED
  BY <1>3, <1>4, <1>5

LEMMA FreshStep == IInv /\ FreshInv /\ [Next]_vars => FreshInv'
<1> SUFFICES ASSUME IInv, FreshInv, [Next]_vars, NEW i \in Online
             PROVE  FreshAt(i)'
  BY DEF FreshInv
<1> USE CoordAssumption DEF nodeVars, fileVars, history, program
<1>i. TypeOK /\ FreshAt(i)
  BY DEF IInv, FreshInv
<1>p. presigPool[i] \in Seq(PresigSet)
  BY <1>i DEF TypeOK
<1>b. /\ \A k \in DOMAIN presigPool[i] : presigPool[i][k].batch \in Batches
      /\ \A sig \in issued[i] : sig.set.batch \in Batches
  <2>1. i \in Parties /\ issued[i] \subseteq Partial
    BY <1>i DEF TypeOK
  <2>2. \A sig \in issued[i] : sig.set \in PresigSet
    BY <2>1 DEF Partial
  <2>3. \A k \in DOMAIN presigPool[i] : presigPool[i][k] \in PresigSet
    BY <1>p
  <2>4. QED
    BY <2>2, <2>3, PresigFields
\* Steps that change neither the node's pool nor its file nor its history.
<1>q. ASSUME presigPool'[i] = presigPool[i], poolFile'[i] = poolFile[i],
             issued'[i] = issued[i], supplied \subseteq supplied'
      PROVE  FreshAt(i)'
  BY <1>q, <1>i DEF FreshAt, PoolOrdered, BatchLeftDisk
<1>1. CASE NodeInitLoads(i)
  <2> DEFINE b == poolFile[i]
  <2>1. /\ b # None /\ presigPool'[i] = PoolOf(b) /\ poolFile'[i] = None
        /\ UNCHANGED <<supplied, issued>>
    BY <1>1, <1>i DEF NodeInitLoads, RemovePoolFile, TypeOK
  <2>2. b \in Batches /\ <<b, i>> \in supplied
    BY <2>1, <1>i DEF FreshAt, TypeOK
  <2>3. \A k \in DOMAIN PoolOf(b) :
          PoolOf(b)[k].batch = b /\ PoolOf(b)[k].index = k
    BY <2>2, PoolOfType
  <2>4. \A sig \in issued[i] : sig.set.batch # b /\ sig.set.batch \in Batches
    BY <1>i, <1>b DEF FreshAt, BatchLeftDisk
  <2>5. PoolOrdered(i)'
    BY <2>1, <2>3 DEF PoolOrdered
  <2>6. QED
    BY <2>1, <2>2, <2>3, <2>4, <2>5, <1>i, BatchAssumption
       DEF FreshAt, BatchLeftDisk
<1>2. CASE NodeInitDirNotEmpty(i)
  <2>1. /\ poolFile'[i] = None
        /\ UNCHANGED <<presigPool, supplied, issued>>
    BY <1>2, <1>i DEF NodeInitDirNotEmpty, RemovePoolFile, TypeOK
  <2>2. QED
    BY <2>1, <1>b, <1>i, BatchAssumption DEF FreshAt, PoolOrdered, BatchLeftDisk
<1>3. CASE NodeSigns(i)
  <2> DEFINE q == presigPool[i]
             sig == IssuePartialSignature(NextItem(q), Head(mailbox[i]).payload)
  <2>1. /\ q # <<>> /\ presigPool'[i] = AfterPop(q)
        /\ issued'[i] = issued[i] \cup {sig}
        /\ UNCHANGED <<poolFile, supplied>>
    BY <1>3, <1>i DEF NodeSigns, IsEmpty, TypeOK
  <2>2. /\ \A k \in DOMAIN AfterPop(q) :
             AfterPop(q)[k] = q[k + 1] /\ k + 1 \in DOMAIN q /\ k \in Nat \ {0}
        /\ sig.set = q[1] /\ 1 \in DOMAIN q
    BY <2>1, <1>p, AfterPopType DEF IssuePartialSignature
  <2>3. PoolOrdered(i)'
    BY <2>1, <2>2, <1>i DEF FreshAt, PoolOrdered
  <2>4. ASSUME NEW k \in DOMAIN q
        PROVE  BatchLeftDisk(q[k].batch, i)
    BY <1>i DEF FreshAt
  <2>5. ASSUME NEW c, BatchLeftDisk(c, i)
        PROVE  <<c, i>> \in supplied' /\ c # poolFile'[i]
    BY <2>1, <2>5 DEF BatchLeftDisk
  <2>6. \A k \in DOMAIN presigPool'[i] :
          /\ <<presigPool'[i][k].batch, i>> \in supplied'
          /\ presigPool'[i][k].batch # poolFile'[i]
    BY <2>1, <2>2, <2>4, <2>5
  <2>7. ASSUME NEW x \in issued'[i]
        PROVE  /\ <<x.set.batch, i>> \in supplied'
               /\ x.set.batch # poolFile'[i]
               /\ \A k \in DOMAIN presigPool'[i] :
                    x.set.batch = presigPool'[i][k].batch
                      => x.set.index < presigPool'[i][k].index
    <3>1. CASE x \in issued[i]
      BY <3>1, <2>1, <2>2, <2>5, <1>i DEF FreshAt
    <3>2. CASE x \notin issued[i]
      <4>1. x.set = q[1]
        BY <3>2, <2>1, <2>2
      <4>2. <<x.set.batch, i>> \in supplied' /\ x.set.batch # poolFile'[i]
        BY <4>1, <2>2, <2>4, <2>5
      <4>3. \A k \in DOMAIN AfterPop(q) : q[1].index < q[k + 1].index
        BY <2>2, <1>i DEF FreshAt, PoolOrdered
      <4>4. QED
        BY <4>1, <4>2, <4>3, <2>1, <2>2
    <3>3. QED
      BY <3>1, <3>2
  <2>8. poolFile'[i] # None => <<poolFile'[i], i>> \in supplied'
    BY <2>1, <1>i DEF FreshAt
  <2>9. QED
    BY <2>3, <2>6, <2>7, <2>8 DEF FreshAt, BatchLeftDisk
<1>4. ASSUME NEW b \in Batches, NEW j \in Online, SupplyPool(b, j)
      PROVE  FreshAt(i)'
  <2>1. CASE j = i
    <3>1. /\ <<b, i>> \notin supplied /\ supplied' = supplied \cup {<<b, i>>}
          /\ poolFile'[i] = b
          /\ UNCHANGED <<presigPool, issued>>
      BY <1>4, <2>1, <1>i DEF SupplyPool, TypeOK
    <3>2. \A c : BatchLeftDisk(c, i) => <<c, i>> \in supplied' /\ c # b
      BY <3>1 DEF BatchLeftDisk
    <3>3. QED
      BY <3>1, <3>2, <1>i DEF FreshAt, PoolOrdered, BatchLeftDisk
  <2>2. CASE j # i
    <3>1. /\ poolFile'[i] = poolFile[i] /\ supplied \subseteq supplied'
          /\ UNCHANGED <<presigPool, issued>>
      BY <1>4, <2>2, <1>i DEF SupplyPool, TypeOK
    <3>2. QED
      BY <3>1, <1>q
  <2>3. QED
    BY <2>1, <2>2
<1>5. CASE Restart
  <2>1. presigPool'[i] = <<>> /\ UNCHANGED <<poolFile, supplied, issued>>
    BY <1>5 DEF Restart
  <2>2. DOMAIN presigPool'[i] = {}
    BY <2>1
  <2>3. QED
    BY <2>1, <2>2, <1>i DEF FreshAt, PoolOrdered, BatchLeftDisk
<1>6. ASSUME NEW j \in Online, Node(j),
             ~NodeInitLoads(i), ~NodeInitDirNotEmpty(i), ~NodeSigns(i)
      PROVE  FreshAt(i)'
  <2>1. \/ UNCHANGED <<presigPool, poolFile, issued>>
        \/ /\ j # i
           /\ NodeInitLoads(j) \/ NodeInitDirNotEmpty(j) \/ NodeSigns(j)
    BY <1>6 DEF Node, NodeInitMissing, NodeSignRefuses
  <2>2. UNCHANGED supplied
    BY <1>6 DEF Node, NodeInitMissing, NodeInitDirNotEmpty, NodeInitLoads,
                NodeSignRefuses, NodeSigns
  <2>3. /\ presigPool'[i] = presigPool[i] /\ poolFile'[i] = poolFile[i]
        /\ issued'[i] = issued[i]
    <3>1. CASE UNCHANGED <<presigPool, poolFile, issued>>
      BY <3>1
    <3>2. CASE j # i /\ NodeInitLoads(j)
      BY <3>2, <1>i DEF NodeInitLoads, RemovePoolFile, TypeOK
    <3>3. CASE j # i /\ NodeInitDirNotEmpty(j)
      BY <3>3, <1>i DEF NodeInitDirNotEmpty, RemovePoolFile, TypeOK
    <3>4. CASE j # i /\ NodeSigns(j)
      BY <3>4, <1>i DEF NodeSigns, TypeOK
    <3>5. QED
      BY <2>1, <3>1, <3>2, <3>3, <3>4
  <2>4. QED
    BY <2>2, <2>3, <1>q
<1>7. ASSUME NEW r \in Rounds, NEW s \in PresigSet, NEW p \in Payloads,
             DeliverPartial(r, s, p)
      PROVE  FreshAt(i)'
  <2>1. issued'[i] = issued[i]
    BY <1>7, <1>i DEF DeliverPartial, TypeOK
  <2>2. QED
    BY <1>7, <2>1, <1>q DEF DeliverPartial
<1>8. CASE \/ Coordinator \/ PressEnterReload \/ EnterBadPayload
           \/ \E p \in Payloads : EnterPayload(p)
           \/ LoadOfflineDirNotEmpty \/ CombineFails
           \/ \E exported \in BOOLEAN : CombineSucceeds(exported)
  <2>1. UNCHANGED <<presigPool, poolFile, supplied, issued>>
    BY <1>8 DEF Coordinator, SendInit, RecvInit, RetryInit, StartInitPass,
       SendSign, RecvSign, PressEnterReload, EnterBadPayload, EnterPayload,
       LoadOfflineDirNotEmpty, CombineFails, CombineSucceeds
  <2>2. QED
    BY <2>1, <1>q
<1>9. CASE \/ \E j \in Parties : ToggleStray(j) \/ \E r \in Rounds, s \in PresigSet : DeliverPpd(r, s)
           \/ UNCHANGED vars
  <2>1. UNCHANGED <<presigPool, poolFile, supplied, issued>>
    BY <1>9 DEF ToggleStray, DeliverPpd, vars
  <2>2. QED
    BY <2>1, <1>q
<1>10. QED
  BY <1>1, <1>2, <1>3, <1>4, <1>5, <1>6, <1>7, <1>8, <1>9
     DEF Next, Terminal, Environment

\* Single use: no online node ever signs twice with a presignature, and none it
\* has used is left in memory or on disk, whatever fails or crashes and however
\* the operator moves the pool files (each at most once).
THEOREM SingleUse == Spec => []NeverSignedAgain
<1>1. Init => FreshInv
  BY DEF Init, ProcessInit, FreshInv, FreshAt, PoolOrdered
<1>2. IInv /\ FreshInv /\ [Next]_vars => FreshInv'
  BY FreshStep
<1>3. IInv /\ FreshInv => NeverSignedAgain
  BY FreshImplies DEF IInv
<1>4. QED
  BY <1>1, <1>2, <1>3, IInvHolds, PTL DEF Spec

-----------------------------------------------------------------------------
(* The sets a signing pass uses.  All nodes load and pop in lockstep, so what  *)
(* remains of its batch behind a set tells when it is used.                    *)

Left(s) == PoolSize[s.batch] - s.index

SizeReplies    == [tag : {"size"}, size : Nat]
PartialReplies == [tag : {"partial"}, sig : Partial]

SameSetInv ==
  /\ \A i \in Online : \A k \in DOMAIN presigPool[i] :
       Left(presigPool[i][k]) = Len(presigPool[i]) - k
  /\ \A j, k \in DOMAIN partials : Left(partials[j].set) = Left(partials[k].set)
  /\ pc \in SignPcs =>
       /\ \A k \in DOMAIN partials : Left(partials[k].set) = remaining - 1
       /\ reply \in PartialReplies => Left(reply.sig.set) = remaining - 1

\* The nodes a pass without failures has visited hold complete batches.
Complete(i) == \E b \in Batches : presigPool[i] = PoolOf(b)

FullPoolInv ==
  /\ pc \in {"init_send", "init_wait"} /\ failedNodes = {} =>
       \A k \in 1 .. cursor - 1 : Complete(k)
  /\ pc = "init_wait" /\ reply \in SizeReplies => Complete(cursor)

\* The signatures of this session are those of its earlier rounds.
SessionInv ==
  /\ \A x \in published : x.session <= restarts
  /\ \A x \in published : x.session = restarts => x.round < round
  /\ SessionKeepsSignatures

\* What party i has signed, and no published signature has used.
Pending(sig, i) == sig \in issued[i] /\ \A x \in published : x.set # sig.set

DeliveredIssued ==
  \A r \in Rounds : partialFile[r] # None => partialFile[r] \in issued[0]

PublishedIssued ==
  \A x \in published, i \in Parties :
    [set |-> x.set, payload |-> x.payload] \in issued[i]

PassPending ==
  /\ pc \in SignPcs \cup {"offline_wait"} =>
       \A k \in DOMAIN partials : k \in Online /\ Pending(partials[k], k)
  /\ pc \in SignPcs /\ reply \in PartialReplies => Pending(reply.sig, cursor)
  /\ pc \in SignPcs /\ signErrors = {} => Len(partials) = cursor - 1
  /\ pc = "offline_wait" => Len(partials) = N - 1

PromiseInv == DeliveredIssued /\ PublishedIssued /\ PassPending

\* A node that signs: the pass can succeed, and the node was not visited before.
LEMMA SigningNode ==
  ASSUME IInv, NEW i \in Online, NodeSigns(i)
  PROVE  LET sig == [set |-> presigPool[i][1], payload |-> payload]
         IN  /\ pc = "sign_wait" /\ i = cursor /\ reply = NoReply /\ remaining # 0
             /\ presigPool[i] \in Seq(PresigSet) /\ presigPool[i] # <<>>
             /\ Len(presigPool[i]) = remaining /\ payload \in Payloads
             /\ sig \in Partial /\ reply' = SignReply(sig)
             /\ presigPool' = [presigPool EXCEPT ![i] = AfterPop(@)]
             /\ issued' = [issued EXCEPT ![i] = @ \cup {sig}]
             /\ UNCHANGED <<pc, mainVars, cursor, passVars, initialized, fileVars,
                            supplied, published, restarts>>
<1> DEFINE sig == [set |-> presigPool[i][1], payload |-> payload]
<1>1. /\ i = cursor /\ reply = NoReply /\ pc \in {"init_wait", "sign_wait"}
      /\ pc = "init_wait" => mailbox[i] = <<InitCommand>>
      /\ pc = "sign_wait" => mailbox[i] = <<SignCommand(payload)>>
  BY NodeAtCursor DEF Node
<1>2. \A c : Head(<<c>>) = c
  OBVIOUS
<1>3. pc = "sign_wait" /\ Head(mailbox[i]).payload = payload
  BY <1>1, <1>2 DEF NodeSigns, TakesCommand, InitCommand, SignCommand
<1>4. presigPool[i] \in Seq(PresigSet) /\ presigPool[i] # <<>>
  BY DEF IInv, TypeOK, NodeSigns, IsEmpty
<1>5. NextItem(presigPool[i]) = presigPool[i][1] /\ presigPool[i][1] \in PresigSet
  BY <1>4, AfterPopType
<1>6. payload \in Payloads /\ ~Visited(i)
  BY <1>1, <1>3 DEF IInv, SignPassInv, SignPcs, Visited, TypeOK
<1>7. remaining # 0 /\ Len(presigPool[i]) = remaining
  <2>1. Len(presigPool[i]) # 0
    BY <1>4
  <2>2. QED
    BY <1>3, <1>6, <2>1 DEF IInv, SignPassInv, SignPcs
<1>8. sig \in Partial
  BY <1>5, <1>6 DEF Partial
<1>9. QED
  BY <1>1, <1>3, <1>4, <1>5, <1>6, <1>7, <1>8
     DEF NodeSigns, Answer, IssuePartialSignature

\* What the coordinator receives, by the pass it is in.
LEMMA ReceivedReply ==
  ASSUME IInv
  PROVE  /\ RecvInit => /\ reply = ErrReply \/ reply \in SizeReplies
                        /\ reply # ErrReply => poolSizes' = Append(poolSizes, reply.size)
         /\ RecvSign => reply = ErrReply \/ reply \in PartialReplies
         /\ NoReply \notin PartialReplies \cup SizeReplies
         /\ ErrReply \notin PartialReplies \cup SizeReplies
         /\ \A size : SizeReply(size) \notin PartialReplies
         /\ \A sig : SignReply(sig) \notin SizeReplies
<1>1. RequestReply
  BY DEF IInv
<1>2. QED
  BY <1>1, ReplyKinds DEF RecvInit, SizeReplies, PartialReplies, NoReply,
                          ErrReply, SizeReply, SignReply

LEMMA SameSetStep == IInv /\ SameSetInv /\ [Next]_vars => SameSetInv'
<1> SUFFICES ASSUME IInv, SameSetInv, [Next]_vars PROVE SameSetInv'
  OBVIOUS
<1> USE DEF mainVars, initVars, signVars, passVars, nodeVars, fileVars, history,
            SignPcs, SameSetInv
<1>i. TypeOK /\ RequestReply /\ SignPassInv /\ SameSetInv
  BY DEF IInv
\* Steps that leave pools, partial signatures and the pass alone.
<1>0. CASE UNCHANGED <<presigPool, partials, remaining, reply>>
           /\ (pc' \in SignPcs => pc \in SignPcs)
  BY <1>0, <1>i
<1>1. CASE RecvInit
  <2>1. UNCHANGED <<presigPool, partials>> /\ pc' \notin SignPcs
    BY <1>1 DEF RecvInit, InitPassEnds, LoopTop
  <2>2. QED
    BY <2>1, <1>i
<1>2. ASSUME NEW i \in Online, Node(i) PROVE SameSetInv'
  <2>1. CASE NodeInitMissing(i) \/ NodeInitDirNotEmpty(i) \/ NodeSignRefuses(i)
    BY <2>1, <1>i, ReceivedReply
       DEF NodeInitMissing, NodeInitDirNotEmpty, NodeSignRefuses, Answer
  <2>2. CASE NodeInitLoads(i)
    <3>1. /\ presigPool' = [presigPool EXCEPT ![i] = PoolOf(poolFile[i])]
          /\ reply' = SizeReply(PoolSize[poolFile[i]]) /\ poolFile[i] \in Batches
          /\ UNCHANGED <<pc, partials, remaining>>
      BY <2>2, <1>i DEF NodeInitLoads, Answer, TypeOK
    <3>2. \A k \in DOMAIN PoolOf(poolFile[i]) :
            Left(PoolOf(poolFile[i])[k]) = Len(PoolOf(poolFile[i])) - k
      BY <3>1, PoolOfType DEF Left
    <3>3. \A j \in Online : \A k \in DOMAIN presigPool'[j] :
            Left(presigPool'[j][k]) = Len(presigPool'[j]) - k
      BY <3>1, <3>2, <1>i DEF TypeOK
    <3>4. QED
      BY <3>1, <3>3, <1>i, ReceivedReply
  <2>3. CASE NodeSigns(i)
    <3> DEFINE q == presigPool[i]
               sig == [set |-> q[1], payload |-> payload]
    <3>1. /\ q \in Seq(PresigSet) /\ q # <<>> /\ Len(q) = remaining
          /\ reply' = SignReply(sig)
          /\ presigPool' = [presigPool EXCEPT ![i] = AfterPop(@)]
          /\ UNCHANGED <<pc, partials, remaining>>
      BY <2>3, SigningNode
    <3>2. /\ \A k \in DOMAIN AfterPop(q) :
               AfterPop(q)[k] = q[k + 1] /\ k + 1 \in DOMAIN q /\ k \in Nat
          /\ Len(AfterPop(q)) = Len(q) - 1 /\ Len(q) \in Nat /\ 1 \in DOMAIN q
      <4>1. /\ AfterPop(q) \in Seq(PresigSet) /\ Len(AfterPop(q)) = Len(q) - 1
            /\ Len(q) > 0 /\ \A k \in DOMAIN AfterPop(q) : AfterPop(q)[k] = q[k + 1]
        BY <3>1, AfterPopType
      <4>2. Len(q) \in Nat /\ DOMAIN q = 1 .. Len(q)
        BY <3>1
      <4>3. DOMAIN AfterPop(q) = 1 .. Len(q) - 1
        BY <4>1
      <4>4. QED
        BY <4>1, <4>2, <4>3
    <3>3. \A k \in DOMAIN q : Left(q[k]) = Len(q) - k
      BY <1>i
    <3>4. \A k \in DOMAIN AfterPop(q) : Left(AfterPop(q)[k]) = Len(AfterPop(q)) - k
      BY <3>2, <3>3
    <3>5. \A j \in Online : \A k \in DOMAIN presigPool'[j] :
            Left(presigPool'[j][k]) = Len(presigPool'[j]) - k
      BY <3>1, <3>4, <1>i DEF TypeOK
    <3>6. reply'.sig.set = q[1]
      BY <3>1 DEF SignReply
    <3>7. Left(reply'.sig.set) = remaining - 1
      BY <3>1, <3>2, <3>3, <3>6
    <3>8. QED
      BY <3>1, <3>5, <3>7, <1>i
  <2>4. QED
    BY <1>2, <2>1, <2>2, <2>3 DEF Node
<1>3. ASSUME NEW p \in Payloads, EnterPayload(p) PROVE SameSetInv'
  <2>1. /\ partials' = <<>> /\ UNCHANGED <<presigPool, reply>> /\ reply = NoReply
    BY <1>3, <1>i DEF EnterPayload, RequestReply, Idle
  <2>2. DOMAIN partials' = {}
    BY <2>1
  <2>3. QED
    BY <2>1, <2>2, <1>i, ReceivedReply
<1>4. CASE RecvSign
  <2>1. /\ pc = "sign_wait" /\ UNCHANGED presigPool /\ reply' = NoReply
        /\ IF reply = ErrReply THEN partials' = partials
                               ELSE partials' = Append(partials, reply.sig)
    BY <1>4, <1>i, ReplyKinds DEF RecvSign
  <2>2. /\ \A k \in DOMAIN partials : Left(partials[k].set) = remaining - 1
        /\ reply # ErrReply => Left(reply.sig.set) = remaining - 1
    BY <2>1, <1>4, <1>i, ReceivedReply
  <2>3. \A k \in DOMAIN partials' : Left(partials'[k].set) = remaining - 1
    <3>1. CASE reply = ErrReply
      BY <3>1, <2>1, <2>2
    <3>2. CASE reply # ErrReply
      <4>1. partials' = Append(partials, reply.sig) /\ partials \in Seq(Partial)
        BY <3>2, <2>1, <1>i DEF TypeOK
      <4>2. \A k \in DOMAIN partials' :
              \/ k \in DOMAIN partials /\ partials'[k] = partials[k]
              \/ partials'[k] = reply.sig
        BY <4>1
      <4>3. QED
        BY <3>2, <4>2, <2>2
    <3>3. QED
      BY <3>1, <3>2
  <2>4. pc' \in SignPcs => remaining' = remaining
    BY <1>4 DEF RecvSign, SignPassEnds, LoopTop
  <2>5. QED
    BY <2>1, <2>3, <2>4, <1>i, ReceivedReply
<1>5. CASE CombineFails \/ \E exported \in BOOLEAN : CombineSucceeds(exported)
  BY <1>5, <1>i DEF CombineFails, CombineSucceeds, LoopTop
<1>6. CASE Restart
  <2>1. /\ \A i \in Online : presigPool'[i] = <<>>
        /\ partials' = <<>> /\ pc' \notin SignPcs
    BY <1>6 DEF Restart
  <2>2. DOMAIN <<>> = {}
    OBVIOUS
  <2>3. QED
    BY <2>1, <2>2
<1>7. QED
  BY <1>0, <1>1, <1>2, <1>3, <1>4, <1>5, <1>6, StepKinds
     DEF program, SendInit, RetryInit, SendSign, PressEnterReload, StartInitPass,
         EnterBadPayload, LoopTop

LEMMA InitSameSet == Init => SameSetInv
<1>1. DOMAIN <<>> = {}
  OBVIOUS
<1>2. QED
  BY <1>1 DEF Init, ProcessInit, SameSetInv, SignPcs

\* Online partial signatures of one pass that come from one batch come from one
\* set, however the initializations, reloads and crashes before it went.
THEOREM SameSet == Spec => []SameBatchSameSet
<1>1. IInv /\ SameSetInv => SameBatchSameSet
  <2> SUFFICES ASSUME IInv, SameSetInv,
                      NEW j \in DOMAIN partials, NEW k \in DOMAIN partials,
                      partials[j].set.batch = partials[k].set.batch
               PROVE  partials[j].set = partials[k].set
    BY DEF SameBatchSameSet
  <2>1. partials[j].set \in PresigSet /\ partials[k].set \in PresigSet
    BY PartialFields DEF IInv, TypeOK
  <2>2. Left(partials[j].set) = Left(partials[k].set)
    BY DEF SameSetInv
  <2>3. partials[j].set.index = partials[k].set.index
    BY <2>1, <2>2, PresigFields DEF Left
  <2>4. QED
    BY <2>1, <2>3, PresigExtensionality
<1>2. QED
  BY IInvHolds, InitSameSet, SameSetStep, <1>1, PTL DEF Spec

-----------------------------------------------------------------------------
(* A successful initialization uses complete batches only *)

LEMMA FullPoolStep == IInv /\ FullPoolInv /\ [Next]_vars => FullPoolInv'
<1> SUFFICES ASSUME IInv, FullPoolInv, [Next]_vars PROVE FullPoolInv'
  OBVIOUS
<1> USE DEF mainVars, initVars, signVars, passVars, nodeVars, fileVars, history
<1>i. TypeOK /\ RequestReply /\ FullPoolInv
  BY DEF IInv
<1>t. N \in Nat /\ cursor \in 1 .. N - 1
  BY <1>i, CoordAssumption DEF TypeOK
<1>0. CASE UNCHANGED program
  BY <1>0, <1>i DEF program, FullPoolInv, Complete
<1>1. CASE SendInit
  <2>1. /\ pc = "init_send" /\ UNCHANGED <<presigPool, failedNodes, cursor, reply>>
        /\ reply = NoReply
    BY <1>1, <1>i DEF SendInit, RequestReply, Idle
  <2>2. QED
    BY <2>1, <1>i, ReceivedReply DEF FullPoolInv, Complete
<1>2. CASE RecvInit
  <2>1. /\ pc = "init_wait" /\ UNCHANGED presigPool
        /\ pc' = "init_send" => cursor' = cursor + 1
        /\ pc' # "init_wait"
    BY <1>2 DEF RecvInit, InitPassEnds, LoopTop
  <2>2. failedNodes' = {} => failedNodes = {} /\ reply \in SizeReplies
    BY <1>2, <1>i, ReceivedReply, ReplyKinds DEF RecvInit
  <2>3. failedNodes' = {} => \A k \in 1 .. cursor : Complete(k)
    BY <2>1, <2>2, <1>i, <1>t DEF FullPoolInv
  <2>4. QED
    BY <2>1, <2>3, <1>t DEF FullPoolInv, Complete
<1>3. ASSUME NEW i \in Online, Node(i) PROVE FullPoolInv'
  <2>1. i = cursor /\ UNCHANGED <<pc, cursor, failedNodes>>
    BY <1>3, NodeAtCursor
       DEF Node, NodeInitMissing, NodeInitDirNotEmpty, NodeInitLoads,
           NodeSignRefuses, NodeSigns
  <2>2. CASE NodeInitMissing(i) \/ NodeInitDirNotEmpty(i) \/ NodeSignRefuses(i)
    BY <2>1, <2>2, <1>i, ReceivedReply
       DEF NodeInitMissing, NodeInitDirNotEmpty, NodeSignRefuses, Answer,
           FullPoolInv, Complete
  <2>3. CASE NodeInitLoads(i)
    <3>1. /\ presigPool' = [presigPool EXCEPT ![i] = PoolOf(poolFile[i])]
          /\ poolFile[i] \in Batches /\ presigPool'[i] = PoolOf(poolFile[i])
      BY <2>3, <1>i DEF NodeInitLoads, TypeOK
    <3>2. Complete(i)'
      BY <3>1 DEF Complete
    <3>3. \A k \in 1 .. cursor - 1 : presigPool'[k] = presigPool[k]
      BY <3>1, <2>1, <1>t, <1>i DEF TypeOK
    <3>4. QED
      BY <2>1, <3>2, <3>3, <1>i DEF FullPoolInv, Complete
  <2>4. CASE NodeSigns(i)
    BY <2>4, <2>1, SigningNode DEF FullPoolInv
  <2>5. QED
    BY <1>3, <2>2, <2>3, <2>4 DEF Node
<1>4. CASE RetryInit \/ PressEnterReload \/ Restart
  <2>1. pc' = "init_send" /\ cursor' = 1
    BY <1>4 DEF RetryInit, PressEnterReload, StartInitPass, Restart
  <2>2. QED
    BY <2>1 DEF FullPoolInv
<1>5. CASE \/ SendSign \/ RecvSign \/ EnterBadPayload \/ CombineFails
           \/ \E p \in Payloads : EnterPayload(p)
           \/ \E exported \in BOOLEAN : CombineSucceeds(exported)
  <2>1. pc' \notin {"init_send", "init_wait"}
    BY <1>5 DEF SendSign, RecvSign, SignPassEnds, EnterBadPayload, EnterPayload,
                CombineFails, CombineSucceeds, LoopTop
  <2>2. QED
    BY <2>1 DEF FullPoolInv
<1>6. QED
  BY <1>0, <1>1, <1>2, <1>3, <1>4, <1>5, StepKinds

LEMMA FullPoolHolds == Spec => []FullPoolInv
<1>1. Init => FullPoolInv
  BY DEF Init, ProcessInit, FullPoolInv
<1>2. QED
  BY <1>1, IInvHolds, FullPoolStep, PTL DEF Spec

\* An initialization that ends at the payload prompt leaves every node with a
\* complete batch: nothing a failed pass left in memory comes back into use.
THEOREM CompleteBatches == Spec => NoStalePoolSurvivesInit
<1> DEFINE Full == pc = "init_wait" /\ pc' = "payload_prompt" =>
                     \A i \in Online : \E b \in Batches : presigPool'[i] = PoolOf(b)
<1>1. IInv /\ FullPoolInv /\ [Next]_vars => [Full]_vars
  <2> SUFFICES ASSUME IInv, FullPoolInv, [Next]_vars,
                      pc = "init_wait", pc' = "payload_prompt"
               PROVE  \A i \in Online : \E b \in Batches : presigPool'[i] = PoolOf(b)
    OBVIOUS
  <2> USE DEF mainVars, initVars, signVars, passVars, nodeVars, fileVars, history
  <2>1. RecvInit
    <3>1. \A i \in Online : Node(i) => pc' = pc
      BY DEF Node, NodeInitMissing, NodeInitDirNotEmpty, NodeInitLoads,
             NodeSignRefuses, NodeSigns
    <3>2. QED
      BY <3>1, StepKinds
         DEF program, SendInit, RetryInit, SendSign, RecvSign, PressEnterReload,
             EnterBadPayload, EnterPayload, CombineFails, CombineSucceeds,
             OutputsReadable, Restart
  <2>2. cursor \in 1 .. N - 1 /\ N \in Nat
    BY CoordAssumption DEF IInv, TypeOK
  <2>3. /\ cursor = N - 1 /\ UNCHANGED presigPool
        /\ InitPassEnds(poolSizes', failedNodes')
    BY <2>1, <2>2 DEF RecvInit
  <2>4. failedNodes' = {}
    BY <2>3 DEF InitPassEnds, PassRejected
  <2>5. failedNodes = {} /\ reply \in SizeReplies
    BY <2>1, <2>4, ReceivedReply, ReplyKinds DEF RecvInit, IInv
  <2>6. \A k \in 1 .. N - 1 : Complete(k)
    BY <2>2, <2>3, <2>5 DEF FullPoolInv
  <2>7. QED
    BY <2>3, <2>6 DEF Complete
<1>2. QED
  BY <1>1, IInvHolds, FullPoolHolds, PTL DEF Spec, NoStalePoolSurvivesInit

-----------------------------------------------------------------------------
(* Signature files of one session *)

LEMMA SessionStep == IInv /\ SessionInv /\ [Next]_vars => SessionInv'
<1> SUFFICES ASSUME IInv, SessionInv, [Next]_vars PROVE SessionInv'
  OBVIOUS
<1> USE DEF mainVars, passVars, nodeVars, fileVars, history
<1>i. /\ restarts \in Nat /\ round \in Nat /\ published \subseteq Published
      /\ \A x \in published : x.session \in Nat /\ x.round \in Nat
      /\ SessionInv
  BY CoordAssumption DEF IInv, TypeOK, Published
<1>1. CASE published' = published /\ restarts' = restarts /\ round' \in {round, round + 1}
  BY <1>1, <1>i DEF SessionInv, SessionKeepsSignatures
<1>2. ASSUME CombineSucceeds(TRUE) PROVE SessionInv'
  <2> DEFINE new == [session |-> restarts, round |-> round,
                     set |-> ppdFile[round], payload |-> payload]
  <2>1. /\ published' = published \cup {new} /\ restarts' = restarts
        /\ round' = round + 1
    BY <1>2 DEF CombineSucceeds, NextRound
  <2>2. \A x \in published : ~(x.session = new.session /\ x.round = new.round)
    BY <1>i DEF SessionInv
  <2>3. SessionKeepsSignatures'
    BY <2>1, <2>2, <1>i DEF SessionInv, SessionKeepsSignatures
  <2>4. QED
    BY <2>1, <2>3, <1>i DEF SessionInv
<1>3. CASE Restart
  <2>1. published' = published /\ restarts' = restarts + 1
    BY <1>3 DEF Restart
  <2>2. QED
    BY <2>1, <1>i DEF SessionInv, SessionKeepsSignatures
<1>4. ASSUME NEW i \in Online, Node(i)
      PROVE  UNCHANGED <<published, restarts, round>>
  BY <1>4 DEF Node, NodeInitMissing, NodeInitDirNotEmpty, NodeInitLoads,
              NodeSignRefuses, NodeSigns
<1>5. CombineSucceeds(FALSE) => published' = published /\ restarts' = restarts
                                /\ round' = round + 1
  BY DEF CombineSucceeds, NextRound
<1>6. QED
  BY <1>1, <1>2, <1>3, <1>4, <1>5, StepKinds
     DEF program, SendInit, RecvInit, RetryInit, StartInitPass, SendSign,
         RecvSign, PressEnterReload, EnterBadPayload, EnterPayload,
         CombineFails, NextRound

\* Within one run of the coordinator each round writes its signature file at
\* most once, on whatever path the rounds before it ended.
THEOREM SessionFiles == Spec => []SessionKeepsSignatures
<1>1. Init => SessionInv
  BY DEF Init, SessionInv, SessionKeepsSignatures
<1>2. SessionInv => SessionKeepsSignatures
  BY DEF SessionInv
<1>3. QED
  BY <1>1, <1>2, IInvHolds, SessionStep, PTL DEF Spec

-----------------------------------------------------------------------------
(* The coordinator keeps the promise of one-time signing *)

\* A combination that succeeds has the partial signature of every party, for the
\* payload of the round and the set of the ppd, and no signature used that set.
LEMMA CombinedByAll ==
  ASSUME IInv, PromiseInv, NEW exported \in BOOLEAN, CombineSucceeds(exported)
  PROVE  /\ payload \in Payloads /\ ppdFile[round] \in PresigSet
         /\ \A i \in Parties : [set |-> ppdFile[round], payload |-> payload] \in issued[i]
         /\ \A x \in published : x.set # ppdFile[round]
<1> DEFINE new == [set |-> ppdFile[round], payload |-> payload]
<1>1. /\ pc = "offline_wait" /\ partialFile[round] # None /\ ppdFile[round] # None
      /\ Combines(AllPartials, N, ppdFile[round], payload)
  BY DEF CombineSucceeds, OutputsReadable
<1>2. /\ partials \in Seq(Partial) /\ Len(partials) = N - 1 /\ round \in Rounds
      /\ N \in Nat /\ N >= 2 /\ partialFile[round] \in Partial
      /\ ppdFile[round] \in PresigSet /\ payload \in Payloads
  BY <1>1, CoordAssumption DEF IInv, TypeOK, SignPassInv, PromiseInv, PassPending, SignPcs
<1>3. /\ DOMAIN AllPartials = 1 .. N
      /\ AllPartials[1] = partialFile[round]
      /\ \A k \in 1 .. N - 1 : AllPartials[k + 1] = partials[k]
  <2>1. \A x : \A q \in Seq(Partial) :
          /\ Len(<<x>> \o q) = Len(q) + 1 /\ (<<x>> \o q)[1] = x
          /\ \A k \in 1 .. Len(q) : (<<x>> \o q)[k + 1] = q[k]
          /\ DOMAIN (<<x>> \o q) = 1 .. Len(q) + 1
    OBVIOUS
  <2>2. QED
    BY <2>1, <1>2 DEF AllPartials
<1>4. partialFile[round] = new /\ \A k \in 1 .. N - 1 : partials[k] = new
  <2>1. \A k \in 1 .. N : AllPartials[k] = new
    BY <1>1, <1>3 DEF Combines
  <2>2. 1 \in 1 .. N /\ \A k \in 1 .. N - 1 : k + 1 \in 1 .. N
    BY <1>2
  <2>3. QED
    BY <2>1, <2>2, <1>3
<1>5. DOMAIN partials = 1 .. N - 1
  BY <1>2
<1>6. \A k \in 1 .. N - 1 : Pending(new, k)
  BY <1>1, <1>4, <1>5 DEF PromiseInv, PassPending
<1>7. new \in issued[0]
  BY <1>1, <1>2, <1>4 DEF PromiseInv, DeliveredIssued
<1>8. \A i \in Parties : i = 0 \/ i \in 1 .. N - 1
  BY <1>2
<1>9. \A i \in Parties : new \in issued[i]
  BY <1>6, <1>7, <1>8 DEF Pending
<1>10. Pending(new, 1)
  BY <1>2, <1>6
<1>11. QED
  BY <1>2, <1>9, <1>10 DEF Pending

\* A node signs with a set it has never signed with, and which is therefore in
\* no published signature.
LEMMA SignsUnused ==
  ASSUME IInv, FreshInv, PromiseInv, NEW i \in Online, NodeSigns(i)
  PROVE  /\ \A sig \in issued[i] : sig.set # presigPool[i][1]
         /\ \A x \in published : x.set # presigPool[i][1]
<1>1. 1 \in DOMAIN presigPool[i]
  <2>1. presigPool[i] \in Seq(PresigSet) /\ presigPool[i] # <<>>
    BY SigningNode
  <2>2. QED
    BY <2>1
<1>2. NeverSignedAgain
  BY FreshImplies DEF IInv
<1>3. \A sig \in issued[i] : sig.set # presigPool[i][1]
  BY <1>1, <1>2 DEF NeverSignedAgain
<1>4. \A x \in published : [set |-> x.set, payload |-> x.payload] \in issued[i]
  BY DEF PromiseInv, PublishedIssued
<1>5. QED
  BY <1>3, <1>4

LEMMA IssuedGrows ==
  TypeOK /\ [Next]_vars => \A j \in Parties : issued[j] \subseteq issued'[j]
<1> SUFFICES ASSUME TypeOK, [Next]_vars, NEW j \in Parties
             PROVE  issued[j] \subseteq issued'[j]
  OBVIOUS
<1> USE DEF mainVars, initVars, passVars, nodeVars, fileVars, history
<1>1. ASSUME NEW i \in Online, Node(i) PROVE issued[j] \subseteq issued'[j]
  <2>1. CASE NodeSigns(i)
    BY <2>1 DEF NodeSigns, TypeOK
  <2>2. QED
    BY <1>1, <2>1 DEF Node, NodeInitMissing, NodeInitDirNotEmpty, NodeInitLoads,
                      NodeSignRefuses
<1>2. ASSUME NEW r \in Rounds, NEW s \in PresigSet, NEW p \in Payloads,
             DeliverPartial(r, s, p)
      PROVE  issued[j] \subseteq issued'[j]
  BY <1>2 DEF DeliverPartial, TypeOK
<1>3. CASE Coordinator \/ Restart \/ UNCHANGED vars
  BY <1>3 DEF Coordinator, SendInit, RecvInit, RetryInit, StartInitPass,
              SendSign, RecvSign, Restart, vars
<1>4. CASE Terminal
  BY <1>4 DEF Terminal, PressEnterReload, StartInitPass, EnterBadPayload,
              EnterPayload, LoadOfflineDirNotEmpty, CombineFails, CombineSucceeds
<1>5. QED
  BY <1>1, <1>2, <1>3, <1>4 DEF Next, Environment, SupplyPool, ToggleStray, DeliverPpd

LEMMA DeliveredStep ==
  TypeOK /\ DeliveredIssued /\ [Next]_vars => DeliveredIssued'
<1> SUFFICES ASSUME TypeOK, DeliveredIssued, [Next]_vars PROVE DeliveredIssued'
  OBVIOUS
<1> USE DEF mainVars, initVars, signVars, passVars, nodeVars, fileVars, history
<1>g. issued[0] \subseteq issued'[0]
  BY IssuedGrows, CoordAssumption
<1>1. CASE UNCHANGED partialFile
  BY <1>1, <1>g DEF DeliveredIssued
<1>2. CASE RemoveOutputs
  BY <1>2, <1>g DEF RemoveOutputs, DeliveredIssued, TypeOK
<1>3. ASSUME NEW r \in Rounds, NEW s \in PresigSet, NEW p \in Payloads,
             DeliverPartial(r, s, p)
      PROVE  DeliveredIssued'
  <2> DEFINE sig == [set |-> s, payload |-> p]
  <2>1. sig \in issued'[0] /\ partialFile' = [partialFile EXCEPT ![r] = sig]
    BY <1>3, CoordAssumption DEF DeliverPartial, TypeOK
  <2>2. QED
    BY <2>1, <1>g DEF DeliveredIssued, TypeOK
<1>4. ASSUME NEW i \in Online, Node(i) PROVE UNCHANGED partialFile
  BY <1>4 DEF Node, NodeInitMissing, NodeInitDirNotEmpty, NodeInitLoads,
              NodeSignRefuses, NodeSigns
<1>5. Terminal => UNCHANGED partialFile \/ RemoveOutputs
  BY DEF Terminal, PressEnterReload, StartInitPass, EnterBadPayload,
         EnterPayload, LoadOfflineDirNotEmpty, CombineFails, CombineSucceeds
<1>6. Coordinator \/ Restart \/ UNCHANGED vars => UNCHANGED partialFile
  BY DEF Coordinator, SendInit, RecvInit, RetryInit, StartInitPass, SendSign,
         RecvSign, Restart, vars
<1>7. QED
  BY <1>1, <1>2, <1>3, <1>4, <1>5, <1>6
     DEF Next, Environment, SupplyPool, ToggleStray, DeliverPpd

LEMMA PublishedUnchanged ==
  ASSUME [Next]_vars, ~CombineSucceeds(TRUE)
  PROVE  UNCHANGED published
<1> USE DEF mainVars, initVars, signVars, passVars, nodeVars, history
<1>1. ASSUME NEW i \in Online, Node(i) PROVE UNCHANGED published
  BY <1>1 DEF Node, NodeInitMissing, NodeInitDirNotEmpty, NodeInitLoads,
              NodeSignRefuses, NodeSigns
<1>2. QED
  BY <1>1, StepKinds
     DEF program, SendInit, RecvInit, RetryInit, StartInitPass, SendSign,
         RecvSign, PressEnterReload, EnterBadPayload, EnterPayload,
         CombineFails, CombineSucceeds, Restart

LEMMA PublishedStep == IInv /\ PromiseInv /\ [Next]_vars => PublishedIssued'
<1> SUFFICES ASSUME IInv, PromiseInv, [Next]_vars, NEW i \in Parties,
                    NEW x \in published'
             PROVE  [set |-> x.set, payload |-> x.payload] \in issued'[i]
  BY DEF PublishedIssued
<1>g. issued[i] \subseteq issued'[i]
  BY IssuedGrows DEF IInv
<1>1. CASE x \in published
  BY <1>1, <1>g DEF PromiseInv, PublishedIssued
<1>2. CASE x \notin published
  <2>1. CombineSucceeds(TRUE)
    BY <1>2, PublishedUnchanged
  <2>2. x.set = ppdFile[round] /\ x.payload = payload
    BY <1>2, <2>1 DEF CombineSucceeds
  <2>3. QED
    BY <2>1, <2>2, <1>g, CombinedByAll
<1>3. QED
  BY <1>1, <1>2

\* Whatever is pending stays so while no signature is published.
LEMMA PendingStays ==
  ASSUME TypeOK, [Next]_vars, UNCHANGED published, NEW i \in Parties, NEW sig,
         Pending(sig, i)
  PROVE  Pending(sig, i)'
<1>1. issued[i] \subseteq issued'[i]
  BY IssuedGrows
<1>2. QED
  BY <1>1 DEF Pending

LEMMA PassStep == IInv /\ FreshInv /\ PromiseInv /\ [Next]_vars => PassPending'
<1> SUFFICES ASSUME IInv, FreshInv, PromiseInv, [Next]_vars PROVE PassPending'
  OBVIOUS
<1> USE DEF mainVars, initVars, signVars, passVars, nodeVars, fileVars, history,
            SignPcs
<1>i. TypeOK /\ RequestReply /\ SignPassInv /\ PassPending
  BY DEF IInv, PromiseInv
<1>t. /\ N \in Nat /\ cursor \in 1 .. N - 1 /\ partials \in Seq(Partial)
      /\ \A k \in Online : k \in Parties
  BY <1>i, CoordAssumption DEF TypeOK
\* The environment and steps between two commands.
<1>1. CASE /\ UNCHANGED <<published, partials, signErrors, cursor>>
           /\ pc' \in SignPcs => pc \in SignPcs
           /\ pc' = "offline_wait" => pc = "offline_wait"
           /\ reply' = reply \/ reply' \notin PartialReplies
  <2>1. \A sig : \A k \in Online : Pending(sig, k) => Pending(sig, k)'
    BY <1>1, <1>t, <1>i, PendingStays
  <2>2. QED
    BY <1>1, <1>i, <1>t, <2>1 DEF PassPending
<1>2. ASSUME NEW i \in Online, NodeSigns(i) PROVE PassPending'
  <2> DEFINE sig == [set |-> presigPool[i][1], payload |-> payload]
  <2>1. /\ i = cursor /\ reply' = SignReply(sig)
        /\ issued' = [issued EXCEPT ![i] = @ \cup {sig}]
        /\ UNCHANGED <<pc, published, partials, signErrors, cursor>>
    BY <1>2, SigningNode
  <2>i. i \in Parties /\ sig \in issued'[i]
    BY <2>1, <1>t, <1>i DEF TypeOK
  <2>2. \A x \in published : x.set # sig.set
    BY <1>2, SignsUnused DEF PromiseInv
  <2>3. Pending(reply.sig, cursor)'
    BY <2>1, <2>i, <2>2 DEF Pending, SignReply
  <2>4. \A q : \A k \in Online : Pending(q, k) => Pending(q, k)'
    BY <2>1, <1>t, <1>i, PendingStays
  <2>5. QED
    <3>1. PassPending!1'
      BY <2>1, <2>4, <1>i, <1>t DEF PassPending
    <3>2. QED
      BY <3>1, <2>1, <2>3, <1>i DEF PassPending
<1>3. ASSUME NEW p \in Payloads, EnterPayload(p) PROVE PassPending'
  <2>1. /\ partials' = <<>> /\ cursor' = 1 /\ reply' = NoReply /\ pc' = "sign_send"
    BY <1>3, <1>i DEF EnterPayload, RequestReply, Idle
  <2>2. DOMAIN <<>> = {} /\ Len(<<>>) = 0
    OBVIOUS
  <2>3. QED
    BY <2>1, <2>2, ReceivedReply DEF PassPending
<1>4. CASE RecvSign
  <2>1. /\ pc = "sign_wait" /\ UNCHANGED <<published, issued>> /\ reply' = NoReply
        /\ IF cursor < N - 1
             THEN cursor' = cursor + 1 /\ pc' = "sign_send"
             ELSE cursor' = cursor /\ SignPassEnds(signErrors')
    BY <1>4 DEF RecvSign
  <2>2. \A k \in DOMAIN partials : k \in Online /\ Pending(partials[k], k)
    BY <2>1, <1>i DEF PassPending
  <2>3. CASE reply = ErrReply
    <3>1. partials' = partials /\ signErrors' # {}
      BY <2>3, <1>4, <1>i, ReplyKinds DEF RecvSign
    <3>2. pc' # "offline_wait"
      BY <2>1, <3>1 DEF SignPassEnds, LoopTop
    <3>3. QED
      BY <2>1, <2>2, <3>1, <3>2, ReceivedReply DEF PassPending, Pending
  <2>4. CASE reply # ErrReply
    <3>1. reply \in PartialReplies /\ partials' = Append(partials, reply.sig)
          /\ signErrors' = signErrors
      BY <2>4, <1>4, <1>i, ReceivedReply, ReplyKinds DEF RecvSign
    <3>2. signErrors = {}
      BY <3>1, <2>1, <2>4, <1>i, ReceivedReply DEF SignPassInv
    <3>3. Len(partials) = cursor - 1 /\ Pending(reply.sig, cursor)
      BY <3>1, <3>2, <2>1, <1>i DEF PassPending
    <3>5. /\ Len(partials') = cursor
          /\ \A k \in DOMAIN partials' :
               \/ k \in DOMAIN partials /\ partials'[k] = partials[k]
               \/ k = cursor /\ partials'[k] = reply.sig
      <4>1. reply.sig \in Partial
        BY <3>1 DEF PartialReplies
      <4>2. QED
        BY <3>1, <3>3, <4>1, <1>t
    <3>6. \A k \in DOMAIN partials' : k \in Online /\ Pending(partials'[k], k)
      BY <2>1, <2>2, <3>3, <3>5, <1>t
    <3>7. pc' = "offline_wait" => cursor = N - 1
      BY <2>1, <1>t
    <3>8. pc' \in SignPcs => cursor' = cursor + 1
      BY <2>1, <3>1, <3>2 DEF SignPassEnds, LoopTop
    <3>9. QED
      <4>1. \A k \in DOMAIN partials' :
              /\ k \in Online /\ partials'[k] \in issued'[k]
              /\ \A x \in published' : x.set # partials'[k].set
        BY <2>1, <3>6 DEF Pending
      <4>2. /\ pc' \in SignPcs => Len(partials') = cursor' - 1
            /\ pc' = "offline_wait" => Len(partials') = N - 1
        BY <3>5, <3>7, <3>8, <1>t
      <4>3. QED
        BY <2>1, <4>1, <4>2, ReceivedReply DEF PassPending, Pending
  <2>5. QED
    BY <2>3, <2>4
<1>5. CASE \/ RecvInit \/ RetryInit \/ PressEnterReload \/ EnterBadPayload \/ CombineFails
           \/ Restart \/ \E exported \in BOOLEAN : CombineSucceeds(exported)
  <2>1. pc' \notin SignPcs \cup {"offline_wait"}
    BY <1>5 DEF RecvInit, InitPassEnds, RetryInit, PressEnterReload, StartInitPass,
                EnterBadPayload, CombineFails, CombineSucceeds, Restart, LoopTop
  <2>2. QED
    BY <2>1 DEF PassPending
<1>6. ASSUME NEW i \in Online, Node(i), ~NodeSigns(i) PROVE PassPending'
  <2>1. UNCHANGED <<pc, published, partials, signErrors, cursor>>
    BY <1>6 DEF Node, NodeInitMissing, NodeInitDirNotEmpty, NodeInitLoads,
                NodeSignRefuses
  <2>2. reply' \notin PartialReplies
    BY <1>6, ReceivedReply
       DEF Node, NodeInitMissing, NodeInitDirNotEmpty, NodeInitLoads,
           NodeSignRefuses, Answer
  <2>3. QED
    BY <1>1, <2>1, <2>2
<1>7. SendInit \/ SendSign \/ UNCHANGED program =>
        /\ UNCHANGED <<published, partials, signErrors, cursor, reply>>
        /\ pc' \in SignPcs => pc \in SignPcs
        /\ pc' = "offline_wait" => pc = "offline_wait"
  BY DEF SendInit, SendSign, program
<1>8. QED
  BY <1>1, <1>2, <1>3, <1>4, <1>5, <1>6, <1>7, StepKinds

LEMMA PromiseHolds == Spec => [](FreshInv /\ PromiseInv)
<1>1. Init => FreshInv /\ PromiseInv
  <2>1. Init => FreshInv
    BY DEF Init, ProcessInit, FreshInv, FreshAt, PoolOrdered
  <2>2. Init => PromiseInv
    BY DEF Init, ProcessInit, PromiseInv, DeliveredIssued, PublishedIssued,
           PassPending, SignPcs
  <2>3. QED
    BY <2>1, <2>2
<1>2. IInv /\ FreshInv /\ PromiseInv /\ [Next]_vars => FreshInv' /\ PromiseInv'
  BY FreshStep, DeliveredStep, PublishedStep, PassStep DEF PromiseInv, IInv
<1>3. QED
  BY <1>1, <1>2, IInvHolds, PTL DEF Spec

\* The coordinator and its nodes implement the abstract specification: every
\* signature a node or the offline node makes uses a set that is new to it, and
\* every signature file has the agreement of all parties and a set of its own.
THEOREM KeepsPromise == Spec => ImplementsOneTimeSigning
<1> DEFINE Public == {[set |-> x.set, payload |-> x.payload] : x \in published}
<1>1. Init => Promise!Init
  BY DEF Init, Promise!Init
<1>2. IInv /\ FreshInv /\ PromiseInv /\ [Next]_vars => [Promise!Next]_(Promise!vars)
  <2> SUFFICES ASSUME IInv, FreshInv, PromiseInv, [Next]_vars
               PROVE  [Promise!Next]_(Promise!vars)
    OBVIOUS
  <2> USE DEF mainVars, initVars, signVars, passVars, nodeVars, fileVars, history
  <2>1. ASSUME NEW i \in Online, NodeSigns(i) PROVE Promise!Next
    <3> DEFINE s == presigPool[i][1]
    <3>1. /\ [set |-> s, payload |-> payload] \in Partial
          /\ issued' = [issued EXCEPT ![i] = @ \cup {[set |-> s, payload |-> payload]}]
          /\ UNCHANGED published
      BY <2>1, SigningNode
    <3>2. s \in PresigSet /\ payload \in Payloads /\ i \in Parties
      <4>1. [set |-> s, payload |-> payload].set = s
            /\ [set |-> s, payload |-> payload].payload = payload
        OBVIOUS
      <4>2. QED
        BY <3>1, <4>1, PartialFields, CoordAssumption
    <3>3. Promise!Issue(i, s, payload)
      BY <2>1, <3>1, SignsUnused DEF Promise!Issue, Promise!Sig
    <3>4. QED
      BY <3>2, <3>3 DEF Promise!Next
  <2>2. ASSUME NEW r \in Rounds, NEW s \in PresigSet, NEW p \in Payloads,
               DeliverPartial(r, s, p)
        PROVE  Promise!Next
    <3>1. UNCHANGED published
      BY <2>2 DEF DeliverPartial, program
    <3>2. Promise!Issue(0, s, p)
      BY <2>2, <3>1 DEF DeliverPartial, Promise!Issue, Promise!Sig
    <3>3. QED
      BY <3>2, CoordAssumption DEF Promise!Next
  <2>3. CASE CombineSucceeds(TRUE)
    <3> DEFINE s == ppdFile[round]
    <3>1. /\ payload \in Payloads /\ s \in PresigSet
          /\ \A i \in Parties : [set |-> s, payload |-> payload] \in issued[i]
          /\ \A x \in published : x.set # s
      BY <2>3, CombinedByAll
    <3>2. /\ published' = published \cup
               {[session |-> restarts, round |-> round, set |-> s, payload |-> payload]}
          /\ UNCHANGED issued
      BY <2>3 DEF CombineSucceeds
    <3>3. Public' = Public \cup {[set |-> s, payload |-> payload]}
      <4> DEFINE new == [session |-> restarts, round |-> round, set |-> s,
                         payload |-> payload]
      <4>1. new.set = s /\ new.payload = payload /\ published' = published \cup {new}
        BY <3>2
      <4>2. \A sig : sig \in Public' <=>
              \E x \in published' : sig = [set |-> x.set, payload |-> x.payload]
        OBVIOUS
      <4> HIDE DEF new
      <4>3. \A sig : sig \in Public' <=>
              sig \in Public \/ sig = [set |-> s, payload |-> payload]
        BY <4>1, <4>2
      <4>4. QED
        BY <4>3
    <3>4. \A sig \in Public : sig.set # s
      BY <3>1
    <3>5. Promise!Publish(s, payload)
      BY <3>1, <3>2, <3>3, <3>4 DEF Promise!Publish, Promise!Sig
    <3>6. PICK t \in PresigSet, p \in Payloads : t = s /\ p = payload
      BY <3>1
    <3>7. Promise!Publish(t, p)
      BY <3>5, <3>6 DEF Promise!Publish
    <3>8. QED
      BY <3>7 DEF Promise!Next
  <2>4. CASE UNCHANGED <<issued, published>>
    BY <2>4 DEF Promise!vars
  <2>5. ASSUME NEW i \in Online, Node(i), ~NodeSigns(i)
        PROVE  UNCHANGED <<issued, published>>
    BY <2>5 DEF Node, NodeInitMissing, NodeInitDirNotEmpty, NodeInitLoads,
                NodeSignRefuses
  <2>6. Coordinator \/ Restart \/ UNCHANGED vars => UNCHANGED <<issued, published>>
    BY DEF Coordinator, SendInit, RecvInit, RetryInit, StartInitPass, SendSign,
           RecvSign, Restart, vars, program
  <2>7. Terminal => UNCHANGED <<issued, published>> \/ CombineSucceeds(TRUE)
    BY DEF Terminal, PressEnterReload, StartInitPass, EnterBadPayload, program,
           EnterPayload, LoadOfflineDirNotEmpty, CombineFails, CombineSucceeds
  <2>8. QED
    BY <2>1, <2>2, <2>3, <2>4, <2>5, <2>6, <2>7
       DEF Next, Environment, SupplyPool, ToggleStray, DeliverPpd, program
<1>3. QED
  BY <1>1, <1>2, IInvHolds, PromiseHolds, PTL
     DEF Spec, ImplementsOneTimeSigning, Promise!Spec
=============================================================================
