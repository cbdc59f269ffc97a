---------------------------- MODULE Demos_proofs ----------------------------
(***************************************************************************)
(* Theorems about Demos for every number of parties, every sequence of     *)
(* protocol rounds and every number of messages and of protocol errors.    *)
(***************************************************************************)
EXTENDS Demos, FiniteSetTheorems, TLAPS

\* The facts of Execution_proofs for the network of the running protocol.
Net == INSTANCE Execution_proofs

USE DEF mainVars, signVars, netVars

-----------------------------------------------------------------------------
(* The inductive invariant *)

Sigs == [set : 3 .. 2 + Messages, payload : 1 .. Messages]

\* The signature main is collecting the partials of.
Pending == [set |-> current, payload |-> Cardinality(published) + 1]

ControlOK ==
  /\ demo \in {"in_memory", "minimal_delivery"}
  /\ pc \in {"protocol", "sign", "ended", "error"}
  /\ phase \in 1 .. Phases
  /\ collected \in Parties
  /\ pool \in Seq(3 .. 2 + Messages)
  /\ current \in {0} \cup 3 .. 2 + Messages
  /\ issued \in [Parties -> SUBSET Sigs]
  /\ published \subseteq Sigs /\ IsFiniteSet(published)
  /\ Cardinality(published) <= Messages

\* While the protocols run the pool is filled, in order, and nothing is signed.
FillInv ==
  /\ \A a, b \in DOMAIN pool : a < b => pool[a] < pool[b]
  /\ pc = "protocol" =>
       /\ \A a \in DOMAIN pool : pool[a] < phase
       /\ current = 0 /\ published = {}
       /\ \A i \in Parties : issued[i] = {}

\* Whatever was used is older than what is left.
UsedInv ==
  /\ \A a \in DOMAIN pool :
       /\ current < pool[a]
       /\ \A sig \in published : sig.set < pool[a]
       /\ \A i \in Parties : \A sig \in issued[i] : sig.set < pool[a]
  /\ current # 0 =>
       /\ \A sig \in published : sig.set < current
       /\ \A i \in Parties : \A sig \in issued[i] :
            sig.set < current \/ (sig.set = current /\ i < Len(partials))

\* The partials are those of the pending signature, of parties 0, 1, ...
PartialsInv ==
  /\ partials \in Seq(Sigs) /\ Len(partials) <= N
  /\ current = 0 => partials = <<>>
  /\ current # 0 => Cardinality(published) < Messages
  /\ \A k \in DOMAIN partials : partials[k] = Pending /\ Pending \in issued[k - 1]

NetInv == Net!NetworkInv

IInv == ControlOK /\ FillInv /\ UsedInv /\ PartialsInv /\ NetInv

-----------------------------------------------------------------------------
(* The network *)

LEMMA NetParameters == Net!Parameters
  BY DemosAssumption DEF Net!Parameters

LEMMA NetNames ==
  /\ Net!Parties = Parties
  /\ X!Init => Net!Init
  /\ X!Fresh => Net!Fresh
  /\ X!TypeOK <=> Net!TypeOK
<1>1. Net!Parties = Parties
  BY DEF Net!Parties, Parties
<1>2. X!Init => Net!Init
  BY DEF X!Init, X!Parties, Net!Init, Net!Parties
<1>3. X!Fresh => Net!Fresh
  BY DEF X!Fresh, X!Parties, Net!Fresh, Net!Parties
<1>4. X!TypeOK <=> Net!TypeOK
  BY DEF X!TypeOK, X!Parties, X!Message, Net!TypeOK, Net!Parties, Net!Message
<1>5. QED
  BY <1>1, <1>2, <1>3, <1>4

\* The steps of the tasks are steps of the network, whoever has dropped his inbox.
LEMMA NetSteps ==
  ASSUME NEW i \in Parties, Task(i) \/ ProtocolFails(i)
  PROVE  \E open, echo : Net!Step(i, open, echo)
<1>1. PICK open, echo : open = Open /\ echo = Minimal
  OBVIOUS
<1>2. X!Start(i, Minimal) => Net!Start(i, echo)
  BY <1>1 DEF X!EnterRound, X!Parties, X!Recipients, X!Start,
     Net!EnterRound, Net!Parties, Net!Recipients, Net!Start
<1>3. SendSucceeds(i) => Net!Deliver(i, open)
  BY <1>1 DEF SendSucceeds, X!Deliver, X!Min, X!Sends, Net!Deliver, Net!Min, Net!Sends
<1>4. X!Receive(i) => Net!Receive(i)
  BY DEF X!Complete, X!Parties, X!Receive, X!Receives,
         Net!Complete, Net!Parties, Net!Receive, Net!Receives
<1>5. X!NextRound(i, Minimal) => Net!NextRound(i, echo)
  BY <1>1 DEF X!Complete, X!EnterRound, X!NextRound, X!Parties,
     X!Receives, X!Recipients, Net!Complete, Net!EnterRound,
     Net!NextRound, Net!Parties, Net!Receives, Net!Recipients
<1>6. X!Finish(i) => Net!Finish(i)
  BY DEF X!Complete, X!Finish, X!Parties, X!Receives,
         Net!Complete, Net!Finish, Net!Parties, Net!Receives
<1>7. X!Fail(i) \/ SendPanics(i) => Net!Stops(i)
  BY DEF X!Fail, X!Receives, X!Sends, SendPanics, Net!Stops
<1>8. QED
  BY <1>2, <1>3, <1>4, <1>5, <1>6, <1>7 DEF Net!Step, Task, ProtocolFails

LEMMA NetKeeps ==
  ASSUME IInv, [Next]_vars
  PROVE  NetInv'
<1>i. NetInv
  BY DEF IInv
<1>1. ASSUME NEW i \in Parties, Task(i) \/ ProtocolFails(i)
      PROVE  NetInv'
  <2>1. PICK open, echo : Net!Step(i, open, echo)
    BY <1>1, NetSteps
  <2>2. QED
    BY <2>1, <1>i, NetNames, NetParameters, Net!NetworkStep DEF NetInv
<1>2. CASE X!Fresh
  BY <1>2, NetNames, NetParameters, Net!NetworkFresh DEF NetInv
<1>3. CASE UNCHANGED netVars
  BY <1>3, <1>i, Net!NetworkStutter DEF NetInv, Net!vars
<1>4. Main \/ UNCHANGED vars => X!Fresh \/ UNCHANGED netVars
  BY DEF Main, JoinAll, CollectNext, PhaseEnds, Aborts, TakeSet, IssueNext,
     CombineAll, Done, vars
<1>5. QED
  BY <1>1, <1>2, <1>3, <1>4 DEF Next

-----------------------------------------------------------------------------
(* main *)

LEMMA ElementOf ==
  ASSUME NEW S, NEW q \in Seq(S), NEW a \in DOMAIN q
  PROVE  q[a] \in S
  OBVIOUS

LEMMA InitIInv == Init => IInv
<1> SUFFICES ASSUME Init PROVE IInv
  OBVIOUS
<1>1. NetInv
  BY NetNames, NetParameters, Net!NetworkInit DEF Init, NetInv
<1>2. \A S : <<>> \in Seq(S)
  OBVIOUS
<1>3. DOMAIN <<>> = {} /\ Len(<<>>) = 0
  OBVIOUS
<1>4. IsFiniteSet({}) /\ Cardinality({}) = 0
  BY FS_EmptySet
<1>5. ControlOK
  BY <1>2, <1>4, DemosAssumption DEF Init, ControlOK, Phases, Minimal, Parties
<1>6. FillInv /\ UsedInv /\ PartialsInv
  BY <1>2, <1>3, DemosAssumption DEF Init, FillInv, UsedInv, PartialsInv
<1>7. QED
  BY <1>1, <1>5, <1>6 DEF IInv

\* What all but the steps of signing leave alone.
SignInv == FillInv /\ UsedInv /\ PartialsInv

LEMMA TaskKeeps ==
  ASSUME IInv, NEW i \in Parties, Task(i) \/ ProtocolFails(i)
  PROVE  ControlOK' /\ SignInv'
<1>1. UNCHANGED <<mainVars, signVars>>
  BY DEF Task, ProtocolFails
<1>2. QED
  BY <1>1 DEF IInv, ControlOK, SignInv, FillInv, UsedInv, PartialsInv, Pending,
     Phases, Minimal

LEMMA PhaseEndsKeeps ==
  ASSUME IInv, pc = "protocol", PhaseEnds
  PROVE  ControlOK' /\ SignInv'
<1>i. ControlOK /\ FillInv /\ UsedInv /\ PartialsInv
  BY DEF IInv
<1>p. /\ pool \in Seq(3 .. 2 + Messages) /\ phase \in Nat /\ phase <= Phases
      /\ Phases \in Nat /\ Messages \in Nat /\ N \in Nat /\ N >= 2
  BY <1>i, DemosAssumption DEF ControlOK, Phases
<1>u. UNCHANGED <<demo, current, partials, issued, published>>
  BY DEF PhaseEnds
<1>n. current = 0 /\ published = {} /\ \A i \in Parties : issued[i] = {}
  BY <1>i DEF FillInv
<1>s. partials = <<>> /\ DOMAIN partials = {}
  BY <1>i, <1>n DEF PartialsInv
<1>1. ASSUME NEW q \in Seq(3 .. 2 + Messages), NEW x \in 3 .. 2 + Messages
      PROVE  /\ Append(q, x) \in Seq(3 .. 2 + Messages)
             /\ Len(q) \in Nat /\ DOMAIN q = 1 .. Len(q)
             /\ DOMAIN Append(q, x) = 1 .. Len(q) + 1
             /\ \A k \in 1 .. Len(q) : Append(q, x)[k] = q[k]
             /\ Append(q, x)[Len(q) + 1] = x
  OBVIOUS
<1>2. /\ pool' \in Seq(3 .. 2 + Messages)
      /\ \A a, b \in DOMAIN pool' : a < b => pool'[a] < pool'[b]
      /\ \A a \in DOMAIN pool' : pool'[a] <= phase /\ pool'[a] \in 3 .. 2 + Messages
  <2>1. CASE ~Minimal /\ phase > 2
    <3>1. phase \in 3 .. 2 + Messages /\ pool' = Append(pool, phase)
      BY <2>1, <1>p DEF PhaseEnds, Phases
    <3>2. \A a \in DOMAIN pool : pool[a] < phase /\ pool[a] \in 3 .. 2 + Messages
      BY <1>p, <1>i DEF FillInv
    <3>3. \A a, b \in DOMAIN pool : a < b => pool[a] < pool[b]
      BY <1>i DEF FillInv
    <3>4. QED
      BY <3>1, <3>2, <3>3, <1>1, <1>p
  <2>2. CASE ~(~Minimal /\ phase > 2)
    <3>1. pool' = pool
      BY <2>2 DEF PhaseEnds
    <3>2. QED
      BY <3>1, <1>p, <1>i DEF FillInv
  <2>3. QED
    BY <2>1, <2>2
<1>3. \/ pc' = pc /\ phase' = phase + 1 /\ phase < Phases
      \/ pc' \in {"sign", "ended"} /\ phase' = phase
  BY DEF PhaseEnds
<1>4. ControlOK'
  BY <1>i, <1>p, <1>u, <1>2, <1>3, DemosAssumption
     DEF ControlOK, PhaseEnds, Phases, Minimal, Parties
<1>5. FillInv'
  BY <1>p, <1>u, <1>n, <1>2, <1>3 DEF FillInv
<1>6. UsedInv'
  BY <1>p, <1>u, <1>n, <1>2 DEF UsedInv
<1>7. PartialsInv'
  BY <1>p, <1>u, <1>n, <1>s DEF PartialsInv
<1>8. QED
  BY <1>4, <1>5, <1>6, <1>7 DEF SignInv

LEMMA TakeSetKeeps ==
  ASSUME IInv, TakeSet
  PROVE  ControlOK' /\ SignInv'
<1>i. ControlOK /\ FillInv /\ UsedInv /\ PartialsInv
  BY DEF IInv
<1>p. /\ pool \in Seq(3 .. 2 + Messages) /\ pool # <<>> /\ Messages \in Nat
      /\ pc = "sign" /\ current = 0 /\ Cardinality(published) < Messages
      /\ UNCHANGED <<demo, pc, phase, collected, partials, issued, published>>
  BY <1>i, DemosAssumption DEF ControlOK, TakeSet
<1>1. /\ Len(pool) \in Nat /\ Len(pool) >= 1 /\ DOMAIN pool = 1 .. Len(pool)
      /\ Head(pool) = pool[1] /\ pool[1] \in 3 .. 2 + Messages
      /\ Tail(pool) \in Seq(3 .. 2 + Messages)
      /\ DOMAIN Tail(pool) = 1 .. Len(pool) - 1
      /\ \A a \in 1 .. Len(pool) - 1 : Tail(pool)[a] = pool[a + 1]
  BY <1>p
<1>2. current' = pool[1] /\ pool' = Tail(pool)
  BY <1>1 DEF TakeSet, AfterPopFront
<1>3. /\ \A a, b \in 1 .. Len(pool) : a < b => pool[a] < pool[b]
      /\ \A a \in 1 .. Len(pool) : pool[a] \in 3 .. 2 + Messages
  <2>1. \A a, b \in 1 .. Len(pool) : a < b => pool[a] < pool[b]
    BY <1>1, <1>i DEF FillInv
  <2>2. \A a \in 1 .. Len(pool) : pool[a] \in 3 .. 2 + Messages
    BY <1>1, <1>p, ElementOf
  <2>3. QED
    BY <2>1, <2>2
<1>s. partials = <<>> /\ DOMAIN partials = {} /\ Len(partials) = 0
  BY <1>i, <1>p DEF PartialsInv
<1>4. ControlOK'
  BY <1>i, <1>p, <1>1, <1>2 DEF ControlOK, Phases, Minimal
<1>5. FillInv'
  <2>1. DOMAIN pool' = 1 .. Len(pool) - 1
    BY <1>1, <1>2
  <2>2. \A a \in DOMAIN pool' : pool'[a] = pool[a + 1]
    BY <2>1, <1>1, <1>2
  <2>3. ASSUME NEW a \in DOMAIN pool', NEW b \in DOMAIN pool', a < b
        PROVE  pool'[a] < pool'[b]
    <3>1. a + 1 \in 1 .. Len(pool) /\ b + 1 \in 1 .. Len(pool) /\ a + 1 < b + 1
      BY <2>1, <2>3, <1>1
    <3>2. pool[a + 1] < pool[b + 1]
      BY <3>1, <1>3
    <3>3. QED
      BY <3>2, <2>2
  <2>4. pc' # "protocol"
    BY <1>p
  <2>5. QED
    BY <2>3, <2>4 DEF FillInv
<1>6. UsedInv'
  <2>1. /\ \A sig \in published : sig.set < pool[1]
        /\ \A i \in Parties : \A sig \in issued[i] : sig.set < pool[1]
    BY <1>i, <1>1 DEF UsedInv
  <2>2. \A a \in 1 .. Len(pool) - 1 :
          /\ pool[1] < pool[a + 1]
          /\ \A sig \in published : sig.set < pool[a + 1]
          /\ \A i \in Parties : \A sig \in issued[i] : sig.set < pool[a + 1]
    BY <1>i, <1>1, <1>3 DEF UsedInv
  <2>3. QED
    BY <2>1, <2>2, <1>1, <1>2, <1>p DEF UsedInv
<1>7. PartialsInv'
  BY <1>i, <1>p, <1>s DEF PartialsInv
<1>8. QED
  BY <1>4, <1>5, <1>6, <1>7 DEF SignInv

\* What IssueNext does: the next party issues its partial of the pending signature.
LEMMA IssueEffect ==
  ASSUME IInv, IssueNext
  PROVE  /\ current # 0 /\ Pending \in Sigs /\ Len(partials) \in Parties
         /\ partials' = Append(partials, Pending)
         /\ issued' = [issued EXCEPT ![Len(partials)] = @ \cup {Pending}]
         /\ UNCHANGED <<demo, pc, phase, collected, pool, current, published>>
<1>i. ControlOK /\ PartialsInv /\ N \in Nat /\ Messages \in Nat
  BY DemosAssumption DEF IInv
<1>1. current # 0 /\ Len(partials) < N /\ Len(partials) \in Nat
  BY <1>i DEF IssueNext, PartialsInv
<1>2. Cardinality(published) \in Nat /\ Cardinality(published) < Messages
  BY <1>i, <1>1, FS_CardinalityType DEF ControlOK, PartialsInv
<1>3. QED
  BY <1>i, <1>1, <1>2 DEF IssueNext, Pending, Sigs, Parties, ControlOK

LEMMA IssueNextKeeps ==
  ASSUME IInv, IssueNext
  PROVE  ControlOK' /\ SignInv'
<1>i. ControlOK /\ FillInv /\ UsedInv /\ PartialsInv /\ N \in Nat
  BY DemosAssumption DEF IInv
<1>e. /\ current # 0 /\ Pending \in Sigs /\ Len(partials) \in Parties
      /\ partials' = Append(partials, Pending)
      /\ issued' = [issued EXCEPT ![Len(partials)] = @ \cup {Pending}]
      /\ UNCHANGED <<demo, pc, phase, collected, pool, current, published>>
  BY IssueEffect
<1>1. /\ partials \in Seq(Sigs) /\ Len(partials) \in Nat /\ Len(partials) < N
      /\ DOMAIN partials = 1 .. Len(partials)
      /\ partials' \in Seq(Sigs) /\ Len(partials') = Len(partials) + 1
      /\ DOMAIN partials' = 1 .. Len(partials) + 1
      /\ partials'[Len(partials) + 1] = Pending
      /\ \A k \in 1 .. Len(partials) : partials'[k] = partials[k]
  BY <1>i, <1>e DEF PartialsInv, Parties
<1>2. /\ issued' \in [Parties -> SUBSET Sigs]
      /\ issued'[Len(partials)] = issued[Len(partials)] \cup {Pending}
      /\ \A i \in Parties : i # Len(partials) => issued'[i] = issued[i]
      /\ \A i \in Parties : issued[i] \subseteq issued'[i]
  BY <1>i, <1>e DEF ControlOK
<1>3. Pending' = Pending /\ Pending.set = current
  BY <1>e DEF Pending
<1>4. ControlOK'
  BY <1>i, <1>e, <1>2 DEF ControlOK, Phases, Minimal
<1>5. FillInv'
  BY <1>i, <1>e DEF FillInv
<1>6. UsedInv'
  <2>1. ASSUME NEW i \in Parties, NEW sig \in issued'[i]
        PROVE  /\ \A a \in DOMAIN pool : sig.set < pool[a]
               /\ sig.set < current \/ (sig.set = current /\ i < Len(partials) + 1)
    <3>1. CASE sig \in issued[i]
      <4>1. i \in Int
        BY <1>i DEF Parties
      <4>2. QED
        BY <3>1, <4>1, <1>i, <1>e, <1>1 DEF UsedInv
    <3>2. CASE sig \notin issued[i]
      <4>1. sig = Pending /\ i = Len(partials)
        BY <3>2, <2>1, <1>2
      <4>2. QED
        BY <4>1, <1>i, <1>1, <1>3 DEF UsedInv
    <3>3. QED
      BY <3>1, <3>2
  <2>2. QED
    BY <2>1, <1>i, <1>e, <1>1 DEF UsedInv
<1>7. PartialsInv'
  <2>1. ASSUME NEW k \in 1 .. Len(partials) + 1
        PROVE  partials'[k] = Pending /\ Pending \in issued'[k - 1]
    <3>1. CASE k = Len(partials) + 1
      BY <3>1, <1>1, <1>2
    <3>2. CASE k # Len(partials) + 1
      <4>1. k \in 1 .. Len(partials) /\ k - 1 \in Parties
        BY <3>2, <1>1, <1>i DEF Parties
      <4>2. QED
        BY <4>1, <1>i, <1>1, <1>2 DEF PartialsInv
    <3>3. QED
      BY <3>1, <3>2
  <2>2. QED
    BY <2>1, <1>i, <1>e, <1>1, <1>3 DEF PartialsInv
<1>8. QED
  BY <1>4, <1>5, <1>6, <1>7 DEF SignInv

\* What CombineAll does: it publishes the pending signature, that all have signed.
LEMMA CombineEffect ==
  ASSUME IInv, CombineAll
  PROVE  /\ current # 0 /\ Pending \in Sigs /\ Pending \notin published
         /\ \A i \in Parties : Pending \in issued[i]
         /\ published' = published \cup {Pending}
         /\ current' = 0 /\ partials' = <<>>
         /\ UNCHANGED <<demo, pc, phase, collected, pool, issued>>
<1>i. ControlOK /\ UsedInv /\ PartialsInv /\ N \in Nat /\ N >= 2
  BY DemosAssumption DEF IInv
<1>1. /\ current # 0 /\ Len(partials) = N /\ partials \in Seq(Sigs)
      /\ DOMAIN partials = 1 .. N
  BY <1>i DEF CombineAll, PartialsInv
<1>2. ASSUME NEW i \in Parties PROVE Pending \in issued[i]
  <2>1. i + 1 \in DOMAIN partials /\ (i + 1) - 1 = i
    BY <1>i, <1>1 DEF Parties
  <2>2. QED
    BY <2>1, <1>i DEF PartialsInv
<1>3. partials[1] = Pending /\ partials[1] \in Sigs
  BY <1>i, <1>1 DEF PartialsInv
<1>4. Pending \notin published
  BY <1>i, <1>1 DEF UsedInv, Pending, ControlOK
<1>5. QED
  BY <1>1, <1>2, <1>3, <1>4 DEF CombineAll

LEMMA CombineAllKeeps ==
  ASSUME IInv, CombineAll
  PROVE  ControlOK' /\ SignInv'
<1>i. ControlOK /\ FillInv /\ UsedInv /\ PartialsInv /\ N \in Nat /\ N >= 2
  BY DemosAssumption DEF IInv
<1>e. /\ current # 0 /\ Pending \in Sigs /\ Pending \notin published
      /\ \A i \in Parties : Pending \in issued[i]
      /\ published' = published \cup {Pending}
      /\ current' = 0 /\ partials' = <<>>
      /\ UNCHANGED <<demo, pc, phase, collected, pool, issued>>
  BY CombineEffect
<1>1. /\ IsFiniteSet(published') /\ Cardinality(published) \in Nat
      /\ Cardinality(published') = Cardinality(published) + 1
  BY <1>i, <1>e, FS_AddElement, FS_CardinalityType DEF ControlOK
<1>2. Cardinality(published) < Messages /\ Messages \in Nat
  BY <1>i, <1>e, DemosAssumption DEF PartialsInv
<1>3. published' \subseteq Sigs /\ Pending.set = current
  BY <1>i, <1>e DEF ControlOK, Pending
<1>s. /\ DOMAIN <<>> = {} /\ Len(<<>>) = 0 /\ <<>> \in Seq(Sigs)
  OBVIOUS
<1>4. ControlOK'
  BY <1>i, <1>e, <1>1, <1>2, <1>3 DEF ControlOK, Phases, Minimal
<1>5. FillInv'
  BY <1>i, <1>e DEF FillInv
<1>6. UsedInv'
  <2>1. ASSUME NEW a \in DOMAIN pool
        PROVE  /\ 0 < pool[a]
               /\ \A sig \in published' : sig.set < pool[a]
               /\ \A i \in Parties : \A sig \in issued[i] : sig.set < pool[a]
    <3>1. pool[a] \in 3 .. 2 + Messages
      BY <1>i, ElementOf DEF ControlOK
    <3>2. QED
      BY <3>1, <1>i, <1>e, <1>2, <1>3 DEF UsedInv
  <2>2. QED
    BY <2>1, <1>e DEF UsedInv
<1>7. PartialsInv'
  BY <1>i, <1>e, <1>s DEF PartialsInv
<1>8. QED
  BY <1>4, <1>5, <1>6, <1>7 DEF SignInv

LEMMA MainKeeps ==
  ASSUME IInv, Main
  PROVE  ControlOK' /\ SignInv'
<1>i. ControlOK /\ SignInv /\ N \in Nat /\ N >= 2
  BY DemosAssumption DEF IInv, SignInv
<1>1. ASSUME pc' \in {"protocol", "sign", "ended", "error"},
             pc' = "protocol" => pc = "protocol", collected' \in Parties,
             UNCHANGED <<demo, phase, signVars>>
      PROVE  ControlOK' /\ SignInv'
  BY <1>i, <1>1 DEF ControlOK, SignInv, FillInv, UsedInv, PartialsInv, Pending,
     Phases, Minimal
<1>2. CASE pc = "protocol" /\ PhaseEnds
  BY <1>2, PhaseEndsKeeps
<1>3. CASE Aborts
  BY <1>3, <1>1, <1>i DEF Aborts, ControlOK
<1>4. CASE JoinAll
  BY <1>4, <1>2, <1>3 DEF JoinAll
<1>5. CASE CollectNext
  <2>1. CASE collected < N - 1 /\ stage[collected] = "done"
    <3>1. collected' = collected + 1 /\ UNCHANGED <<demo, pc, phase, signVars>>
      BY <1>5, <2>1 DEF CollectNext
    <3>2. collected' \in Parties
      BY <2>1, <3>1, <1>i DEF ControlOK, Parties
    <3>3. QED
      BY <3>1, <3>2, <1>1, <1>i DEF ControlOK
  <2>2. QED
    BY <1>5, <2>1, <1>2, <1>3 DEF CollectNext
<1>6. CASE Done
  BY <1>6, <1>1, <1>i DEF Done, ControlOK
<1>7. QED
  BY <1>4, <1>5, <1>6, TakeSetKeeps, IssueNextKeeps, CombineAllKeeps DEF Main

-----------------------------------------------------------------------------

\* The network of the running protocol keeps the invariant of Execution_proofs, and
\* whatever was signed used sets that are older than those left in the pool.
THEOREM IInvHolds == Spec => []IInv
<1>1. ASSUME IInv, [Next]_vars PROVE IInv'
  <2>1. CASE UNCHANGED vars
    <3>1. ControlOK' /\ FillInv' /\ UsedInv' /\ PartialsInv'
      BY <1>1, <2>1 DEF vars, IInv, ControlOK, FillInv, UsedInv, PartialsInv,
         Pending, Phases, Minimal
    <3>2. QED
      BY <1>1, <3>1, NetKeeps DEF IInv
  <2>2. CASE Next
    <3>1. ControlOK' /\ SignInv'
      BY <1>1, <2>2, MainKeeps, TaskKeeps DEF Next
    <3>2. QED
      BY <1>1, <3>1, NetKeeps DEF IInv, SignInv
  <2>3. QED
    BY <1>1, <2>1, <2>2
<1>2. QED
  BY InitIInv, <1>1, PTL DEF Spec

\* The variables of Demos keep their types.
THEOREM TypeCorrect == Spec => []TypeOK
<1>1. IInv => TypeOK
  BY NetNames DEF IInv, ControlOK, NetInv, Net!NetworkInv, TypeOK
<1>2. QED
  BY IInvHolds, <1>1, PTL

\* A message is never sent to an inbox its owner dropped because it was done.
THEOREM NoDroppedInbox == Spec => []NoSendToDroppedInbox
<1>1. ASSUME IInv PROVE NoSendToDroppedInbox
  <2>1. X!Failed = {i \in Parties : stage[i] = "failed"}
    BY DEF X!Failed, X!Parties, Parties
  <2>2. /\ stage \in [Parties -> {"idle", "running", "done", "failed"}]
        /\ todo \in [Parties -> SUBSET Parties]
    BY <1>1, NetNames DEF IInv, NetInv, Net!NetworkInv, Net!TypeOK
  <2>3. ASSUME NEW i \in Parties, NEW j \in todo[i] PROVE stage[j] # "done"
    BY <1>1, <2>2, NetNames, NetParameters, Net!NothingForDone DEF IInv, NetInv
  <2>4. QED
    BY <2>1, <2>2, <2>3 DEF NoSendToDroppedInbox, Open
<1>2. QED
  BY IInvHolds, <1>1, PTL

-----------------------------------------------------------------------------

\* Signing from the pool implements OneTimeSigning: the party whose turn it is
\* issues, CombineAll publishes, and no other step issues or publishes.
THEOREM KeepsPromise == Spec => PoolKeepsPromise
<1>1. Init => Promise!Init
  BY DEF Init, Promise!Init
<1>2. ASSUME IInv, [Next]_vars PROVE [Promise!Next]_Promise!vars
  <2>i. ControlOK /\ UsedInv
    BY <1>2 DEF IInv
  <2>1. CASE IssueNext
    <3>1. /\ current # 0 /\ Pending \in Sigs /\ Len(partials) \in Parties
          /\ issued' = [issued EXCEPT ![Len(partials)] = @ \cup {Pending}]
          /\ UNCHANGED published
      BY <1>2, <2>1, IssueEffect
    <3>2. PICK s \in 3 .. 2 + Messages, p \in 1 .. Messages :
            Pending = [set |-> s, payload |-> p] /\ s = current
      BY <3>1 DEF Pending, Sigs
    <3>3. PICK i \in Parties : i = Len(partials)
      BY <3>1
    <3>4. \A sig \in issued[i] : sig.set # s
      BY <3>1, <3>2, <3>3, <2>i DEF UsedInv, ControlOK, Sigs, Parties
    <3>5. Promise!Issue(i, s, p)
      BY <3>1, <3>2, <3>3, <3>4 DEF Promise!Issue, Promise!Sig
    <3>6. QED
      BY <3>5 DEF Promise!Next
  <2>2. CASE CombineAll
    <3>1. /\ current # 0 /\ Pending \in Sigs
          /\ \A i \in Parties : Pending \in issued[i]
          /\ published' = published \cup {Pending} /\ UNCHANGED issued
      BY <1>2, <2>2, CombineEffect
    <3>2. PICK s \in 3 .. 2 + Messages, p \in 1 .. Messages :
            Pending = [set |-> s, payload |-> p] /\ s = current
      BY <3>1 DEF Pending, Sigs
    <3>3. \A sig \in published : sig.set # s
      BY <3>1, <3>2, <2>i DEF UsedInv, ControlOK, Sigs
    <3>4. Promise!Publish(s, p)
      BY <3>1, <3>2, <3>3 DEF Promise!Publish, Promise!Sig
    <3>5. QED
      BY <3>4 DEF Promise!Next
  <2>3. CASE UNCHANGED <<issued, published>>
    BY <2>3 DEF Promise!vars
  <2>4. IssueNext \/ CombineAll \/ UNCHANGED <<issued, published>>
    BY <1>2 DEF Next, Main, Task, ProtocolFails, JoinAll, CollectNext, PhaseEnds,
       Aborts, TakeSet, Done, vars
  <2>5. QED
    BY <2>1, <2>2, <2>3, <2>4
<1>3. QED
  BY IInvHolds, <1>1, <1>2, PTL DEF Spec, PoolKeepsPromise, Promise!Spec
=============================================================================
