-------------------------- MODULE Execution_proofs --------------------------
(***************************************************************************)
(* Facts about one run of a protocol over an in-memory network, for every  *)
(* number of parties and every sequence of rounds, whoever hears his own   *)
(* broadcasts, fails or drops his inbox.  PartyTasks_proofs and            *)
(* Demos_proofs cite them for their networks.                              *)
(***************************************************************************)
EXTENDS Execution, FiniteSetTheorems, TLAPS

Parameters ==
  /\ N \in Nat /\ N >= 2
  /\ Plan \in Seq({"AllParties", "OneParty"}) /\ Plan # <<>>

-----------------------------------------------------------------------------
(* The invariant of a network *)

TaskInv ==
  \A i \in Parties :
    /\ stage[i] = "idle" <=> round[i] = 0
    /\ stage[i] = "done" => /\ todo[i] = {}
                            /\ round[i] = Len(Plan)
                            /\ Complete(i)

\* The sender of m has sent it to i.
Sent(m, i) ==
  /\ m.round <= round[m.from]
  /\ m.round = round[m.from] => i \notin todo[m.from]

\* An inbox holds no message twice, and none that was accepted before.
MessageInv ==
  \A i \in Parties :
    /\ \A m \in got[i] : m.from # i /\ Sent(m, i)
    /\ \A k \in DOMAIN inbox[i] :
         Sent(inbox[i][k], i) /\ inbox[i][k] \notin got[i]
    /\ \A k, l \in DOMAIN inbox[i] : inbox[i][k] = inbox[i][l] => k = l

\* The rounds a party has left were complete.
HistoryInv ==
  \A i, j \in Parties : j # i =>
    \A r \in 1 .. round[i] - 1 : [from |-> j, round |-> r] \in got[i]

NetworkInv == TypeOK /\ TaskInv /\ MessageInv /\ HistoryInv

\* In a network that does not echo broadcasts nobody writes to himself.
NoEcho ==
  \A i \in Parties :
    i \notin todo[i] /\ \A k \in DOMAIN inbox[i] : inbox[i][k].from # i

\* A task stops with an error, whether the protocol returned it or a send.
Stops(i) ==
  /\ stage[i] = "running"
  /\ stage' = [stage EXCEPT ![i] = "failed"]
  /\ UNCHANGED <<inbox, round, todo, got>>

Step(i, open, echo) ==
  \/ Start(i, echo) \/ Deliver(i, open) \/ Receive(i) \/ NextRound(i, echo)
  \/ Finish(i) \/ Stops(i)

-----------------------------------------------------------------------------

LEMMA PlanLength ==
  ASSUME Parameters
  PROVE  Len(Plan) \in Nat /\ Len(Plan) >= 1 /\ DOMAIN Plan = 1 .. Len(Plan)
<1>1. Plan \in Seq({"AllParties", "OneParty"}) /\ Plan # <<>>
  BY DEF Parameters
<1>2. QED
  BY <1>1

LEMMA MessageFields ==
  ASSUME Parameters, NEW m \in Message
  PROVE  /\ m.from \in Parties /\ m.round \in 1 .. Len(Plan)
         /\ m = [from |-> m.from, round |-> m.round]
  BY PlanLength DEF Message

LEMMA NetworkInit == Parameters /\ Init => NetworkInv /\ NoEcho
<1> SUFFICES ASSUME Parameters, Init PROVE NetworkInv /\ NoEcho
  OBVIOUS
<1>1. <<>> \in Seq(Message) /\ DOMAIN <<>> = {}
  OBVIOUS
<1>2. TypeOK
  BY <1>1, PlanLength DEF Init, TypeOK
<1>3. TaskInv /\ MessageInv /\ HistoryInv /\ NoEcho
  BY <1>1 DEF Init, TaskInv, MessageInv, HistoryInv, NoEcho
<1>4. QED
  BY <1>2, <1>3 DEF NetworkInv

LEMMA NetworkFresh == Parameters /\ Fresh => NetworkInv' /\ NoEcho'
<1> SUFFICES ASSUME Parameters, Fresh PROVE NetworkInv' /\ NoEcho'
  OBVIOUS
<1>1. <<>> \in Seq(Message) /\ DOMAIN <<>> = {}
  OBVIOUS
<1>2. TypeOK'
  BY <1>1, PlanLength DEF Fresh, TypeOK, Message
<1>3. TaskInv' /\ MessageInv' /\ HistoryInv' /\ NoEcho'
  BY <1>1 DEF Fresh, TaskInv, MessageInv, HistoryInv, NoEcho
<1>4. QED
  BY <1>2, <1>3 DEF NetworkInv

-----------------------------------------------------------------------------
(* What a step changes *)

\* A task that receives takes the next message of its inbox, accepts it unless it
\* is its own broadcast, and never finds a second one of a sender and round.
LEMMA ReceiveEffect ==
  ASSUME Parameters, NetworkInv, NEW i \in Parties, Receive(i)
  PROVE  LET m == inbox[i][1]
         IN  /\ stage[i] = "running" /\ 1 \in DOMAIN inbox[i] /\ m \in Message
             /\ inbox' = [inbox EXCEPT ![i] = Tail(@)]
             /\ got' \in [Parties -> SUBSET Message]
             /\ \A j \in Parties : j # i => got'[j] = got[j]
             /\ got'[i] = got[i] \/ (m.from # i /\ got'[i] = got[i] \cup {m})
             /\ UNCHANGED <<stage, round, todo>>
<1> DEFINE m == inbox[i][1]
<1>1. /\ inbox[i] \in Seq(Message) /\ inbox[i] # <<>>
      /\ stage \in [Parties -> {"idle", "running", "done", "failed"}]
      /\ got \in [Parties -> SUBSET Message] /\ round[i] \in 0 .. Len(Plan)
  BY DEF Receive, NetworkInv, TypeOK
<1>2. 1 \in DOMAIN inbox[i] /\ m \in Message /\ Head(inbox[i]) = m
  BY <1>1
<1>3. m \notin got[i]
  BY <1>2 DEF NetworkInv, MessageInv
<1>4. m.from # i => ~(m.round < round[i])
  <2>1. SUFFICES ASSUME m.from # i, m.round < round[i] PROVE FALSE
    OBVIOUS
  <2>2. /\ m.from \in Parties /\ m.round \in 1 .. round[i] - 1
        /\ m = [from |-> m.from, round |-> m.round]
    BY <2>1, <1>1, <1>2, MessageFields, PlanLength
  <2>3. [from |-> m.from, round |-> m.round] \in got[i]
    BY <2>1, <2>2 DEF NetworkInv, HistoryInv
  <2>4. QED
    BY <2>2, <2>3, <1>3
<1>5. stage' = [stage EXCEPT ![i] = @]
  BY <1>2, <1>3 DEF Receive
<1>6. stage' = stage
  BY <1>1, <1>5
<1>7. CASE m.from = i
  <2>1. got' = [got EXCEPT ![i] = @]
    BY <1>2, <1>7 DEF Receive
  <2>2. got' = got
    BY <2>1, <1>1
  <2>3. QED
    BY <2>2, <1>1, <1>2, <1>6 DEF Receive, Receives
<1>8. CASE m.from # i
  <2>1. got' = [got EXCEPT ![i] = @ \cup {m}]
    BY <1>2, <1>4, <1>8 DEF Receive
  <2>2. /\ got' \in [Parties -> SUBSET Message] /\ got'[i] = got[i] \cup {m}
        /\ \A j \in Parties : j # i => got'[j] = got[j]
    BY <2>1, <1>1, <1>2
  <2>3. QED
    BY <2>2, <1>1, <1>2, <1>6, <1>8 DEF Receive, Receives
<1>9. QED
  BY <1>7, <1>8

LEMMA EnterRoundType ==
  ASSUME Parameters, TypeOK, NEW i \in Parties, NEW r \in 1 .. Len(Plan),
         NEW echo, EnterRound(i, r, echo)
  PROVE  /\ round' \in [Parties -> 0 .. Len(Plan)] /\ round'[i] = r
         /\ todo' \in [Parties -> SUBSET Parties]
         /\ \A j \in Parties \ {i} : round'[j] = round[j] /\ todo'[j] = todo[j]
  BY PlanLength DEF EnterRound, Recipients, TypeOK

LEMMA TypeStep ==
  ASSUME Parameters, NetworkInv, NEW i \in Parties, NEW open, NEW echo,
         Step(i, open, echo)
  PROVE  TypeOK'
<1>i. TypeOK /\ Len(Plan) \in Nat /\ Len(Plan) >= 1
  BY PlanLength DEF NetworkInv
<1>1. CASE Start(i, echo)
  BY <1>1, <1>i, EnterRoundType DEF Start, TypeOK
<1>2. CASE Deliver(i, open)
  <2>1. PICK to \in todo[i] :
          /\ inbox' = IF to \in open
                        THEN [inbox EXCEPT ![to] =
                                Append(@, [from |-> i, round |-> round[i]])]
                        ELSE inbox
          /\ Sends(i, to)
          /\ todo' = [todo EXCEPT ![i] = @ \ {to}]
          /\ UNCHANGED <<stage, round, got>>
    BY <1>2 DEF Deliver
  <2>2. round[i] \in 1 .. Len(Plan)
    BY <2>1, <1>i DEF Sends, NetworkInv, TaskInv, TypeOK
  <2>3. [from |-> i, round |-> round[i]] \in Message
    BY <2>2, PlanLength DEF Message
  <2>4. to \in Parties
    BY <1>i DEF TypeOK
  <2>5. inbox' \in [Parties -> Seq(Message)]
    BY <2>1, <2>3, <2>4, <1>i DEF TypeOK
  <2>6. QED
    BY <2>1, <2>5, <1>i DEF TypeOK
<1>3. CASE Receive(i)
  <2>1. inbox[i] \in Seq(Message) /\ inbox[i] # <<>>
    BY <1>3, <1>i DEF Receive, TypeOK
  <2>2. Tail(inbox[i]) \in Seq(Message)
    BY <2>1
  <2>3. /\ inbox' = [inbox EXCEPT ![i] = Tail(@)] /\ got' \in [Parties -> SUBSET Message]
        /\ UNCHANGED <<stage, round, todo>>
    BY <1>3, ReceiveEffect
  <2>4. QED
    BY <2>2, <2>3, <1>i DEF TypeOK
<1>4. CASE NextRound(i, echo)
  <2>1. round[i] + 1 \in 1 .. Len(Plan)
    BY <1>4, <1>i DEF NextRound, TypeOK
  <2>2. QED
    BY <1>4, <2>1, <1>i, EnterRoundType DEF NextRound, TypeOK
<1>5. CASE Finish(i) \/ Stops(i)
  BY <1>5, <1>i DEF Finish, Stops, TypeOK
<1>6. QED
  BY <1>1, <1>2, <1>3, <1>4, <1>5 DEF Step

\* What was sent stays sent.
LEMMA SentStays ==
  ASSUME Parameters, NetworkInv, NEW i \in Parties, NEW open, NEW echo,
         Step(i, open, echo), NEW j \in Parties, NEW m \in Message, Sent(m, j)
  PROVE  Sent(m, j)'
<1>i. /\ TypeOK /\ TaskInv /\ m.from \in Parties /\ m.round \in 1 .. Len(Plan)
      /\ Len(Plan) \in Nat /\ round[m.from] \in Nat
  BY PlanLength, MessageFields DEF NetworkInv, TypeOK
<1>1. CASE Start(i, echo)
  <2>1. /\ round[i] = 0 /\ 1 \in 1 .. Len(Plan) /\ EnterRound(i, 1, echo)
    BY <1>1, PlanLength, <1>i DEF Start, TaskInv
  <2>2. m.from # i
    BY <2>1, <1>i DEF Sent
  <2>3. round'[m.from] = round[m.from] /\ todo'[m.from] = todo[m.from]
    BY <2>1, <2>2, <1>i, EnterRoundType
  <2>4. QED
    BY <2>3 DEF Sent
<1>2. CASE Deliver(i, open)
  <2>1. UNCHANGED round /\ \A k \in Parties : todo'[k] \subseteq todo[k]
    BY <1>2, <1>i DEF Deliver, TypeOK
  <2>2. QED
    BY <2>1, <1>i DEF Sent
<1>3. CASE NextRound(i, echo)
  <2>1. /\ round[i] + 1 \in 1 .. Len(Plan) /\ EnterRound(i, round[i] + 1, echo)
    BY <1>3, <1>i DEF NextRound, TypeOK
  <2>2. CASE m.from = i
    BY <2>1, <2>2, <1>i, EnterRoundType DEF Sent
  <2>3. CASE m.from # i
    <3>1. round'[m.from] = round[m.from] /\ todo'[m.from] = todo[m.from]
      BY <2>1, <2>3, <1>i, EnterRoundType
    <3>2. QED
      BY <3>1 DEF Sent
  <2>4. QED
    BY <2>2, <2>3
<1>4. CASE Receive(i) \/ Finish(i) \/ Stops(i)
  BY <1>4 DEF Receive, Finish, Stops, Sent
<1>5. QED
  BY <1>1, <1>2, <1>3, <1>4 DEF Step

LEMMA MessageStep ==
  ASSUME Parameters, NetworkInv, NEW i \in Parties, NEW open, NEW echo,
         Step(i, open, echo)
  PROVE  MessageInv'
<1>i. /\ TypeOK /\ MessageInv /\ TaskInv /\ TypeOK'
  BY TypeStep DEF NetworkInv
<1>t. \A j \in Parties :
        /\ inbox[j] \in Seq(Message) /\ got[j] \subseteq Message
        /\ \A k \in DOMAIN inbox[j] : inbox[j][k] \in Message
  BY <1>i DEF TypeOK
<1>s. \A j \in Parties : \A m \in Message : Sent(m, j) => Sent(m, j)'
  BY SentStays
<1>1. CASE UNCHANGED <<inbox, got>>
  BY <1>1, <1>i, <1>t, <1>s DEF MessageInv
<1>2. ASSUME NEW to \in todo[i], to \in open, Sends(i, to),
             inbox' = [inbox EXCEPT ![to] =
                         Append(@, [from |-> i, round |-> round[i]])],
             todo' = [todo EXCEPT ![i] = @ \ {to}],
             UNCHANGED <<stage, round, got>>
      PROVE  MessageInv'
  <2> DEFINE new == [from |-> i, round |-> round[i]]
  <2>1. to \in Parties /\ new \in Message /\ i \in Parties
    <3>1. round[i] \in 1 .. Len(Plan)
      BY <1>2, <1>i, PlanLength DEF Sends, TaskInv, TypeOK
    <3>2. QED
      BY <3>1, PlanLength, <1>i DEF Message, TypeOK
  <2>2. ~Sent(new, to)
    BY <1>2 DEF Sent
  <2>3. \A m \in Message : m = new => Sent(m, to)'
    <3>1. to \notin todo'[i] /\ round'[i] = round[i] /\ round[i] \in Nat
      BY <1>2, <1>i DEF TypeOK
    <3>2. QED
      BY <3>1 DEF Sent
  <2>4. new \notin got[to] /\ \A k \in DOMAIN inbox[to] : inbox[to][k] # new
    BY <2>1, <2>2, <1>i DEF MessageInv
  <2>5. \A j \in Parties : j # to => inbox'[j] = inbox[j]
    BY <1>2, <1>i DEF TypeOK
  <2>6. inbox'[to] = Append(inbox[to], new)
    BY <1>2, <2>1, <1>i DEF TypeOK
  <2>7. \A k \in DOMAIN inbox'[to] :
          \/ k \in DOMAIN inbox[to] /\ inbox'[to][k] = inbox[to][k]
          \/ k = Len(inbox[to]) + 1 /\ inbox'[to][k] = new
    <3>1. \A q \in Seq(Message) : \A k \in DOMAIN Append(q, new) :
            \/ k \in DOMAIN q /\ Append(q, new)[k] = q[k]
            \/ k = Len(q) + 1 /\ Append(q, new)[k] = new
      BY <2>1
    <3>2. QED
      BY <2>1, <2>6, <3>1, <1>t
  <2>8. \A m \in Message : Sent(m, to) \/ m = new => Sent(m, to)'
    BY <2>1, <2>3, <1>s
  <2>9. \A k \in DOMAIN inbox'[to] :
          /\ inbox'[to][k] \in Message /\ inbox'[to][k] \notin got[to]
          /\ Sent(inbox'[to][k], to) \/ inbox'[to][k] = new
    BY <2>1, <2>4, <2>7, <1>i, <1>t DEF MessageInv
  <2>10. \A k, l \in DOMAIN inbox'[to] : inbox'[to][k] = inbox'[to][l] => k = l
    BY <2>1, <2>4, <2>7, <1>i DEF MessageInv
  <2>11. ASSUME NEW j \in Parties
         PROVE  /\ \A m \in got[j] : m.from # j /\ Sent(m, j)'
                /\ \A m \in Message, k \in DOMAIN inbox'[j] :
                     m = inbox'[j][k] => Sent(m, j)' /\ m \notin got[j]
                /\ \A k, l \in DOMAIN inbox'[j] : inbox'[j][k] = inbox'[j][l] => k = l
    <3>1. \A m \in got[j] : m.from # j /\ Sent(m, j)'
      BY <1>i, <1>t, <1>s DEF MessageInv
    <3>2. CASE j = to
      BY <3>1, <3>2, <2>8, <2>9, <2>10
    <3>3. CASE j # to
      BY <3>1, <3>3, <2>5, <1>i, <1>s DEF MessageInv
    <3>4. QED
      BY <3>2, <3>3
  <2>12. \A j \in Parties : \A k \in DOMAIN inbox'[j] : inbox'[j][k] \in Message
    BY <1>i DEF TypeOK
  <2>13. QED
    BY <1>2, <2>11, <2>12 DEF MessageInv, Sent
<1>3. ASSUME Deliver(i, open) PROVE MessageInv'
  BY <1>1, <1>2, <1>3, <1>i DEF Deliver, TypeOK
<1>4. ASSUME Receive(i) PROVE MessageInv'
  <2> DEFINE m == inbox[i][1]
  <2>1. /\ 1 \in DOMAIN inbox[i] /\ m \in Message /\ m \notin got[i]
        /\ inbox' = [inbox EXCEPT ![i] = Tail(@)]
        /\ UNCHANGED <<stage, round, todo>>
        /\ \A j \in Parties : j # i => got'[j] = got[j]
        /\ got'[i] = got[i] \/ (m.from # i /\ got'[i] = got[i] \cup {m})
    BY <1>4, <1>i, ReceiveEffect DEF MessageInv
  <2>2. /\ \A j \in Parties : j # i => inbox'[j] = inbox[j] /\ got'[j] = got[j]
        /\ inbox'[i] = Tail(inbox[i])
        /\ \A x \in got'[i] : x \in got[i] \/ (x = m /\ x.from # i)
    BY <2>1, <1>i DEF TypeOK
  <2>3. \A k \in DOMAIN Tail(inbox[i]) :
          /\ k + 1 \in DOMAIN inbox[i] /\ Tail(inbox[i])[k] = inbox[i][k + 1]
          /\ k \in Nat \ {0}
    <3>1. inbox[i] \in Seq(Message) /\ inbox[i] # <<>>
      BY <1>4, <1>t DEF Receive
    <3>2. QED
      BY <3>1
  <2>4. \A x, j : Sent(x, j)' = Sent(x, j)
    BY <2>1 DEF Sent
  <2>5. ASSUME NEW k \in DOMAIN inbox'[i]
        PROVE  inbox'[i][k] \notin got'[i] /\ inbox'[i][k] = inbox[i][k + 1]
    <3>1. /\ k + 1 \in DOMAIN inbox[i] /\ inbox'[i][k] = inbox[i][k + 1]
          /\ k + 1 # 1
      BY <2>2, <2>3
    <3>2. inbox[i][k + 1] \notin got[i] /\ inbox[i][k + 1] # m
      BY <3>1, <2>1, <1>i DEF MessageInv
    <3>3. QED
      BY <3>1, <3>2, <2>1
  <2>6. \A k, l \in DOMAIN inbox'[i] : inbox'[i][k] = inbox'[i][l] => k = l
    BY <2>2, <2>3, <1>i DEF MessageInv
  <2>7. ASSUME NEW j \in Parties
        PROVE  /\ \A x \in got'[j] : x.from # j /\ Sent(x, j)
               /\ \A k \in DOMAIN inbox'[j] :
                    Sent(inbox'[j][k], j) /\ inbox'[j][k] \notin got'[j]
               /\ \A k, l \in DOMAIN inbox'[j] : inbox'[j][k] = inbox'[j][l] => k = l
    <3>1. CASE j = i
      BY <3>1, <2>1, <2>2, <2>3, <2>5, <2>6, <1>i DEF MessageInv
    <3>2. CASE j # i
      BY <3>2, <2>2, <1>i DEF MessageInv
    <3>3. QED
      BY <3>1, <3>2
  <2>8. QED
    BY <2>1, <2>7 DEF MessageInv, Sent
<1>5. CASE Start(i, echo) \/ NextRound(i, echo) \/ Finish(i) \/ Stops(i)
  BY <1>1, <1>5 DEF Start, NextRound, Finish, Stops
<1>6. QED
  BY <1>3, <1>4, <1>5 DEF Step

LEMMA HistoryStep ==
  ASSUME Parameters, NetworkInv, NEW i \in Parties, NEW open, NEW echo,
         Step(i, open, echo)
  PROVE  HistoryInv'
<1>i. TypeOK /\ HistoryInv /\ TaskInv
  BY DEF NetworkInv
<1>g. \A j \in Parties : got[j] \subseteq got'[j]
  <2>1. ASSUME Receive(i), NEW j \in Parties PROVE got[j] \subseteq got'[j]
    BY <2>1, ReceiveEffect
  <2>2. QED
    BY <2>1 DEF Step, Start, Deliver, NextRound, Finish, Stops
<1>1. CASE UNCHANGED round
  BY <1>1, <1>g, <1>i DEF HistoryInv
<1>2. CASE Start(i, echo)
  <2>1. 1 \in 1 .. Len(Plan) /\ EnterRound(i, 1, echo)
    BY <1>2, PlanLength DEF Start
  <2>2. round'[i] = 1 /\ \A j \in Parties : j # i => round'[j] = round[j]
    BY <2>1, <1>i, EnterRoundType
  <2>3. QED
    BY <2>2, <1>g, <1>i DEF HistoryInv
<1>3. CASE NextRound(i, echo)
  <2>1. /\ round[i] + 1 \in 1 .. Len(Plan) /\ EnterRound(i, round[i] + 1, echo)
        /\ Complete(i) /\ round[i] \in Nat
    BY <1>3, <1>i, PlanLength DEF NextRound, TypeOK
  <2>2. round'[i] = round[i] + 1 /\ \A j \in Parties : j # i => round'[j] = round[j]
    BY <2>1, <1>i, EnterRoundType
  <2>3. ASSUME NEW j \in Parties, j # i, NEW r \in 1 .. round[i]
        PROVE  [from |-> j, round |-> r] \in got[i]
    <3>1. CASE r = round[i]
      BY <3>1, <2>1, <2>3 DEF Complete
    <3>2. CASE r # round[i]
      BY <3>2, <2>1, <2>3, <1>i DEF HistoryInv
    <3>3. QED
      BY <3>1, <3>2
  <2>4. QED
    BY <2>1, <2>2, <2>3, <1>g, <1>i DEF HistoryInv
<1>4. QED
  BY <1>1, <1>2, <1>3 DEF Step, Deliver, Receive, Finish, Stops

LEMMA TaskStep ==
  ASSUME Parameters, NetworkInv, NEW i \in Parties, NEW open, NEW echo,
         Step(i, open, echo)
  PROVE  TaskInv'
<1>i. TypeOK /\ TaskInv
  BY DEF NetworkInv
\* The other tasks.
<1>1. ASSUME NEW j \in Parties, j # i, round'[j] = round[j], todo'[j] = todo[j],
             stage'[j] = stage[j], got'[j] = got[j]
      PROVE  /\ stage'[j] = "idle" <=> round'[j] = 0
             /\ stage'[j] = "done" => /\ todo'[j] = {} /\ round'[j] = Len(Plan)
                                      /\ Complete(j)'
  BY <1>1, <1>i DEF TaskInv, Complete
<1>2. CASE Start(i, echo)
  <2>1. 1 \in 1 .. Len(Plan) /\ EnterRound(i, 1, echo)
    BY <1>2, PlanLength DEF Start
  <2>2. QED
    BY <1>1, <1>2, <2>1, <1>i, EnterRoundType DEF Start, TaskInv, TypeOK
<1>3. CASE NextRound(i, echo)
  <2>1. /\ round[i] + 1 \in 1 .. Len(Plan) /\ EnterRound(i, round[i] + 1, echo)
        /\ stage[i] = "running" /\ round[i] \in Nat
    BY <1>3, <1>i, PlanLength DEF NextRound, Receives, TypeOK
  <2>2. QED
    BY <1>1, <1>3, <2>1, <1>i, EnterRoundType DEF NextRound, TaskInv, TypeOK
<1>4. CASE Deliver(i, open)
  <2>1. /\ UNCHANGED <<round, stage, got>> /\ stage[i] = "running"
        /\ \A j \in Parties : j # i => todo'[j] = todo[j]
    BY <1>4, <1>i DEF Deliver, Sends, TypeOK
  <2>2. QED
    BY <1>1, <2>1, <1>i DEF TaskInv
<1>5. CASE Receive(i)
  <2>1. /\ UNCHANGED <<round, stage, todo>> /\ stage[i] = "running"
        /\ \A j \in Parties : j # i => got'[j] = got[j]
    BY <1>5, ReceiveEffect
  <2>2. QED
    BY <1>1, <2>1, <1>i DEF TaskInv
<1>6. CASE Finish(i)
  <2>1. /\ Complete(i) /\ todo[i] = {} /\ round[i] = Len(Plan) /\ stage'[i] = "done"
        /\ UNCHANGED <<round, todo, got>> /\ stage[i] = "running"
        /\ \A j \in Parties : j # i => stage'[j] = stage[j]
    BY <1>6, <1>i DEF Finish, Receives, TypeOK
  <2>2. Complete(i)'
    BY <2>1 DEF Complete
  <2>3. QED
    BY <1>1, <2>1, <2>2, <1>i DEF TaskInv
<1>7. CASE Stops(i)
  <2>1. /\ UNCHANGED <<round, todo, got>> /\ stage[i] = "running" /\ stage'[i] = "failed"
        /\ \A j \in Parties : j # i => stage'[j] = stage[j]
    BY <1>7, <1>i DEF Stops, TypeOK
  <2>2. QED
    BY <1>1, <2>1, <1>i DEF TaskInv
<1>8. QED
  BY <1>2, <1>3, <1>4, <1>5, <1>6, <1>7 DEF Step

\* Every step of a task, in a network of any kind, keeps the invariant.
LEMMA NetworkStep ==
  ASSUME Parameters, NetworkInv, NEW i \in Parties, NEW open, NEW echo,
         Step(i, open, echo)
  PROVE  NetworkInv'
  BY TypeStep, TaskStep, MessageStep, HistoryStep DEF NetworkInv

\* A party that is done stays done.
LEMMA DoneStays ==
  ASSUME Parameters, NetworkInv, NEW i \in Parties, NEW open, NEW echo,
         Step(i, open, echo), NEW j \in Parties, stage[j] = "done"
  PROVE  stage'[j] = "done"
<1>i. stage \in [Parties -> {"idle", "running", "done", "failed"}]
  BY DEF NetworkInv, TypeOK
<1>1. Receive(i) => UNCHANGED stage
  BY ReceiveEffect
<1>2. QED
  BY <1>1, <1>i DEF Step, Start, Deliver, NextRound, Finish, Stops, Receives

LEMMA NoEchoStep ==
  ASSUME Parameters, NetworkInv, NoEcho, NEW i \in Parties, NEW open,
         Step(i, open, FALSE)
  PROVE  NoEcho'
<1>i. TypeOK /\ NoEcho
  BY DEF NetworkInv
<1>t. \A j \in Parties : inbox[j] \in Seq(Message)
  BY <1>i DEF TypeOK
<1>1. CASE UNCHANGED <<inbox, todo>>
  BY <1>1, <1>i DEF NoEcho
<1>2. ASSUME NEW r \in Nat, EnterRound(i, r, FALSE), UNCHANGED inbox PROVE NoEcho'
  <2>1. i \notin todo'[i] /\ \A j \in Parties : j # i => todo'[j] = todo[j]
    BY <1>2, <1>i DEF EnterRound, Recipients, TypeOK
  <2>2. QED
    BY <1>2, <2>1, <1>i DEF NoEcho
<1>3. CASE Deliver(i, open)
  <2>1. PICK to \in todo[i] :
          /\ inbox' = IF to \in open
                        THEN [inbox EXCEPT ![to] =
                                Append(@, [from |-> i, round |-> round[i]])]
                        ELSE inbox
          /\ todo' = [todo EXCEPT ![i] = @ \ {to}]
    BY <1>3 DEF Deliver
  <2>2. to \in Parties /\ to # i /\ \A j \in Parties : todo'[j] \subseteq todo[j]
    BY <2>1, <1>i DEF TypeOK, NoEcho
  <2>3. ASSUME NEW j \in Parties, NEW k \in DOMAIN inbox'[j]
        PROVE  inbox'[j][k].from # j
    <3>1. CASE inbox'[j] = inbox[j]
      BY <3>1, <2>3, <1>i DEF NoEcho
    <3>2. CASE inbox'[j] # inbox[j]
      <4> DEFINE new == [from |-> i, round |-> round[i]]
      <4>1. j = to /\ inbox'[j] = Append(inbox[j], new) /\ new.from = i
        BY <3>2, <2>1, <1>i DEF TypeOK
      <4>2. inbox'[j][k] = new \/ (k \in DOMAIN inbox[j] /\ inbox'[j][k] = inbox[j][k])
        BY <4>1, <1>t, <2>3
      <4>3. QED
        BY <4>1, <4>2, <2>2, <1>i DEF NoEcho
    <3>3. QED
      BY <3>1, <3>2
  <2>4. QED
    BY <2>2, <2>3, <1>i DEF NoEcho
<1>4. CASE Receive(i)
  <2>1. inbox' = [inbox EXCEPT ![i] = Tail(@)] /\ UNCHANGED todo
    BY <1>4, ReceiveEffect
  <2>2. inbox[i] # <<>>
    BY <1>4 DEF Receive
  <2>3. \A k \in DOMAIN Tail(inbox[i]) :
          k + 1 \in DOMAIN inbox[i] /\ Tail(inbox[i])[k] = inbox[i][k + 1]
    BY <2>2, <1>t
  <2>4. QED
    BY <2>1, <2>3, <1>i DEF NoEcho, TypeOK
<1>5. CASE Start(i, FALSE) \/ NextRound(i, FALSE)
  <2>1. 1 \in Nat /\ round[i] + 1 \in Nat
    BY <1>i, PlanLength DEF TypeOK
  <2>2. EnterRound(i, 1, FALSE) \/ EnterRound(i, round[i] + 1, FALSE)
    BY <1>5 DEF Start, NextRound
  <2>3. UNCHANGED inbox
    BY <1>5 DEF Start, NextRound
  <2>4. QED
    BY <2>1, <2>2, <2>3, <1>2
<1>6. QED
  BY <1>1, <1>2, <1>3, <1>4, <1>5 DEF Step, Finish, Stops

LEMMA NetworkStutter ==
  ASSUME NetworkInv, UNCHANGED vars
  PROVE  NetworkInv' /\ (NoEcho => NoEcho')
<1> USE DEF vars
<1>1. TypeOK'
  BY DEF NetworkInv, TypeOK
<1>2. TaskInv'
  BY DEF NetworkInv, TaskInv, Complete
<1>3. MessageInv' /\ HistoryInv'
  BY DEF NetworkInv, MessageInv, HistoryInv, Sent
<1>4. QED
  BY <1>1, <1>2, <1>3 DEF NetworkInv, NoEcho

-----------------------------------------------------------------------------
(* What the invariant implies *)

\* A party that is done has been sent all messages it will ever be sent.
LEMMA NothingForDone ==
  ASSUME Parameters, NetworkInv, NEW i \in Parties, NEW j \in Parties,
         stage[j] = "done"
  PROVE  j \notin todo[i]
<1>1. todo[j] = {} /\ round[j] = Len(Plan) /\ Complete(j)
  BY DEF NetworkInv, TaskInv
<1>2. round[i] \in 0 .. Len(Plan) /\ Len(Plan) \in Nat
  BY PlanLength DEF NetworkInv, TypeOK
<1>3. CASE i # j
  <2> DEFINE m == [from |-> i, round |-> Len(Plan)]
  <2>1. m \in got[j] /\ m.from = i /\ m.round = Len(Plan)
    BY <1>1, <1>3 DEF Complete
  <2>2. Sent(m, j)
    BY <2>1 DEF NetworkInv, MessageInv
  <2>3. QED
    BY <2>1, <2>2, <1>2 DEF Sent
<1>4. QED
  BY <1>1, <1>3

\* In a network without echo it has also read them all.
LEMMA DoneInboxEmpty ==
  ASSUME Parameters, NetworkInv, NoEcho, NEW i \in Parties, stage[i] = "done"
  PROVE  inbox[i] = <<>>
<1>1. /\ round[i] = Len(Plan) /\ Complete(i) /\ inbox[i] \in Seq(Message)
  BY DEF NetworkInv, TaskInv, TypeOK
<1>2. SUFFICES ASSUME inbox[i] # <<>> PROVE FALSE
  OBVIOUS
<1> DEFINE m == inbox[i][1]
<1>3. 1 \in DOMAIN inbox[i] /\ m \in Message
  BY <1>1, <1>2
<1>4. /\ m.from \in Parties /\ m.from # i /\ m.round \in 1 .. Len(Plan)
      /\ m = [from |-> m.from, round |-> m.round] /\ Len(Plan) \in Nat
  BY <1>3, MessageFields, PlanLength DEF NoEcho
<1>5. [from |-> m.from, round |-> m.round] \in got[i]
  <2>1. CASE m.round = Len(Plan)
    BY <2>1, <1>1, <1>4 DEF Complete
  <2>2. CASE m.round # Len(Plan)
    BY <2>2, <1>1, <1>4 DEF NetworkInv, HistoryInv
  <2>3. QED
    BY <2>1, <2>2
<1>6. m \notin got[i]
  BY <1>3 DEF NetworkInv, MessageInv
<1>7. QED
  BY <1>4, <1>5, <1>6

\* What waits in an inbox of one sender is of the round its reader is in, or of
\* the next one.
LEMMA WaitingRounds ==
  ASSUME Parameters, NetworkInv, NEW i \in Parties, NEW k \in DOMAIN inbox[i],
         inbox[i][k].from # i
  PROVE  inbox[i][k].round \in {round[i], round[i] + 1}
<1> DEFINE m == inbox[i][k]
           j == m.from
<1>1. m \in Message
  BY DEF NetworkInv, TypeOK
<1>2. /\ j \in Parties /\ m.round \in 1 .. Len(Plan) /\ Len(Plan) \in Nat
      /\ m = [from |-> j, round |-> m.round]
      /\ round[i] \in Nat /\ round[j] \in Nat
  BY <1>1, MessageFields, PlanLength DEF NetworkInv, TypeOK
<1>3. ~(m.round < round[i])
  <2>1. m \notin got[i]
    BY DEF NetworkInv, MessageInv
  <2>2. QED
    BY <2>1, <1>2 DEF NetworkInv, HistoryInv
<1>4. m.round <= round[j]
  BY DEF NetworkInv, MessageInv, Sent
<1>5. round[j] <= round[i] + 1
  <2>1. SUFFICES ASSUME round[j] > round[i] + 1 PROVE FALSE
    BY <1>2
  <2> DEFINE x == [from |-> i, round |-> round[j] - 1]
  <2>2. x \in got[j] /\ x.from = i /\ x.round = round[j] - 1
    BY <2>1, <1>2 DEF NetworkInv, HistoryInv
  <2>3. x.round <= round[i]
    <3>1. Sent(x, j)
      BY <2>2, <1>2 DEF NetworkInv, MessageInv
    <3>2. QED
      BY <2>2, <3>1 DEF Sent
  <2>4. QED
    BY <2>1, <2>2, <2>3, <1>2
<1>6. QED
  BY <1>2, <1>3, <1>4, <1>5

\* ... so it is at most two messages.
LEMMA AtMostTwoWaiting ==
  ASSUME Parameters, NetworkInv, NEW i \in Parties, NEW j \in Parties, i # j
  PROVE  Cardinality({k \in DOMAIN inbox[i] : inbox[i][k].from = j}) <= 2
<1> DEFINE K == {k \in DOMAIN inbox[i] : inbox[i][k].from = j}
           R == round[i] .. round[i] + 1
           f == [k \in K |-> inbox[i][k].round]
<1>1. round[i] \in Nat /\ inbox[i] \in Seq(Message)
  BY PlanLength DEF NetworkInv, TypeOK
<1>2. IsFiniteSet(R) /\ Cardinality(R) = 2
  BY <1>1, FS_Interval
<1>3. \A k \in K : inbox[i][k].round \in R
  BY <1>1, WaitingRounds
<1>4. \A k \in K : inbox[i][k] = [from |-> j, round |-> inbox[i][k].round]
  BY <1>1, MessageFields
<1>5. \A k, l \in K : inbox[i][k].round = inbox[i][l].round => k = l
  BY <1>4 DEF NetworkInv, MessageInv
<1>6. f \in Injection(K, R)
  BY <1>3, <1>5 DEF Injection, IsInjective
<1>7. Cardinality(K) <= Cardinality(R)
  BY <1>2, <1>6, FS_Injection
<1>8. QED
  BY <1>2, <1>7
=============================================================================
