------------------------------- MODULE Demos -------------------------------
(***************************************************************************)
(* examples/in_memory.rs and examples/minimal_delivery.rs: main runs one   *)
(* protocol after the other, each by N fresh tasks on a network of its     *)
(* own, which the tasks drop when they end.                                *)
(*                                                                         *)
(*   in_memory:        aux info, key generation, Messages presignatures;   *)
(*                     then it signs Messages messages from the pool.      *)
(*   minimal_delivery: key generation, aux info, one interactive signing.  *)
(*                                                                         *)
(* They differ in the router, in what a lost receiver means to a sender,   *)
(* and in how main collects the results of the tasks.                      *)
(***************************************************************************)
EXTENDS Sequences, Integers, FiniteSets, FiniteSetsExt

CONSTANTS
  N,            \* number of parties
  Plan,         \* rounds of a protocol
  Messages,     \* messages in_memory signs (5 in the code)
  MaxFailures   \* bound: protocol errors

ASSUME DemosAssumption ==
  /\ N \in Nat /\ N >= 2
  /\ Plan \in Seq({"AllParties", "OneParty"}) /\ Plan # <<>>
  /\ Messages \in Nat /\ MaxFailures \in Nat

VARIABLES
  demo,        \* the program
  pc,          \* of main: "protocol", "sign", "ended" or "error"
  phase,       \* which protocol is running
  collected,   \* collect_ordered: handles awaited so far
  pool,        \* the PresignaturePool: the phases its sets were made in
  current,     \* the set taken from it for the message being signed, or 0
  partials,    \* partial signatures of that message
  issued,      \* history: every partial signature of each party
  published,   \* history: every signature
  inbox, stage, round, todo, got    \* module Execution

mainVars == <<demo, pc, phase, collected>>
signVars == <<pool, current, partials, issued, published>>
netVars  == <<inbox, stage, round, todo, got>>
vars     == <<mainVars, signVars, netVars>>

X == INSTANCE Execution

Parties == 0 .. N - 1
Minimal == demo = "minimal_delivery"
Phases  == IF Minimal THEN 3 ELSE 2 + Messages

Open_OnceStarted == {i \in Parties : stage[i] = "running"}

\* Deliveries exist before the tasks start; a task that ends, with a result or by a
\* panic, drops its own.
Open == {i \in Parties : stage[i] \in {"idle", "running"}}

Init ==
  /\ demo \in {"in_memory", "minimal_delivery"}
  /\ pc = "protocol" /\ phase = 1 /\ collected = 0
  /\ pool = <<>> /\ current = 0 /\ partials = <<>>
  /\ issued = [i \in Parties |-> {}] /\ published = {}
  /\ X!Init

-----------------------------------------------------------------------------
(* The tasks of a protocol *)

\* `expect("p2p delivery")`: the receiver was dropped, the sender panics.
SendPanics(i) ==
  /\ Minimal
  /\ \E to \in todo[i] : X!Sends(i, to) /\ to \notin Open
  /\ stage' = [stage EXCEPT ![i] = "failed"]
  /\ UNCHANGED <<inbox, round, todo, got>>

SendSucceeds(i) ==
  /\ Minimal => \A to \in todo[i] : X!Sends(i, to) => to \in Open
  /\ X!Deliver(i, Open)

\* Until main returns.
Task(i) ==
  /\ pc = "protocol"
  /\ \/ X!Start(i, Minimal) \/ SendSucceeds(i) \/ SendPanics(i) \/ X!Receive(i)
     \/ X!NextRound(i, Minimal) \/ X!Finish(i)
  /\ UNCHANGED <<mainVars, signVars>>

\* `unwrap` and `expect` of the protocol's result.
ProtocolFails(i) ==
  /\ pc = "protocol"
  /\ Cardinality(X!Failed) < MaxFailures
  /\ X!Fail(i)
  /\ UNCHANGED <<mainVars, signVars>>

-----------------------------------------------------------------------------
(* main *)

\* The results of a phase are complete.  Its network is gone with its tasks.
PhaseEnds ==
  /\ pool' = IF ~Minimal /\ phase > 2 THEN Append(pool, phase) ELSE pool
  /\ IF phase < Phases
       THEN phase' = phase + 1 /\ X!Fresh /\ UNCHANGED pc
       ELSE /\ pc' = IF Minimal THEN "ended" ELSE "sign"
            /\ UNCHANGED <<phase, netVars>>
  /\ collected' = 0
  /\ UNCHANGED <<demo, current, partials, issued, published>>

Aborts ==
  /\ pc' = "error"
  /\ UNCHANGED <<demo, phase, collected, signVars, netVars>>

\* try_join_all of join handles: the first task that panicked ends main, also
\* while others are waiting for its messages.
JoinAll ==
  /\ pc = "protocol" /\ ~Minimal
  /\ \/ X!AllDone /\ PhaseEnds
     \/ X!Failed # {} /\ Aborts

CollectNext_OffByOne ==
  /\ pc = "protocol" /\ Minimal
  /\ \/ /\ stage[collected] = "done"
        /\ IF collected < N
             THEN /\ collected' = collected + 1
                  /\ UNCHANGED <<demo, pc, phase, signVars, netVars>>
             ELSE PhaseEnds
     \/ stage[collected] = "failed" /\ Aborts

\* collect_ordered awaits the handles one after the other.
CollectNext ==
  /\ pc = "protocol" /\ Minimal
  /\ \/ /\ stage[collected] = "done"
        /\ IF collected < N - 1
             THEN /\ collected' = collected + 1
                  /\ UNCHANGED <<demo, pc, phase, signVars, netVars>>
             ELSE PhaseEnds
     \/ stage[collected] = "failed" /\ Aborts

AfterPopFront_Kept == pool

\* pop_front
AfterPopFront == Tail(pool)

\* One message after the other, each with the next set of the pool.
TakeSet ==
  /\ pc = "sign" /\ current = 0
  /\ Cardinality(published) < Messages
  /\ pool # <<>>
  /\ current' = Head(pool) /\ pool' = AfterPopFront
  /\ UNCHANGED <<mainVars, partials, issued, published, netVars>>

\* sign_with_presig_set_n_of_n takes the set by value: all parties issue their
\* partials from it, in order ...
IssueNext ==
  /\ current # 0
  /\ Len(partials) < N
  /\ LET sig == [set |-> current, payload |-> Cardinality(published) + 1]
     IN  /\ partials' = Append(partials, sig)
         /\ issued' = [issued EXCEPT ![Len(partials)] = @ \cup {sig}]
  /\ UNCHANGED <<mainVars, pool, current, published, netVars>>

\* ... and they are combined.
CombineAll ==
  /\ current # 0
  /\ Len(partials) = N
  /\ published' = published \cup {partials[1]}
  /\ current' = 0 /\ partials' = <<>>
  /\ UNCHANGED <<mainVars, pool, issued, netVars>>

Done ==
  /\ pc = "sign" /\ current = 0
  /\ Cardinality(published) = Messages
  /\ pc' = "ended"
  /\ UNCHANGED <<demo, phase, collected, signVars, netVars>>

Main == JoinAll \/ CollectNext \/ TakeSet \/ IssueNext \/ CombineAll \/ Done

Next == Main \/ \E i \in Parties : Task(i) \/ ProtocolFails(i)

\* Tokio runs every task that can run; nothing obliges a protocol to fail.
Spec ==
  /\ Init /\ [][Next]_vars
  /\ WF_vars(Main) /\ \A i \in Parties : WF_vars(Task(i))

-----------------------------------------------------------------------------
(* Properties *)

TypeOK ==
  /\ demo \in {"in_memory", "minimal_delivery"}
  /\ pc \in {"protocol", "sign", "ended", "error"}
  /\ phase \in 1 .. Phases
  /\ collected \in Parties
  /\ pool \in Seq(3 .. 2 + Messages)
  /\ current \in {0} \cup 3 .. 2 + Messages
  /\ X!TypeOK

\* A party drops its inbox when its own protocol is over, while others are still
\* in the middle of a broadcast.  Nobody ever sends to a dropped inbox, unless its
\* owner failed, though nothing but the rounds of the protocol keeps the parties
\* together: no message is lost in in_memory, and neither "p2p delivery" nor
\* "broadcast delivery" fires in minimal_delivery.
NoSendToDroppedInbox ==
  pc = "protocol" =>
    \A i \in Open : todo[i] \subseteq Open \cup X!Failed

\* The demo ends, under any schedule of its tasks.  in_memory also when protocols
\* fail; collect_ordered may wait for a task that waits for one that failed.
DemoEnds == <>(pc \in {"ended", "error"} \/ (Minimal /\ X!Failed # {}))

\* The pool of in_memory keeps the promise of module OneTimeSigning.
Promise == INSTANCE OneTimeSigning WITH
  Sets <- 3 .. 2 + Messages, Payloads <- 1 .. Messages
PoolKeepsPromise == Promise!Spec
=============================================================================
