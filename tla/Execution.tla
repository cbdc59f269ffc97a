----------------------------- MODULE Execution -----------------------------
(***************************************************************************)
(* One run of a protocol (aux info, key generation, presigning, signing)   *)
(* by tasks 0 .. N-1 over one in-memory network of the examples: a Router  *)
(* with an unbounded inbox per party, a sink that fans an Outgoing message *)
(* out to inboxes one after the other, and the stream a party reads.       *)
(*                                                                         *)
(* The protocol itself is the library's.  What the examples rely on: in    *)
(* round r a party sends its messages of that round, then reads its inbox  *)
(* until it has one of round r from every other party.  Its own broadcasts *)
(* and messages of rounds it has left are ignored, those of a later round  *)
(* are kept, and a second message of a sender and round is an error.       *)
(*                                                                         *)
(* Message ids are left out: they are drawn, and nothing reads them.       *)
(***************************************************************************)
EXTENDS Sequences, Integers, FiniteSets, FiniteSetsExt

CONSTANTS
  N,       \* number of parties, at least 2
  Plan     \* MessageDestination of each round: "AllParties" or "OneParty"

Parties == 0 .. N - 1

VARIABLES
  inbox,   \* the channel of each party
  stage,   \* of its task: "idle", "running", "done", "failed"
  round,   \* of the protocol it is in
  todo,    \* recipients its current messages have not been sent to
  got      \* the messages it has accepted

vars == <<inbox, stage, round, todo, got>>

Message == [from : Parties, round : DOMAIN Plan]

\* make_memory_deliveries, LocalNetwork::new: a network without messages, and
\* no task has run yet.
Init ==
  /\ inbox = [i \in Parties |-> <<>>]
  /\ stage = [i \in Parties |-> "idle"]
  /\ round = [i \in Parties |-> 0]
  /\ todo = [i \in Parties |-> {}]
  /\ got = [i \in Parties |-> {}]

\* The same network in the next state.
Fresh ==
  /\ inbox' = [i \in Parties |-> <<>>]
  /\ stage' = [i \in Parties |-> "idle"]
  /\ round' = [i \in Parties |-> 0]
  /\ todo' = [i \in Parties |-> {}]
  /\ got' = [i \in Parties |-> {}]

Recipients_AllButLast(i, dest, echo) ==
  {j \in Parties : (j # i /\ j # N - 1) \/ (dest = "OneParty" /\ j # i)}

\* resolve_recipients leaves the sender out of a broadcast; Router::route of
\* minimal_delivery goes through all inboxes and echoes it.  For a round of P2P
\* messages the protocol addresses every other party.
Recipients(i, dest, echo) ==
  {j \in Parties : j # i \/ (echo /\ dest = "AllParties")}

EnterRound(i, r, echo) ==
  /\ round' = [round EXCEPT ![i] = r]
  /\ todo' = [todo EXCEPT ![i] = Recipients(i, Plan[r], echo)]

\* The task is polled for the first time.
Start(i, echo) ==
  /\ stage[i] = "idle"
  /\ stage' = [stage EXCEPT ![i] = "running"]
  /\ EnterRound(i, 1, echo)
  /\ UNCHANGED <<inbox, got>>

\* `for to in recipients`: in the order of the indices, one send at a time.
Sends(i, to) ==
  /\ stage[i] = "running"
  /\ todo[i] # {}
  /\ to = Min(todo[i])

Deliver_LastTwice(i, open) ==
  \E to \in todo[i] :
    LET m == [from |-> i, round |-> round[i]]
    IN  /\ Sends(i, to)
        /\ inbox' = IF to \in open
                      THEN [inbox EXCEPT ![to] =
                              @ \o IF to = N - 1 THEN <<m, m>> ELSE <<m>>]
                      ELSE inbox
        /\ todo' = [todo EXCEPT ![i] = @ \ {to}]
        /\ UNCHANGED <<stage, round, got>>

\* A message for a receiver that was dropped is lost (`let _ =`).
Deliver(i, open) ==
  \E to \in todo[i] :
    /\ Sends(i, to)
    /\ inbox' = IF to \in open
                  THEN [inbox EXCEPT ![to] =
                          Append(@, [from |-> i, round |-> round[i]])]
                  ELSE inbox
    /\ todo' = [todo EXCEPT ![i] = @ \ {to}]
    /\ UNCHANGED <<stage, round, got>>

\* One message of the round from everybody else.
Complete(i) ==
  \A j \in Parties \ {i} : [from |-> j, round |-> round[i]] \in got[i]

Receives(i) ==
  /\ stage[i] = "running"
  /\ todo[i] = {}

\* poll_next of PartyStream and Inbox.
Receive(i) ==
  /\ Receives(i)
  /\ ~Complete(i)
  /\ inbox[i] # <<>>
  /\ inbox' = [inbox EXCEPT ![i] = Tail(@)]
  /\ LET m == Head(inbox[i])
         ignored == m.from = i \/ m.round < round[i]
     IN  /\ got' = [got EXCEPT ![i] = IF ignored THEN @ ELSE @ \cup {m}]
         /\ stage' = [stage EXCEPT ![i] =
              IF ~ignored /\ m \in got[i] THEN "failed" ELSE @]
  /\ UNCHANGED <<round, todo>>

NextRound(i, echo) ==
  /\ Receives(i)
  /\ Complete(i)
  /\ round[i] < Len(Plan)
  /\ EnterRound(i, round[i] + 1, echo)
  /\ UNCHANGED <<inbox, stage, got>>

Finish(i) ==
  /\ Receives(i)
  /\ Complete(i)
  /\ round[i] = Len(Plan)
  /\ stage' = [stage EXCEPT ![i] = "done"]
  /\ UNCHANGED <<inbox, round, todo, got>>

\* The protocol returns an error at one of its awaits.
Fail(i) ==
  /\ Receives(i)
  /\ stage' = [stage EXCEPT ![i] = "failed"]
  /\ UNCHANGED <<inbox, round, todo, got>>

Failed == {i \in Parties : stage[i] = "failed"}
AllDone == \A i \in Parties : stage[i] = "done"

TypeOK ==
  /\ inbox \in [Parties -> Seq(Message)]
  /\ stage \in [Parties -> {"idle", "running", "done", "failed"}]
  /\ round \in [Parties -> 0 .. Len(Plan)]
  /\ todo \in [Parties -> SUBSET Parties]
  /\ got \in [Parties -> SUBSET Message]
=============================================================================
