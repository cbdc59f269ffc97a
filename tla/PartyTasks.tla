----------------------------- MODULE PartyTasks -----------------------------
(***************************************************************************)
(* examples/coord_party_tasks.rs: long-lived party tasks that take their   *)
(* commands from a mailbox, and a coordinator that commands all of them    *)
(* and waits for all replies.  Every task owns one end of two networks,    *)
(* for aux info and for key generation; both live as long as the task.     *)
(***************************************************************************)
EXTENDS Sequences, Integers, FiniteSets, FiniteSetsExt

CONSTANTS
  N,            \* number of parties
  AuxPlan,      \* the rounds of aux info generation, and
  KeygenPlan,   \* of key generation
  MaxFailures   \* bound: protocol errors

ASSUME PartyTasksAssumption ==
  /\ N \in Nat /\ N >= 2
  /\ AuxPlan \in Seq({"AllParties", "OneParty"}) /\ AuxPlan # <<>>
  /\ KeygenPlan \in Seq({"AllParties", "OneParty"}) /\ KeygenPlan # <<>>
  /\ MaxFailures \in Nat

Parties  == 0 .. N - 1
Commands == {"RunAuxInfo", "RunKeygen", "GetSharedPublicKeyBytes", "Shutdown"}
None     == "none"

VARIABLES
  (* main *)
  pc,        \* what it does: a broadcast function and its half, or the end
  cursor,    \* `handles.iter()`: the next handle to send to
  mailbox,   \* the command channel of each party
  reply,     \* the oneshot of each party in this broadcast
  (* the tasks *)
  doing,     \* the command in progress, None, or "stopped" after Shutdown
  auxInfo,   \* parties whose state.aux_info is Some
  keyShare,  \* parties whose state.key_share is Some
  (* the two networks, module Execution *)
  auxInbox, auxStage, auxRound, auxTodo, auxGot,
  kgInbox, kgStage, kgRound, kgTodo, kgGot

mainVars   == <<pc, cursor>>
taskVars   == <<doing, auxInfo, keyShare>>
auxVars    == <<auxInbox, auxStage, auxRound, auxTodo, auxGot>>
keygenVars == <<kgInbox, kgStage, kgRound, kgTodo, kgGot>>
vars       == <<mainVars, mailbox, reply, taskVars, auxVars, keygenVars>>

Aux == INSTANCE Execution WITH
  Plan <- AuxPlan, inbox <- auxInbox, stage <- auxStage, round <- auxRound,
  todo <- auxTodo, got <- auxGot
Keygen == INSTANCE Execution WITH
  Plan <- KeygenPlan, inbox <- kgInbox, stage <- kgStage, round <- kgRound,
  todo <- kgTodo, got <- kgGot

\* What main sends in each of its three broadcast functions.
Command == [send_aux |-> "RunAuxInfo", send_keygen |-> "RunKeygen",
            send_get |-> "GetSharedPublicKeyBytes", send_shutdown |-> "Shutdown"]
\* ... where it awaits the replies, and what it does after them.
Await == [send_aux |-> "await_aux", send_keygen |-> "await_keygen",
          send_get |-> "await_get", send_shutdown |-> "ended"]
After == [await_aux |-> "send_keygen", await_keygen |-> "send_get",
          await_get |-> "send_shutdown"]

Init ==
  /\ pc = "send_aux" /\ cursor = 0
  /\ mailbox = [i \in Parties |-> <<>>]
  /\ reply = [i \in Parties |-> None]
  /\ doing = [i \in Parties |-> None]
  /\ auxInfo = {} /\ keyShare = {}
  /\ Aux!Init /\ Keygen!Init

-----------------------------------------------------------------------------
(* main *)

SendCommand_OffByOne ==
  /\ pc \in DOMAIN Command
  /\ mailbox' = [mailbox EXCEPT ![cursor] = Append(@, Command[pc])]
  /\ IF cursor < N
       THEN cursor' = cursor + 1 /\ UNCHANGED pc
       ELSE cursor' = 0 /\ pc' = Await[pc]
  /\ UNCHANGED <<reply, taskVars, auxVars, keygenVars>>

\* One element of `handles.iter().map(...)`: the other tasks run meanwhile.
SendCommand ==
  /\ pc \in DOMAIN Command
  /\ mailbox' = [mailbox EXCEPT ![cursor] = Append(@, Command[pc])]
  /\ IF cursor < N - 1
       THEN cursor' = cursor + 1 /\ UNCHANGED pc
       ELSE cursor' = 0 /\ pc' = Await[pc]
  /\ UNCHANGED <<reply, taskVars, auxVars, keygenVars>>

\* try_join_all: an error is an ordinary value of a oneshot, so it waits for all.
Answered == \A i \in Parties : reply[i] # None

Joined_OneReply ==
  /\ pc \in DOMAIN After
  /\ \E i \in Parties : reply[i] # None
  /\ pc' = IF \A i \in Parties : reply[i] # "err" THEN After[pc] ELSE "error"
  /\ reply' = [i \in Parties |-> None]
  /\ UNCHANGED <<cursor, mailbox, taskVars, auxVars, keygenVars>>

\* The first error, if any, ends main; the next broadcast has new oneshots.
\* (After the aux infos main sleeps two seconds, with nothing else to wait for.)
Joined ==
  /\ pc \in DOMAIN After
  /\ Answered
  /\ pc' = IF \A i \in Parties : reply[i] = "ok" THEN After[pc] ELSE "error"
  /\ reply' = [i \in Parties |-> None]
  /\ UNCHANGED <<cursor, mailbox, taskVars, auxVars, keygenVars>>

Main == SendCommand \/ Joined

-----------------------------------------------------------------------------
(* spawn_party *)

Takes(i, cmd) ==
  /\ doing[i] = None
  /\ mailbox[i] # <<>>
  /\ Head(mailbox[i]) = cmd
  /\ mailbox' = [mailbox EXCEPT ![i] = Tail(@)]

Replies(i, result) ==
  /\ reply' = [reply EXCEPT ![i] = result]
  /\ doing' = [doing EXCEPT ![i] = None]

RunAuxInfo(i) ==
  /\ Takes(i, "RunAuxInfo")
  /\ doing' = [doing EXCEPT ![i] = "RunAuxInfo"]
  /\ Aux!Start(i, FALSE)
  /\ UNCHANGED <<mainVars, reply, auxInfo, keyShare, keygenVars>>

\* Without aux info the command is refused before a message is sent.
RunKeygen(i) ==
  /\ Takes(i, "RunKeygen")
  /\ IF i \in auxInfo
       THEN /\ doing' = [doing EXCEPT ![i] = "RunKeygen"]
            /\ Keygen!Start(i, FALSE)
            /\ UNCHANGED reply
       ELSE Replies(i, "err") /\ UNCHANGED keygenVars
  /\ UNCHANGED <<mainVars, auxInfo, keyShare, auxVars>>

GetSharedPublicKeyBytes(i) ==
  /\ Takes(i, "GetSharedPublicKeyBytes")
  /\ Replies(i, IF i \in keyShare THEN "ok" ELSE "err")
  /\ UNCHANGED <<mainVars, auxInfo, keyShare, auxVars, keygenVars>>

Shutdown(i) ==
  /\ Takes(i, "Shutdown")
  /\ doing' = [doing EXCEPT ![i] = "stopped"]
  /\ UNCHANGED <<mainVars, reply, auxInfo, keyShare, auxVars, keygenVars>>

\* A step inside the protocol of the command.
Communicate(i) ==
  /\ \/ /\ doing[i] = "RunAuxInfo"
        /\ Aux!Deliver(i, Parties) \/ Aux!Receive(i) \/ Aux!NextRound(i, FALSE)
        /\ UNCHANGED keygenVars
     \/ /\ doing[i] = "RunKeygen"
        /\ \/ Keygen!Deliver(i, Parties) \/ Keygen!Receive(i)
           \/ Keygen!NextRound(i, FALSE)
        /\ UNCHANGED auxVars
  /\ UNCHANGED <<mainVars, mailbox, reply, taskVars>>

AuxInfoDone(i) ==
  /\ doing[i] = "RunAuxInfo"
  /\ Aux!Finish(i)
  /\ auxInfo' = auxInfo \cup {i}
  /\ Replies(i, "ok")
  /\ UNCHANGED <<mainVars, mailbox, keyShare, keygenVars>>

KeygenDone(i) ==
  /\ doing[i] = "RunKeygen"
  /\ Keygen!Finish(i)
  /\ keyShare' = keyShare \cup {i}
  /\ Replies(i, "ok")
  /\ UNCHANGED <<mainVars, mailbox, auxInfo, auxVars>>

SomeFailed == Aux!Failed \cup Keygen!Failed # {}

\* The protocol returns an error, which becomes the reply.
ProtocolFails(i) ==
  /\ Cardinality(Aux!Failed \cup Keygen!Failed) < MaxFailures
  /\ \/ doing[i] = "RunAuxInfo" /\ Aux!Fail(i) /\ UNCHANGED keygenVars
     \/ doing[i] = "RunKeygen" /\ Keygen!Fail(i) /\ UNCHANGED auxVars
  /\ Replies(i, "err")
  /\ UNCHANGED <<mainVars, mailbox, auxInfo, keyShare>>

\* While main is running: the runtime drops the tasks when main returns.
Party(i) ==
  /\ pc # "error"
  /\ \/ RunAuxInfo(i) \/ RunKeygen(i) \/ GetSharedPublicKeyBytes(i) \/ Shutdown(i)
     \/ Communicate(i) \/ AuxInfoDone(i) \/ KeygenDone(i)

Next ==
  \/ Main
  \/ \E i \in Parties : Party(i) \/ (pc # "error" /\ ProtocolFails(i))

\* Tokio runs every task that can run; nothing obliges a protocol to fail.
Spec ==
  /\ Init /\ [][Next]_vars
  /\ WF_vars(Main) /\ \A i \in Parties : WF_vars(Party(i))

-----------------------------------------------------------------------------
(* Properties *)

TypeOK ==
  /\ pc \in DOMAIN Command \cup DOMAIN After \cup {"ended", "error"}
  /\ cursor \in Parties
  /\ mailbox \in [Parties -> Seq(Commands)]
  /\ reply \in [Parties -> {None, "ok", "err"}]
  /\ doing \in [Parties -> {None, "RunAuxInfo", "RunKeygen", "stopped"}]
  /\ auxInfo \subseteq Parties /\ keyShare \subseteq Parties
  /\ Aux!TypeOK /\ Keygen!TypeOK

\* The phases never overlap, whoever fails: a party that is told to run key
\* generation, or asked for the key, finds what it needs, and so do all others.
\* "aux_info not generated yet" and "key_share not generated yet" are
\* unreachable from main.
PhasesNeverOverlap ==
  \A i \in Parties :
    /\ "RunKeygen" \in {mailbox[i][k] : k \in DOMAIN mailbox[i]} \cup {doing[i]}
         => auxInfo = Parties
    /\ "GetSharedPublicKeyBytes" \in {mailbox[i][k] : k \in DOMAIN mailbox[i]}
         => keyShare = Parties

\* A task keeps its networks for its whole life: when main has all the results of
\* a protocol, no message of it is left to be taken for one of a later run.
NetworksDrained ==
  /\ pc \notin {"send_aux", "await_aux", "error"} =>
       \A i \in Parties : auxInbox[i] = <<>> /\ auxTodo[i] = {}
  /\ pc \in {"send_get", "await_get", "send_shutdown", "ended"} =>
       \A i \in Parties : kgInbox[i] = <<>> /\ kgTodo[i] = {}

\* The unbounded inboxes stay small: however the tasks are scheduled, a party is
\* at most one round ahead of another, so an inbox never holds more than two
\* messages of each other party.
InboxesStaySmall ==
  \A i, j \in Parties : i # j =>
    /\ Cardinality({k \in DOMAIN auxInbox[i] : auxInbox[i][k].from = j}) <= 2
    /\ Cardinality({k \in DOMAIN kgInbox[i] : kgInbox[i][k].from = j}) <= 2

\* main reaches the shutdown, however the commands and messages interleave (a
\* message may arrive before its receiver has taken the command), unless some
\* protocol fails.  Then it can wait forever: the other parties wait for the one
\* that failed, and try_join_all for their replies.
MainEnds == <>(pc = "ended" \/ SomeFailed)
=============================================================================
