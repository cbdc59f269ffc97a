--------------------------- MODULE Initialization ---------------------------
(***************************************************************************)
(* src/bin/initialization.rs: one process simulates all n parties, keeps   *)
(* their key shares in output/key_shares, publishes the shared public key  *)
(* and, at the start and at every ENTER, generates k presignatures per     *)
(* party into output/node_<i>.  Each step is one file operation; a crash   *)
(* between two of them, or within one, leaves the files as they are then.  *)
(***************************************************************************)
EXTENDS Integers, FiniteSets

CONSTANTS
  Ns,          \* party counts the program is started with (argument 1)
  Ks,          \* presignatures per party it is asked for (argument 2)
  None,        \* an absent file or value
  Torn,        \* a file whose write was cut short: it does not parse
  MaxKeys,     \* bound: runs of the key generation
  MaxRuns,     \* bound: runs of regenerate_presignatures
  MaxCrashes   \* bound: stops anywhere but at the prompt

ASSUME InitializationAssumption ==
  /\ Ns \subseteq Nat \ {0} /\ Ns # {} /\ IsFiniteSet(Ns)
  /\ Ks \subseteq Nat /\ Ks # {}        \* a u16, so 0 is possible
  /\ None # Torn
  /\ MaxKeys \in Nat /\ MaxRuns \in Nat /\ MaxCrashes \in Nat

Slots       == UNION {0 .. m - 1 : m \in Ns}
Key         == [id : 1 .. MaxKeys, n : Ns]       \* n: parties it was made for
Batch       == [key : Key, run : 1 .. MaxRuns]
Absent      == {None, Torn}
ASSUME AbsentAssumption == Absent \cap (Key \cup Batch) = {}

VARIABLES
  pc,          \* the next file operation or the prompt
  n,           \* argument 1 of this start
  presigs,     \* argument 2 of this start, k in the code
  cursor,      \* loop index of the two writing loops
  keyShares,   \* the key each loaded or generated share belongs to
  batch,       \* the presignatures in memory
  (* files *)
  shareFile,   \* key_shares/key_share_<i>.msgpack
  publicKey,   \* public_key/shared_public_key.hex
  poolOut,     \* node_<i>/presig_pool.msgpack
  ppdOut,      \* node_0/ppd_pool.msgpack
  (* history and bounds *)
  exported,    \* <<i, batch>>: pool files ever written
  keys,        \* keys generated
  runs,        \* batches generated
  crashes

args   == <<n, presigs>>
memory == <<args, cursor, keyShares, batch>>
files  == <<shareFile, publicKey, poolOut, ppdOut>>
bounds == <<keys, runs, crashes>>
vars   == <<pc, memory, files, exported, bounds>>

Parties == 0 .. n - 1

Init ==
  /\ pc = "down" /\ n \in Ns /\ presigs = 0 /\ cursor = 0
  /\ keyShares = <<>> /\ batch = None
  /\ shareFile = [i \in Slots |-> None] /\ publicKey = None
  /\ poolOut = [i \in Slots |-> None] /\ ppdOut = None
  /\ exported = {} /\ keys = 0 /\ runs = 0 /\ crashes = 0

Start(m, k) ==
  /\ pc = "down"
  /\ n' = m /\ presigs' = k
  /\ pc' = "load"
  /\ UNCHANGED <<cursor, keyShares, batch, files, exported, bounds>>

-----------------------------------------------------------------------------
(* initialize: the key shares *)

SharesReadable_OffByOne ==
  /\ Cardinality({i \in Slots : shareFile[i] # None}) = n
  /\ \A i \in 0 .. n : i \in Slots /\ shareFile[i] \notin Absent

SharesReadable_NotParsed ==
  /\ Cardinality({i \in Slots : shareFile[i] # None}) = n
  /\ \A i \in Parties : shareFile[i] # None

\* load_key_shares: as many files as parties, one for each index, all of which
\* deserialize.  An absent folder holds no file.
SharesReadable ==
  /\ Cardinality({i \in Slots : shareFile[i] # None}) = n
  /\ \A i \in Parties : shareFile[i] \notin Absent

LoadShares ==
  /\ pc = "load"
  /\ SharesReadable
  /\ keyShares' = [i \in Parties |-> shareFile[i]]
  /\ pc' = "publish"
  /\ UNCHANGED <<args, cursor, batch, files, exported, bounds>>

RejectShares_Kept ==
  /\ pc = "load"
  /\ ~SharesReadable
  /\ pc' = "generate"
  /\ UNCHANGED <<memory, files, exported, bounds>>

RejectShares ==
  /\ pc = "load"
  /\ ~SharesReadable
  /\ pc' = "discard"
  /\ UNCHANGED <<memory, files, exported, bounds>>

\* remove_dir_all unlinks the files one by one, in no order of its own.
DiscardShare(i) ==
  /\ pc = "discard"
  /\ shareFile[i] # None
  /\ shareFile' = [shareFile EXCEPT ![i] = None]
  /\ UNCHANGED <<pc, memory, publicKey, poolOut, ppdOut, exported, bounds>>

DiscardEnds ==
  /\ pc = "discard"
  /\ \A i \in Slots : shareFile[i] = None
  /\ pc' = "generate"
  /\ UNCHANGED <<memory, files, exported, bounds>>

Generate_PublishedFirst ==
  /\ pc = "generate"
  /\ keys < MaxKeys
  /\ keys' = keys + 1
  /\ keyShares' = [i \in Parties |-> [id |-> keys', n |-> n]]
  /\ cursor' = 0
  /\ pc' = "publish"
  /\ UNCHANGED <<args, batch, files, exported, runs, crashes>>

\* AuxInfo and DKG of all parties, in memory.
Generate ==
  /\ pc = "generate"
  /\ keys < MaxKeys
  /\ keys' = keys + 1
  /\ keyShares' = [i \in Parties |-> [id |-> keys', n |-> n]]
  /\ cursor' = 0
  /\ pc' = "write_shares"
  /\ UNCHANGED <<args, batch, files, exported, runs, crashes>>

WriteShare ==
  /\ pc = "write_shares"
  /\ shareFile' = [shareFile EXCEPT ![cursor] = keyShares[cursor]]
  /\ cursor' = cursor + 1
  /\ pc' = IF cursor' = n THEN "publish" ELSE "write_shares"
  /\ UNCHANGED <<args, keyShares, batch, publicKey, poolOut, ppdOut, exported, bounds>>

\* export_shared_public_key, on every start: the first share stands for all.
Publish ==
  /\ pc = "publish"
  /\ publicKey' = keyShares[0]
  /\ pc' = "presign"
  /\ UNCHANGED <<memory, shareFile, poolOut, ppdOut, exported, bounds>>

-----------------------------------------------------------------------------
(* regenerate_presignatures *)

\* The presigning protocol needs the shares of all parties of one key; with k = 0
\* it is not run, and every pool comes out empty.
SharesFit ==
  presigs > 0 => \A i \in Parties : keyShares[i] = keyShares[0] /\ keyShares[i].n = n

Presign_BatchReused ==
  /\ pc = "presign"
  /\ runs < MaxRuns
  /\ runs' = runs + 1
  /\ batch' = IF batch = None THEN [key |-> keyShares[0], run |-> runs'] ELSE batch
  /\ cursor' = 0
  /\ pc' = "write_pools"
  /\ UNCHANGED <<args, keyShares, files, exported, keys, crashes>>

Presign ==
  /\ pc = "presign"
  /\ SharesFit
  /\ runs < MaxRuns
  /\ runs' = runs + 1
  /\ batch' = [key |-> keyShares[0], run |-> runs']
  /\ cursor' = 0
  /\ pc' = "write_pools"
  /\ UNCHANGED <<args, keyShares, files, exported, keys, crashes>>

\* The process ends: its memory is gone.
Ends ==
  /\ pc' = "down"
  /\ keyShares' = <<>> /\ batch' = None /\ cursor' = 0 /\ presigs' = 0 /\ n' = n

\* expect_ok.  Reached only after a crash: n - 1 shares of an unfinished folder are
\* a complete folder for a start with n - 1.
PresignPanics ==
  /\ pc = "presign"
  /\ ~SharesFit
  /\ Ends
  /\ UNCHANGED <<files, exported, bounds>>

WritePool_SkipsExisting ==
  /\ pc = "write_pools"
  /\ poolOut' = [poolOut EXCEPT ![cursor] = IF @ = None THEN batch ELSE @]
  /\ exported' = exported \cup {<<cursor, batch>>}
  /\ cursor' = cursor + 1
  /\ pc' = IF cursor' = n THEN "write_ppd" ELSE "write_pools"
  /\ UNCHANGED <<args, keyShares, batch, shareFile, publicKey, ppdOut, bounds>>

\* An old file is removed, the new one written.
WritePool ==
  /\ pc = "write_pools"
  /\ poolOut' = [poolOut EXCEPT ![cursor] = batch]
  /\ exported' = exported \cup {<<cursor, batch>>}
  /\ cursor' = cursor + 1
  /\ pc' = IF cursor' = n THEN "write_ppd" ELSE "write_pools"
  /\ UNCHANGED <<args, keyShares, batch, shareFile, publicKey, ppdOut, bounds>>

WritePpd ==
  /\ pc = "write_ppd"
  /\ ppdOut' = batch
  /\ pc' = "prompt"
  /\ UNCHANGED <<memory, shareFile, publicKey, poolOut, exported, bounds>>

PressEnter ==
  /\ pc = "prompt"
  /\ pc' = "presign"
  /\ UNCHANGED <<memory, files, exported, bounds>>

-----------------------------------------------------------------------------
(* Stops, and the operator *)

\* The write in progress leaves half a file; an old pool file is removed before
\* the new one is created.
CutShort ==
  \/ /\ pc = "write_shares"
     /\ shareFile' = [shareFile EXCEPT ![cursor] = Torn]
     /\ UNCHANGED <<publicKey, poolOut, ppdOut>>
  \/ /\ pc = "publish"
     /\ publicKey' = Torn
     /\ UNCHANGED <<shareFile, poolOut, ppdOut>>
  \/ /\ pc = "write_pools"
     /\ \E left \in Absent : poolOut' = [poolOut EXCEPT ![cursor] = left]
     /\ UNCHANGED <<shareFile, publicKey, ppdOut>>
  \/ /\ pc = "write_ppd"
     /\ ppdOut' \in Absent
     /\ UNCHANGED <<shareFile, publicKey, poolOut>>

Crash ==
  /\ pc \notin {"down", "prompt"}
  /\ crashes < MaxCrashes
  /\ crashes' = crashes + 1
  /\ UNCHANGED files \/ CutShort
  /\ Ends
  /\ UNCHANGED <<exported, keys, runs>>

Quit ==
  /\ pc = "prompt"
  /\ Ends
  /\ UNCHANGED <<files, exported, bounds>>

\* The operator moves the pool files of node i to its device.
TakeNode(i) ==
  /\ pc \in {"prompt", "down"}
  /\ poolOut[i] # None
  /\ poolOut' = [poolOut EXCEPT ![i] = None]
  /\ ppdOut' = IF i = 0 THEN None ELSE ppdOut
  /\ UNCHANGED <<pc, memory, shareFile, publicKey, exported, bounds>>

-----------------------------------------------------------------------------

KeyStep ==
  \/ \E m \in Ns, k \in Ks : Start(m, k)
  \/ LoadShares \/ RejectShares
  \/ \E i \in Slots : DiscardShare(i)
  \/ DiscardEnds \/ Generate \/ WriteShare \/ Publish

PresignStep ==
  Presign \/ PresignPanics \/ WritePool \/ WritePpd \/ PressEnter

Next ==
  \/ KeyStep \/ PresignStep
  \/ Crash \/ Quit
  \/ \E i \in Slots : TakeNode(i)

Spec == Init /\ [][Next]_vars

-----------------------------------------------------------------------------
(* Properties *)

TypeOK ==
  /\ pc \in {"down", "load", "discard", "generate", "write_shares", "publish",
             "presign", "write_pools", "write_ppd", "prompt"}
  /\ n \in Ns /\ presigs \in Nat /\ cursor \in 0 .. n
  /\ keyShares \in [Parties -> Key] \cup {<<>>}
  /\ batch \in Batch \cup {None}
  /\ shareFile \in [Slots -> Key \cup Absent]
  /\ publicKey \in Key \cup Absent
  /\ poolOut \in [Slots -> Batch \cup Absent]
  /\ ppdOut \in Batch \cup Absent
  /\ exported \subseteq Slots \X Batch
  /\ keys \in 0 .. MaxKeys /\ runs \in 0 .. MaxRuns /\ crashes \in 0 .. MaxCrashes

\* Loading trusts file names and a count (lines 102-129); still, the shares it
\* puts together always come from one key generation, whatever crash left the
\* folder half written or half removed, and whatever n is next.
SharesOfOneKey ==
  keyShares # <<>> => \A i \in Parties : keyShares[i] = keyShares[0]

\* Whenever the program asks for ENTER, after any history of crashes, what is on
\* disk for its n parties fits together: the key shares are those of the
\* published key, every pool file not taken yet is the latest batch, made from
\* that key, and node 0 has its pool with the matching ppd pool or neither.
OutputAgreesAtPrompt ==
  pc = "prompt" =>
    /\ \A i \in Parties : shareFile[i] = publicKey
    /\ batch.key = publicKey
    /\ \A i \in Parties : poolOut[i] \in {batch, None}
    /\ ppdOut = poolOut[0]

\* The folder holds the shares of key k and nothing else.
KeyIntact(k) ==
  \A i \in Slots : shareFile[i] = IF i < k.n THEN k ELSE None

\* Started with one and the same n every time, the program never publishes a key
\* before all of its shares are on disk and never gives one of them up again: the
\* address stays spendable through every history of crashes.  (With another n it
\* may not: a start with two parties takes the first two shares of an unfinished
\* folder of three for a complete one and publishes a key whose last share was
\* never written.)
PublishedKeySpendable ==
  \A m \in Ns : [](n = m) => [](publicKey \in Key => KeyIntact(publicKey))

\* A complete folder is given up only by a start with another n (lines 135-137),
\* never by a crash or by a start that could have reused it.
KeyDiscardedOnlyOnResize ==
  [][\A k \in Key : KeyIntact(k) /\ ~KeyIntact(k)' => n # k.n]_vars

\* A pool file never comes back: what is written to node i's directory was never
\* there before, after reloads, crashes and restarts.  The coordinator's and the
\* offline node's guarantees against using a presignature twice rest on it.
PoolsNeverReissued ==
  [][\A i \in Slots :
       poolOut'[i] # poolOut[i] /\ poolOut'[i] \notin Absent =>
         <<i, poolOut'[i]>> \notin exported]_vars
=============================================================================
