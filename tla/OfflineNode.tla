----------------------------- MODULE OfflineNode -----------------------------
(***************************************************************************)
(* src/bin/offline_node.rs: the air-gapped party 0.  It is sequential, but *)
(* works on files one call after the other and stops at the first call     *)
(* that fails (`expect`, `panic!`), and its operator may lose it at any    *)
(* point: each step below is one file operation, and a stop between two of *)
(* them leaves the files as they are and the memory empty.                 *)
(***************************************************************************)
EXTENDS Presignatures

CONSTANTS
  Names,         \* payload file names
  SingleDir,     \* input_dir and output_dir are one directory (README, 220)
  StrayFiles,    \* bound: whether a foreign file may appear in node_0
  MaxOutputs,    \* bound: signatures per session
  MaxSessions    \* bound: starts of the process

ASSUME OfflineAssumption ==
  /\ SingleDir \in BOOLEAN
  /\ StrayFiles \in BOOLEAN
  /\ MaxOutputs \in Nat
  /\ MaxSessions \in Nat \ {0}

Counters == 0 .. MaxOutputs - 1
Kinds    == {"presig", "ppd"}    \* the two pool files of node_0

VARIABLES
  pc,            \* the next file operation or prompt; a kind: its removal
  presigPool,
  ppdPool,
  sigCounter,    \* sig_counter
  name,          \* payload_file of the signature in progress
  partial,       \* partial_signature of it, and
  ppd,           \* the ppd popped with it
  (* files *)
  poolFile,      \* input node_0/<kind>_pool.msgpack: the batch it holds
  stray,         \* input node_0 holds a file of another kind
  payloadFile,   \* input_dir/<name>
  partialOut,    \* output node_0/offline_partial_sig_<c>.msgpack
  ppdOut,        \* output node_0/ppd_<c>.msgpack
  (* history and bounds *)
  supplied,      \* pool files the operator has copied to node_0
  issued,        \* every partial signature ever computed
  sessions

pools   == <<presigPool, ppdPool>>
job     == <<name, partial, ppd>>
memory  == <<pools, sigCounter, job>>
inputs  == <<poolFile, stray, payloadFile>>
outputs == <<partialOut, ppdOut>>
history == <<supplied, issued, sessions>>
vars    == <<pc, memory, inputs, outputs, history>>

LoadPcs == Kinds \cup {"read_pools", "remove_dir"}
SignPcs == {"write_partial", "write_ppd", "delete_payload"}

Init ==
  /\ pc = "down"
  /\ presigPool = <<>> /\ ppdPool = <<>> /\ sigCounter = 0
  /\ name = None /\ partial = None /\ ppd = None
  /\ poolFile = [kind \in Kinds |-> None] /\ stray = FALSE
  /\ payloadFile = [f \in Names |-> None]
  /\ partialOut = [c \in Counters |-> None]
  /\ ppdOut = [c \in Counters |-> None]
  /\ supplied = {} /\ issued = {} /\ sessions = 0

Start ==
  /\ pc = "down"
  /\ sessions < MaxSessions
  /\ sessions' = sessions + 1
  /\ pc' = "read_pools"
  /\ UNCHANGED <<memory, inputs, outputs, supplied, issued>>

\* The process ends: its memory is gone, the files stay.
Ends ==
  /\ pc' = "down"
  /\ presigPool' = <<>> /\ ppdPool' = <<>> /\ sigCounter' = 0
  /\ name' = None /\ partial' = None /\ ppd' = None
  /\ UNCHANGED <<inputs, outputs, history>>

\* The machine is switched off, or the program panics: at the prompt, for instance,
\* when the payload file is there but cannot be read.
Crash == pc # "down" /\ Ends

-----------------------------------------------------------------------------
(* load_pools, at the start of main and at every reload *)

\* Both files exist and assert_eq! finds pools of one size; which batches they
\* belong to is not compared.
PoolsReadable ==
  /\ \A kind \in Kinds : poolFile[kind] # None
  /\ PoolSize[poolFile["presig"]] = PoolSize[poolFile["ppd"]]

ReadPools ==
  /\ pc = "read_pools"
  /\ PoolsReadable
  /\ presigPool' = PoolOf(poolFile["presig"])
  /\ ppdPool' = PoolOf(poolFile["ppd"])
  /\ pc' = "presig"
  /\ UNCHANGED <<sigCounter, job, inputs, outputs, history>>

RemovePoolFile_Kept(kind) ==
  /\ pc = kind
  /\ pc' = IF kind = "presig" THEN "ppd" ELSE "remove_dir"
  /\ UNCHANGED <<memory, inputs, outputs, history>>

\* The presignature file first, then the ppd file.
RemovePoolFile(kind) ==
  /\ pc = kind
  /\ poolFile' = [poolFile EXCEPT ![kind] = None]
  /\ pc' = IF kind = "presig" THEN "ppd" ELSE "remove_dir"
  /\ UNCHANGED <<memory, stray, payloadFile, outputs, history>>

\* remove_dir needs an empty directory; with one directory for input and
\* output, the outputs nobody has collected yet are in it.
Node0IsEmpty ==
  /\ ~stray
  /\ SingleDir => \A c \in Counters : partialOut[c] = None /\ ppdOut[c] = None

RemoveDir ==
  /\ pc = "remove_dir"
  /\ Node0IsEmpty
  /\ pc' = "serve"
  /\ UNCHANGED <<memory, inputs, outputs, history>>

LoadPanics ==
  /\ \/ pc = "read_pools" /\ ~PoolsReadable
     \/ pc = "remove_dir" /\ ~Node0IsEmpty
  /\ Ends

-----------------------------------------------------------------------------
(* The signing loop *)

PressEnterReload_ResetsCounter ==
  /\ pc = "serve"
  /\ IsEmpty(presigPool)
  /\ pc' = "read_pools"
  /\ sigCounter' = 0
  /\ UNCHANGED <<pools, job, inputs, outputs, history>>

PressEnterReload ==
  /\ pc = "serve"
  /\ IsEmpty(presigPool)
  /\ pc' = "read_pools"
  /\ UNCHANGED <<memory, inputs, outputs, history>>

PopPpd_Forgotten == UNCHANGED ppdPool

PopPpd == ppdPool' = AfterPop(ppdPool)

\* A name is entered and the file exists: presignature and ppd are popped and
\* the partial signature computed, all in memory.  A missing file or an empty
\* name only repeats the prompt.
SubmitPayload(f) ==
  /\ pc = "serve"
  /\ ~IsEmpty(presigPool)
  /\ payloadFile[f] # None
  /\ sigCounter < MaxOutputs
  /\ name' = f
  /\ partial' = IssuePartialSignature(NextItem(presigPool), payloadFile[f])
  /\ ppd' = NextItem(ppdPool)
  /\ presigPool' = AfterPop(presigPool)
  /\ PopPpd
  /\ issued' = issued \cup {partial'}
  /\ pc' = "write_partial"
  /\ UNCHANGED <<sigCounter, inputs, outputs, supplied, sessions>>

WritePartial ==
  /\ pc = "write_partial"
  /\ partialOut' = [partialOut EXCEPT ![sigCounter] = partial]
  /\ pc' = "write_ppd"
  /\ UNCHANGED <<memory, inputs, ppdOut, history>>

WritePpd_Skipped ==
  /\ pc = "write_ppd"
  /\ pc' = "delete_payload"
  /\ UNCHANGED <<memory, inputs, outputs, history>>

WritePpd ==
  /\ pc = "write_ppd"
  /\ ppdOut' = [ppdOut EXCEPT ![sigCounter] = ppd]
  /\ pc' = "delete_payload"
  /\ UNCHANGED <<memory, inputs, partialOut, history>>

DeletePayload ==
  /\ pc = "delete_payload"
  /\ payloadFile' = [payloadFile EXCEPT ![name] = None]
  /\ sigCounter' = sigCounter + 1
  /\ name' = None /\ partial' = None /\ ppd' = None
  /\ pc' = "serve"
  /\ UNCHANGED <<pools, poolFile, stray, outputs, history>>

-----------------------------------------------------------------------------
(* The operator, who also runs the program: files are copied while it waits at *)
(* a prompt or is down, not between two of its file operations.                *)

Operator == pc \in {"serve", "down"} /\ UNCHANGED <<pc, memory, issued, sessions>>

\* Each pool file of a batch is moved to node_0 once.
SupplyPool(kind, b) ==
  /\ Operator
  /\ <<kind, b>> \notin supplied
  /\ supplied' = supplied \cup {<<kind, b>>}
  /\ poolFile' = [poolFile EXCEPT ![kind] = b]
  /\ UNCHANGED <<stray, payloadFile, outputs>>

ToggleStray ==
  /\ Operator
  /\ StrayFiles
  /\ stray' = ~stray
  /\ UNCHANGED <<poolFile, payloadFile, outputs, supplied>>

PutPayload(f, p) ==
  /\ Operator
  /\ payloadFile[f] = None
  /\ payloadFile' = [payloadFile EXCEPT ![f] = p]
  /\ UNCHANGED <<poolFile, stray, outputs, supplied>>

\* Both files of an output are moved to the coordinator, or loaded and removed
\* by it when the directory is shared.
CollectOutput(c) ==
  /\ Operator
  /\ partialOut[c] # None /\ ppdOut[c] # None
  /\ partialOut' = [partialOut EXCEPT ![c] = None]
  /\ ppdOut' = [ppdOut EXCEPT ![c] = None]
  /\ UNCHANGED <<inputs, supplied>>

-----------------------------------------------------------------------------

Loading ==
  \/ ReadPools
  \/ \E kind \in Kinds : RemovePoolFile(kind)
  \/ RemoveDir
  \/ LoadPanics

Signing ==
  \/ \E f \in Names : SubmitPayload(f)
  \/ WritePartial \/ WritePpd \/ DeletePayload

Copying ==
  \/ \E kind \in Kinds, b \in Batches : SupplyPool(kind, b)
  \/ ToggleStray
  \/ \E f \in Names, p \in Payloads : PutPayload(f, p)
  \/ \E c \in Counters : CollectOutput(c)

\* A session that ends only by a panic of the code's own.
NoCrashNext == Start \/ Loading \/ PressEnterReload \/ Signing \/ Copying

Next == NoCrashNext \/ Crash

Spec        == Init /\ [][Next]_vars
NoCrashSpec == Init /\ [][NoCrashNext]_vars

-----------------------------------------------------------------------------
(* Properties *)

TypeOK ==
  /\ pc \in LoadPcs \cup SignPcs \cup {"down", "serve"}
  /\ presigPool \in Seq(PresigSet) /\ ppdPool \in Seq(PresigSet)
  /\ sigCounter \in 0 .. MaxOutputs
  /\ name \in Names \cup {None}
  /\ partial \in Partial \cup {None}
  /\ ppd \in PresigSet \cup {None}
  /\ poolFile \in [Kinds -> Batches \cup {None}]
  /\ stray \in BOOLEAN
  /\ payloadFile \in [Names -> Payloads \cup {None}]
  /\ partialOut \in [Counters -> Partial \cup {None}]
  /\ ppdOut \in [Counters -> PresigSet \cup {None}]
  /\ supplied \subseteq Kinds \X Batches
  /\ issued \subseteq Partial
  /\ sessions \in 0 .. MaxSessions

\* Presignature and ppd are popped together for as long as the process lives, so
\* the n-th presignature always meets the n-th ppd, and the second pop cannot
\* find its queue empty (line 159).
PoolsAligned ==
  /\ Len(presigPool) = Len(ppdPool)
  /\ \A k \in DOMAIN presigPool : presigPool[k].index = ppdPool[k].index

\* What node 0 has signed with is in neither its pool nor its pool file, through
\* crashes at every point of load_pools and of the signing loop.
NeverSignedAgain ==
  \A sig \in issued :
    /\ \A k \in DOMAIN presigPool : presigPool[k] # sig.set
    /\ poolFile["presig"] # sig.set.batch

\* Whenever the first session is at its prompt, after any number of signatures,
\* reloads and collections, the output directory holds complete outputs only: the
\* two files of a counter are both there and belong to the same position of their
\* pools.  (A later session may find half an output of one that crashed.)
OutputsComeInPairs ==
  sessions = 1 /\ pc = "serve" =>
    \A c \in Counters :
      /\ partialOut[c] = None <=> ppdOut[c] = None
      /\ partialOut[c] # None => partialOut[c].set.index = ppdOut[c].index

\* Reloads included, a session never writes over an output of its own that has
\* not been collected.  (A later one does: its counter starts at 0 again.)
OutputsNeverOverwritten ==
  [][sessions = 1 =>
       \A c \in Counters :
         partialOut[c] # None => partialOut'[c] \in {partialOut[c], None}]_vars

\* A payload leaves the input directory only when its partial signature and a
\* ppd are on disk under the current counter: a crash loses no request.
PayloadKeptUntilExported ==
  [][\A f \in Names :
       payloadFile[f] # None /\ payloadFile'[f] = None =>
         /\ partialOut[sigCounter] # None
         /\ partialOut[sigCounter].payload = payloadFile[f]
         /\ ppdOut[sigCounter] # None]_vars

\* README, 220: all directories may be one "and prototype will work out".  Then a
\* load that has read both pools and deleted their files should end with the
\* pools in service.
LoadedPoolsAreServed ==
  [][pc = "remove_dir" => pc' = "serve"]_vars
=============================================================================
