----------------------- MODULE Initialization_proofs -----------------------
(***************************************************************************)
(* Theorems about Initialization for every set of party counts and every   *)
(* number of key generations, presignature runs and crashes.               *)
(***************************************************************************)
EXTENDS Initialization, FiniteSetTheorems, TLAPS

USE DEF Parties, args

-----------------------------------------------------------------------------
(* The inductive invariant *)

StoredPcs  == {"publish", "presign", "write_pools", "write_ppd", "prompt"}
BatchPcs   == {"write_pools", "write_ppd", "prompt"}

\* What the process has in memory at each point, and how far its loops are.
MemoryInv ==
  /\ pc \in {"down", "load", "discard", "generate"} =>
       keyShares = <<>> /\ batch = None /\ cursor = 0
  /\ pc \in StoredPcs \cup {"write_shares"} => keyShares \in [Parties -> Key]
  /\ pc \in {"write_shares", "write_pools"} => cursor < n
  /\ pc \in BatchPcs => batch \in Batch /\ batch.key = keyShares[0]

\* All files in the folder of key shares belong to one key and carry indices of
\* it; some of them may be missing or cut short.
FolderOf(k) ==
  \A i \in Slots : shareFile[i] # None => i < k.n /\ shareFile[i] \in {k, Torn}

EmptyFolder == \A i \in Slots : shareFile[i] = None

FolderInv ==
  /\ EmptyFolder \/ \E k \in Key : FolderOf(k)
  /\ pc = "generate" => EmptyFolder
  /\ pc = "write_shares" =>
       \A i \in Slots : shareFile[i] = IF i < cursor THEN keyShares[i] ELSE None
  /\ pc = "write_shares" => keyShares[0].n = n
  /\ pc \in StoredPcs => \A i \in Parties : shareFile[i] = keyShares[i]
  /\ pc = "discard" => \A k \in Key : KeyIntact(k) => n # k.n

\* What is published and exported once the shares are stored.
OutputInv ==
  /\ pc \in StoredPcs \ {"publish"} => publicKey = keyShares[0]
  /\ pc = "write_pools" => \A i \in 0 .. cursor - 1 : poolOut[i] = batch
  /\ pc = "write_ppd" => \A i \in Parties : poolOut[i] = batch
  /\ pc = "prompt" => /\ \A i \in Parties : poolOut[i] \in {batch, None}
                      /\ ppdOut = poolOut[0]

IInv == TypeOK /\ MemoryInv /\ SharesOfOneKey /\ FolderInv /\ OutputInv

\* Every run makes a batch of its own, which is written to each directory once.
ExportInv ==
  /\ \A x \in exported : x[2].run <= runs
  /\ pc = "write_pools" =>
       batch.run = runs /\ \A i \in cursor .. n - 1 : <<i, batch>> \notin exported

-----------------------------------------------------------------------------
(* Facts about the constants *)

LEMMA PartyFacts ==
  ASSUME NEW m \in Ns
  PROVE  /\ m \in Nat \ {0} /\ 0 \in 0 .. m - 1
         /\ 0 .. m - 1 \subseteq Slots
         /\ 0 \in Slots /\ Slots \subseteq Nat
         /\ {i \in Slots : i < m} = 0 .. m - 1
<1>1. m \in Nat \ {0}
  BY InitializationAssumption
<1>2. 0 .. m - 1 \subseteq Slots
  BY DEF Slots
<1>3. Slots \subseteq Nat
  BY InitializationAssumption DEF Slots
<1>4. 0 \in 0 .. m - 1 /\ 0 \in Slots
  BY <1>1, <1>2
<1>5. \A i \in Slots : i < m <=> i \in 0 .. m - 1
  BY <1>1, <1>3
<1>6. {i \in Slots : i < m} = 0 .. m - 1
  BY <1>2, <1>5
<1>7. QED
  BY <1>1, <1>2, <1>3, <1>4, <1>6

LEMMA AbsentFacts ==
  /\ None \notin Key /\ Torn \notin Key /\ None \notin Batch /\ Torn \notin Batch
  /\ None # Torn
<1>1. \A x \in Absent : x \notin Key \cup Batch
  BY AbsentAssumption
<1>2. QED
  BY <1>1, InitializationAssumption DEF Absent

-----------------------------------------------------------------------------
(* Types and memory *)

LEMMA InitIInv == Init => IInv
<1> SUFFICES ASSUME Init PROVE IInv
  OBVIOUS
<1>1. n \in Ns /\ n \in Nat \ {0}
  BY PartyFacts DEF Init
<1>2. TypeOK
  <2>1. /\ cursor \in 0 .. n /\ keys \in 0 .. MaxKeys /\ runs \in 0 .. MaxRuns
        /\ crashes \in 0 .. MaxCrashes
    BY <1>1, InitializationAssumption DEF Init
  <2>2. /\ shareFile \in [Slots -> Key \cup Absent]
        /\ poolOut \in [Slots -> Batch \cup Absent]
    BY DEF Init, Absent
  <2>3. QED
    BY <1>1, <2>1, <2>2 DEF Init, TypeOK, Absent
<1>3. MemoryInv /\ SharesOfOneKey /\ FolderInv /\ OutputInv
  BY DEF Init, MemoryInv, SharesOfOneKey, FolderInv, EmptyFolder, OutputInv,
         StoredPcs, BatchPcs
<1>4. QED
  BY <1>2, <1>3 DEF IInv

LEMMA TypeStep == IInv /\ [Next]_vars => TypeOK' /\ MemoryInv'
<1> SUFFICES ASSUME IInv, [Next]_vars PROVE TypeOK' /\ MemoryInv'
  OBVIOUS
<1> USE InitializationAssumption
    DEF TypeOK, MemoryInv, StoredPcs, BatchPcs, memory, files, bounds
<1>i. TypeOK /\ MemoryInv
  BY DEF IInv
<1>n. /\ n \in Nat \ {0} /\ 0 \in Parties /\ Parties \subseteq Slots
      /\ cursor \in 0 .. n
  BY <1>i, PartyFacts
<1>1. ASSUME NEW m \in Ns, NEW k \in Ks, Start(m, k) PROVE TypeOK' /\ MemoryInv'
  <2>1. m \in Nat \ {0}
    BY PartyFacts
  <2>2. QED
    BY <1>1, <2>1, <1>i DEF Start
<1>2. CASE LoadShares
  <2>1. keyShares' \in [Parties -> Key]
    BY <1>2, <1>i, <1>n DEF LoadShares, SharesReadable
  <2>2. QED
    BY <1>2, <2>1, <1>i DEF LoadShares
<1>3. CASE RejectShares
  BY <1>3, <1>i DEF RejectShares
<1>4. ASSUME NEW i \in Slots, DiscardShare(i) PROVE TypeOK' /\ MemoryInv'
  BY <1>4, <1>i DEF DiscardShare, Absent
<1>5. CASE DiscardEnds
  BY <1>5, <1>i DEF DiscardEnds
<1>6. CASE Generate
  <2>1. keys' \in 1 .. MaxKeys
    BY <1>6, <1>i DEF Generate
  <2>2. [id |-> keys', n |-> n] \in Key
    BY <2>1, <1>i DEF Key
  <2>3. keyShares' \in [Parties -> Key]
    BY <1>6, <2>2 DEF Generate
  <2>4. /\ pc' = "write_shares" /\ cursor' = 0 /\ batch' = None
        /\ UNCHANGED <<n, presigs, files, exported, runs, crashes>>
    BY <1>6, <1>i DEF Generate
  <2>5. QED
    BY <2>1, <2>3, <2>4, <1>i, <1>n
<1>7. CASE WriteShare
  <2>1. keyShares[cursor] \in Key /\ cursor + 1 \in 0 .. n
    BY <1>7, <1>i, <1>n DEF WriteShare
  <2>2. shareFile' \in [Slots -> Key \cup Absent]
    BY <1>7, <2>1, <1>i DEF WriteShare
  <2>3. QED
    BY <1>7, <2>1, <2>2, <1>i, <1>n DEF WriteShare
<1>8. CASE Publish
  <2>1. keyShares[0] \in Key
    BY <1>8, <1>i, <1>n DEF Publish
  <2>2. QED
    BY <1>8, <2>1, <1>i DEF Publish
<1>9. CASE Presign
  <2>1. runs' \in 1 .. MaxRuns /\ keyShares[0] \in Key
    BY <1>9, <1>i, <1>n DEF Presign
  <2>2. batch' \in Batch /\ batch'.key = keyShares[0]
    BY <1>9, <2>1 DEF Presign, Batch
  <2>3. QED
    BY <1>9, <2>1, <2>2, <1>i, <1>n DEF Presign
<1>10. CASE WritePool
  <2>1. cursor \in Slots /\ cursor + 1 \in 0 .. n /\ batch \in Batch
    BY <1>10, <1>i, <1>n DEF WritePool
  <2>2. /\ poolOut' \in [Slots -> Batch \cup Absent]
        /\ exported' \subseteq Slots \X Batch
    BY <1>10, <2>1, <1>i DEF WritePool
  <2>3. QED
    BY <1>10, <2>1, <2>2, <1>i, <1>n DEF WritePool
<1>11. CASE WritePpd
  BY <1>11, <1>i DEF WritePpd
<1>12. CASE PressEnter
  BY <1>12, <1>i DEF PressEnter
<1>13. ASSUME Ends, n' = n, exported' = exported, UNCHANGED <<keys, runs>>,
              crashes' \in 0 .. MaxCrashes, UNCHANGED files \/ CutShort
       PROVE  TypeOK' /\ MemoryInv'
  <2>1. /\ shareFile' \in [Slots -> Key \cup Absent]
        /\ publicKey' \in Key \cup Absent
        /\ poolOut' \in [Slots -> Batch \cup Absent]
        /\ ppdOut' \in Batch \cup Absent
    BY <1>13, <1>i DEF CutShort, Absent
  <2>2. QED
    BY <1>13, <2>1, <1>i, <1>n DEF Ends
<1>14. CASE PresignPanics \/ Quit
  BY <1>14, <1>13, <1>i DEF PresignPanics, Quit, Ends
<1>15. CASE Crash
  BY <1>15, <1>13, <1>i DEF Crash, Ends
<1>16. ASSUME NEW i \in Slots, TakeNode(i) PROVE TypeOK' /\ MemoryInv'
  <2>1. /\ poolOut' \in [Slots -> Batch \cup Absent]
        /\ ppdOut' \in Batch \cup Absent
    BY <1>16, <1>i DEF TakeNode, Absent
  <2>2. QED
    BY <1>16, <2>1, <1>i DEF TakeNode
<1>17. CASE UNCHANGED vars
  BY <1>17, <1>i DEF vars
<1>18. QED
  BY <1>1, <1>2, <1>3, <1>4, <1>5, <1>6, <1>7, <1>8, <1>9, <1>10, <1>11, <1>12,
     <1>14, <1>15, <1>16, <1>17 DEF Next, KeyStep, PresignStep

-----------------------------------------------------------------------------
(* The folder of key shares *)

LEMMA OneKeyStep == IInv /\ [Next]_vars => SharesOfOneKey'
<1> SUFFICES ASSUME IInv, [Next]_vars PROVE SharesOfOneKey'
  OBVIOUS
<1> USE DEF SharesOfOneKey, memory
<1>i. TypeOK /\ MemoryInv /\ SharesOfOneKey /\ FolderInv
  BY DEF IInv
<1>n. n \in Nat \ {0} /\ 0 \in Parties /\ Parties \subseteq Slots
  BY <1>i, PartyFacts DEF TypeOK
<1>1. ASSUME NEW m \in Ns, NEW k \in Ks, Start(m, k) PROVE SharesOfOneKey'
  BY <1>1, <1>i DEF Start, MemoryInv
\* Every share that parses belongs to the key of the folder.
<1>2. CASE LoadShares
  <2>1. \A i \in Parties : shareFile[i] \notin {None, Torn}
    BY <1>2 DEF LoadShares, SharesReadable, Absent
  <2>2. PICK k \in Key : FolderOf(k)
    BY <1>i, <1>n, <2>1 DEF FolderInv, EmptyFolder
  <2>3. \A i \in Parties : shareFile[i] = k
    BY <2>1, <2>2, <1>n DEF FolderOf
  <2>4. QED
    BY <1>2, <2>3, <1>n DEF LoadShares
<1>3. CASE Generate
  BY <1>3, <1>n DEF Generate
<1>4. CASE Ends
  BY <1>4 DEF Ends
<1>5. CASE UNCHANGED <<n, keyShares>>
  BY <1>5, <1>i
<1>6. QED
  BY <1>1, <1>2, <1>3, <1>4, <1>5
     DEF Next, KeyStep, PresignStep, RejectShares, DiscardShare, DiscardEnds,
         WriteShare, Publish, Presign, PresignPanics, WritePool, WritePpd,
         PressEnter, Crash, Quit, TakeNode, vars

\* A folder the program refuses holds no complete key of n parties.
LEMMA RefusedNotIntact ==
  ASSUME TypeOK, ~SharesReadable, NEW k \in Key, KeyIntact(k)
  PROVE  n # k.n
<1> SUFFICES ASSUME n = k.n PROVE FALSE
  OBVIOUS
<1>1. /\ n \in Nat \ {0} /\ Parties \subseteq Slots /\ {i \in Slots : i < n} = Parties
  BY PartyFacts DEF TypeOK
<1>2. k # None /\ k # Torn
  BY AbsentFacts
<1>3. {i \in Slots : shareFile[i] # None} = Parties
  BY <1>1, <1>2 DEF KeyIntact
<1>4. Cardinality(Parties) = n
  BY <1>1, FS_Interval
<1>5. \A i \in Parties : shareFile[i] \notin Absent
  BY <1>1, <1>2 DEF KeyIntact, Absent
<1>6. QED
  BY <1>3, <1>4, <1>5 DEF SharesReadable

LEMMA FolderStep == IInv /\ [Next]_vars => FolderInv'
<1> SUFFICES ASSUME IInv, [Next]_vars PROVE FolderInv'
  OBVIOUS
<1> USE DEF memory, files, bounds, StoredPcs
<1>i. TypeOK /\ MemoryInv /\ SharesOfOneKey /\ FolderInv
  BY DEF IInv
<1>n. /\ n \in Nat \ {0} /\ 0 \in Parties /\ Parties \subseteq Slots /\ 0 \in Slots
      /\ Slots \subseteq Nat /\ {i \in Slots : i < n} = Parties
  BY <1>i, PartyFacts DEF TypeOK
<1>a. \A k \in Key : k # None /\ k # Torn
  BY AbsentFacts
<1>k. /\ \A k \in Key : k.n \in Ns
      /\ \A k \in Key : k.n \in Nat \ {0}
  BY PartyFacts DEF Key
\* Steps that leave the folder, the shares in memory and their use alone.
<1>1. CASE /\ UNCHANGED <<shareFile, keyShares, n>>
           /\ pc \in StoredPcs /\ pc' \in StoredPcs
  BY <1>1, <1>i DEF FolderInv, EmptyFolder, FolderOf
<1>2. CASE /\ UNCHANGED shareFile
           /\ pc' \in {"down", "load"}
  BY <1>2, <1>i DEF FolderInv, EmptyFolder, FolderOf
<1>3. CASE LoadShares
  BY <1>3, <1>i DEF LoadShares, FolderInv, EmptyFolder, FolderOf
<1>4. CASE RejectShares
  <2>1. \A k \in Key : KeyIntact(k) => n # k.n
    BY <1>4, <1>i, RefusedNotIntact DEF RejectShares
  <2>2. QED
    BY <1>4, <2>1, <1>i DEF RejectShares, FolderInv, EmptyFolder, FolderOf, KeyIntact
<1>5. ASSUME NEW i \in Slots, DiscardShare(i) PROVE FolderInv'
  <2>1. /\ pc = "discard" /\ shareFile[i] # None /\ shareFile'[i] = None
        /\ \A j \in Slots \ {i} : shareFile'[j] = shareFile[j]
        /\ UNCHANGED <<pc, n, keyShares, cursor>>
    BY <1>5, <1>i DEF DiscardShare, TypeOK
  <2>2. PICK c \in Key : FolderOf(c)
    BY <2>1, <1>i DEF FolderInv, EmptyFolder
  <2>3. FolderOf(c)'
    BY <2>1, <2>2 DEF FolderOf
  <2>4. ASSUME NEW k \in Key, KeyIntact(k)' PROVE n # k.n
    <3>1. ~(i < k.n)
      BY <2>1, <2>4, <1>a DEF KeyIntact
    <3>2. i # 0
      BY <3>1, <1>k
    <3>3. shareFile[0] = k
      BY <2>1, <2>4, <3>2, <1>n, <1>k DEF KeyIntact
    <3>4. k = c
      BY <2>2, <3>3, <1>n, <1>a DEF FolderOf
    <3>5. QED
      BY <2>1, <2>2, <3>1, <3>4 DEF FolderOf
  <2>5. QED
    BY <2>1, <2>3, <2>4 DEF FolderInv
<1>6. CASE DiscardEnds
  BY <1>6, <1>i DEF DiscardEnds, FolderInv, EmptyFolder, FolderOf
<1>7. CASE Generate
  <2>1. /\ EmptyFolder' /\ pc' = "write_shares" /\ cursor' = 0 /\ keyShares'[0].n = n'
    BY <1>7, <1>i, <1>n DEF Generate, FolderInv, EmptyFolder
  <2>2. \A i \in Slots : ~(i < cursor')
    BY <2>1, <1>n
  <2>3. QED
    BY <2>1, <2>2 DEF FolderInv, EmptyFolder
\* A step that writes the share of index cursor, or a part of it.
<1>8. ASSUME pc = "write_shares", UNCHANGED n, NEW f \in {keyShares[cursor], Torn},
             shareFile' = [shareFile EXCEPT ![cursor] = f]
      PROVE  \E k \in Key : FolderOf(k)'
  <2>1. /\ keyShares[0] \in Key /\ keyShares[0].n = n /\ cursor \in Slots
        /\ cursor \in Parties
        /\ \A j \in Parties : keyShares[j] = keyShares[0]
    BY <1>8, <1>i, <1>n DEF TypeOK, MemoryInv, SharesOfOneKey, FolderInv
  <2>2. \A j \in Slots : shareFile'[j] # None =>
          j \in Parties /\ shareFile'[j] \in {keyShares[0], Torn}
    BY <1>8, <2>1, <1>i, <1>n DEF TypeOK, FolderInv
  <2>3. PICK k \in Key : k = keyShares[0]
    BY <2>1
  <2>4. FolderOf(k)'
    BY <2>1, <2>2, <2>3, <1>n DEF FolderOf
  <2>5. QED
    BY <2>4
<1>9. CASE WriteShare
  <2>1. /\ pc = "write_shares" /\ UNCHANGED <<n, keyShares>> /\ cursor' = cursor + 1
        /\ pc' = IF cursor' = n THEN "publish" ELSE "write_shares"
        /\ shareFile' = [shareFile EXCEPT ![cursor] = keyShares[cursor]]
    BY <1>9 DEF WriteShare
  <2>2. \E k \in Key : FolderOf(k)'
    BY <2>1, <1>8
  <2>3. \A j \in Slots : shareFile'[j] = IF j < cursor + 1 THEN keyShares[j] ELSE None
    BY <2>1, <1>i, <1>n DEF TypeOK, FolderInv
  <2>4. QED
    BY <2>1, <2>2, <2>3, <1>i, <1>n DEF FolderInv
<1>10. CASE Crash /\ ~UNCHANGED shareFile
  <2>1. /\ pc = "write_shares" /\ pc' = "down" /\ UNCHANGED n
        /\ shareFile' = [shareFile EXCEPT ![cursor] = Torn]
    BY <1>10 DEF Crash, CutShort, Ends
  <2>2. \E k \in Key : FolderOf(k)'
    BY <2>1, <1>8
  <2>3. QED
    BY <2>1, <2>2 DEF FolderInv
<1>11. CASE TakeNode(0) \/ (\E i \in Slots : TakeNode(i)) \/ UNCHANGED vars
  BY <1>11, <1>i DEF TakeNode, vars, FolderInv, EmptyFolder, FolderOf, KeyIntact
<1>12. QED
  BY <1>1, <1>2, <1>3, <1>4, <1>5, <1>6, <1>7, <1>9, <1>10, <1>11
     DEF Next, KeyStep, PresignStep, Start, Publish, Presign, PresignPanics,
         WritePool, WritePpd, PressEnter, Crash, Quit, Ends

-----------------------------------------------------------------------------
(* What is published and exported *)

LEMMA OutputStep == IInv /\ [Next]_vars => OutputInv'
<1> SUFFICES ASSUME IInv, [Next]_vars PROVE OutputInv'
  OBVIOUS
<1> USE DEF memory, files, bounds, StoredPcs, BatchPcs, OutputInv
<1>i. TypeOK /\ MemoryInv /\ OutputInv
  BY DEF IInv
<1>n. /\ n \in Nat \ {0} /\ 0 \in Parties /\ Parties \subseteq Slots
      /\ cursor \in 0 .. n
  BY <1>i, PartyFacts DEF TypeOK
<1>1. CASE pc' \notin StoredPcs \ {"publish"}
  BY <1>1
<1>2. CASE Publish
  BY <1>2 DEF Publish
<1>3. CASE Presign
  BY <1>3, <1>i DEF Presign
<1>4. CASE WritePool
  <2>1. /\ pc = "write_pools" /\ cursor' = cursor + 1 /\ cursor < n
        /\ pc' = IF cursor' = n THEN "write_ppd" ELSE "write_pools"
        /\ UNCHANGED <<n, keyShares, publicKey, batch>>
        /\ cursor \in Slots
    BY <1>4, <1>i, <1>n DEF WritePool, MemoryInv
  <2>2. /\ poolOut'[cursor] = batch
        /\ \A i \in Slots \ {cursor} : poolOut'[i] = poolOut[i]
    BY <1>4, <2>1, <1>i DEF WritePool, TypeOK
  <2>3. \A i \in 0 .. cursor : poolOut'[i] = batch
    BY <2>1, <2>2, <1>i, <1>n
  <2>4. QED
    BY <2>1, <2>3, <1>i, <1>n
<1>5. CASE WritePpd
  BY <1>5, <1>i, <1>n DEF WritePpd
<1>6. ASSUME NEW i \in Slots, TakeNode(i) PROVE OutputInv'
  <2>1. /\ pc \in {"prompt", "down"} /\ UNCHANGED <<pc, n, keyShares, batch, publicKey>>
        /\ poolOut'[i] = None /\ \A j \in Slots \ {i} : poolOut'[j] = poolOut[j]
        /\ ppdOut' = IF i = 0 THEN None ELSE ppdOut
    BY <1>6, <1>i DEF TakeNode, TypeOK
  <2>2. QED
    BY <2>1, <1>i, <1>n
<1>7. CASE PressEnter \/ UNCHANGED vars
  BY <1>7, <1>i DEF PressEnter, vars
<1>8. QED
  BY <1>1, <1>2, <1>3, <1>4, <1>5, <1>6, <1>7
     DEF Next, KeyStep, PresignStep, Start, LoadShares, RejectShares,
         DiscardShare, DiscardEnds, Generate, WriteShare, PresignPanics, Crash,
         Quit, Ends

LEMMA ExportStep == IInv /\ ExportInv /\ [Next]_vars => ExportInv'
<1> SUFFICES ASSUME IInv, ExportInv, [Next]_vars PROVE ExportInv'
  OBVIOUS
<1> USE DEF memory, files, bounds, ExportInv
<1>i. TypeOK /\ MemoryInv /\ ExportInv
  BY DEF IInv
<1>n. n \in Nat \ {0} /\ cursor \in 0 .. n /\ runs \in Nat
  BY <1>i, PartyFacts DEF TypeOK
<1>x. \A x \in exported : x[2].run \in Nat
  <2>1. \A x \in exported : x[2] \in Batch
    BY <1>i DEF TypeOK
  <2>2. \A b \in Batch : b.run \in Nat
    BY DEF Batch
  <2>3. QED
    BY <2>1, <2>2
<1>1. CASE UNCHANGED <<exported, runs>> /\ pc' # "write_pools"
  BY <1>1, <1>i
<1>2. CASE Presign
  <2>1. runs' = runs + 1 /\ batch'.run = runs + 1 /\ UNCHANGED exported
    BY <1>2 DEF Presign
  <2>2. \A i : <<i, batch'>> \notin exported
    <3>1. SUFFICES ASSUME NEW i, <<i, batch'>> \in exported PROVE FALSE
      OBVIOUS
    <3>2. batch'.run <= runs
      BY <3>1
    <3>3. QED
      BY <3>2, <2>1, <1>n
  <2>3. QED
    BY <2>1, <2>2, <1>i, <1>n, <1>x
<1>3. CASE WritePool
  <2>1. /\ pc = "write_pools" /\ cursor' = cursor + 1 /\ UNCHANGED <<n, batch, runs>>
        /\ exported' = exported \cup {<<cursor, batch>>}
    BY <1>3 DEF WritePool
  <2>2. \A x \in exported' : x[2].run <= runs
    BY <2>1, <1>i, <1>n
  <2>3. \A i \in cursor + 1 .. n - 1 : <<i, batch>> \notin exported'
    BY <2>1, <1>i, <1>n
  <2>4. QED
    BY <2>1, <2>2, <2>3, <1>i
<1>4. CASE UNCHANGED vars
  BY <1>4, <1>i DEF vars
<1>5. QED
  BY <1>1, <1>2, <1>3, <1>4
     DEF Next, KeyStep, PresignStep, Start, LoadShares, RejectShares, DiscardShare,
         DiscardEnds, Generate, WriteShare, Publish, PresignPanics, WritePpd,
         PressEnter, Crash, Quit, Ends, TakeNode

-----------------------------------------------------------------------------
(* Starts with one and the same number of parties *)

\* While n stays what it is, every key on disk was made for n parties, and a key
\* that is published or about to be has all of its shares in the folder.
OnePartyCount ==
  /\ publicKey \in Key => publicKey.n = n /\ KeyIntact(publicKey)
  /\ pc \in StoredPcs => keyShares[0].n = n /\ KeyIntact(keyShares[0])
  /\ \A i \in Slots : shareFile[i] \in Key => shareFile[i].n = n

\* A folder that is accepted holds the shares of one key and nothing else.
LEMMA LoadedIntact ==
  ASSUME IInv, OnePartyCount, LoadShares
  PROVE  shareFile[0].n = n /\ KeyIntact(shareFile[0])
<1> DEFINE Files == {i \in Slots : shareFile[i] # None}
<1>1. /\ n \in Nat \ {0} /\ 0 \in Parties /\ Parties \subseteq Slots
      /\ {i \in Slots : i < n} = Parties
  BY PartyFacts DEF IInv, TypeOK
<1>2. /\ \A i \in Parties : shareFile[i] \in Key
      /\ Cardinality(Files) = n
  BY <1>1 DEF LoadShares, SharesReadable, IInv, TypeOK
<1>3. \A i \in Parties : shareFile[i] = shareFile[0]
  <2>1. IInv => FolderInv /\ TypeOK
    BY DEF IInv
  <2>2. PICK k \in Key : FolderOf(k)
    BY <1>1, <1>2, <2>1, AbsentFacts DEF FolderInv, EmptyFolder
  <2>3. QED
    BY <1>1, <1>2, <2>2, AbsentFacts DEF FolderOf
<1>4. Files = Parties
  <2>1. Parties \subseteq Files
    BY <1>1, <1>2, AbsentFacts
  <2>2. \E k \in Key : FolderOf(k)
    BY <1>1, <1>2, AbsentFacts DEF IInv, FolderInv, EmptyFolder
  <2>3. shareFile[0] \in Key /\ shareFile[0].n = n
    BY <1>1, <1>2 DEF OnePartyCount
  <2>4. \A i \in Files : i < n
    BY <1>1, <1>2, <2>2, <2>3, AbsentFacts DEF FolderOf
  <2>5. QED
    BY <1>1, <2>1, <2>4
<1>5. QED
  BY <1>1, <1>2, <1>3, <1>4 DEF OnePartyCount, KeyIntact

LEMMA OnePartyCountStep ==
  ASSUME IInv, OnePartyCount, [Next]_vars, n' = n
  PROVE  OnePartyCount'
<1> USE DEF memory, files, bounds, StoredPcs
<1>i. TypeOK /\ MemoryInv /\ SharesOfOneKey /\ FolderInv
  BY DEF IInv
<1>n. /\ n \in Nat \ {0} /\ 0 \in Parties /\ Parties \subseteq Slots
      /\ {i \in Slots : i < n} = Parties /\ Slots \subseteq Nat
  BY <1>i, PartyFacts DEF TypeOK
<1>a. None \notin Key /\ Torn \notin Key
  BY AbsentFacts
\* Steps that leave the folder alone.
<1>1. CASE /\ UNCHANGED <<shareFile, publicKey>>
           /\ pc' \in StoredPcs => pc \in StoredPcs /\ UNCHANGED keyShares
  BY <1>1 DEF OnePartyCount, KeyIntact
<1>2. CASE LoadShares
  BY <1>2, <1>n, LoadedIntact DEF LoadShares, OnePartyCount, KeyIntact
\* A folder that is being removed or filled is not the one of a published key.
<1>3. ASSUME pc \in {"discard", "write_shares"} PROVE publicKey \notin Key
  <2>1. CASE pc = "discard"
    BY <2>1, <1>i DEF FolderInv, OnePartyCount
  <2>2. CASE pc = "write_shares"
    <3>1. cursor \in Parties /\ shareFile[cursor] = None
      BY <2>2, <1>i, <1>n DEF TypeOK, MemoryInv, FolderInv
    <3>2. QED
      BY <3>1, <1>n, <1>a DEF OnePartyCount, KeyIntact
  <2>3. QED
    BY <1>3, <2>1, <2>2
<1>4. ASSUME NEW i \in Slots, DiscardShare(i) PROVE OnePartyCount'
  BY <1>3, <1>4, <1>i, <1>a DEF DiscardShare, OnePartyCount, TypeOK
<1>5. CASE WriteShare
  <2>1. /\ pc = "write_shares" /\ UNCHANGED <<keyShares, publicKey>>
        /\ cursor' = cursor + 1 /\ cursor \in Parties
        /\ pc' = IF cursor' = n THEN "publish" ELSE "write_shares"
        /\ shareFile' = [shareFile EXCEPT ![cursor] = keyShares[cursor]]
        /\ \A j \in Parties : keyShares[j] = keyShares[0]
        /\ keyShares[0].n = n
    BY <1>5, <1>i, <1>n DEF WriteShare, TypeOK, MemoryInv, FolderInv, SharesOfOneKey
  <2>2. \A j \in Slots : shareFile'[j] = IF j < cursor + 1 THEN keyShares[j] ELSE None
    <3>1. \A j \in Slots :
            shareFile'[j] = IF j = cursor THEN keyShares[j] ELSE shareFile[j]
      BY <2>1, <1>i DEF TypeOK
    <3>2. \A j \in Slots : shareFile[j] = IF j < cursor THEN keyShares[j] ELSE None
      BY <2>1, <1>i DEF FolderInv
    <3>3. \A j \in Slots : j < cursor + 1 <=> j < cursor \/ j = cursor
      BY <2>1, <1>n
    <3>4. QED
      BY <3>1, <3>2, <3>3
  <2>3. \A j \in Slots : shareFile'[j] \in Key => shareFile'[j] = keyShares[0]
    <3>1. \A j \in Slots : j < cursor + 1 => j \in Parties
      BY <2>1, <1>n
    <3>2. QED
      BY <2>1, <2>2, <3>1, <1>a
  <2>4. cursor + 1 = n => \A j \in Slots :
                            shareFile'[j] = IF j < n THEN keyShares[0] ELSE None
    BY <2>1, <2>2, <1>n
  <2>5. QED
    BY <1>3, <2>1, <2>3, <2>4 DEF OnePartyCount, KeyIntact
<1>6. CASE Publish
  BY <1>6 DEF Publish, OnePartyCount, KeyIntact
<1>7. CASE Crash
  <2>1. pc' = "down"
    BY <1>7 DEF Crash, Ends
  <2>2. CASE pc = "write_shares"
    <3>1. \A j \in Slots : shareFile'[j] \in Key => shareFile'[j] = shareFile[j]
      BY <1>7, <2>2, <1>i, <1>a DEF Crash, CutShort, TypeOK
    <3>2. publicKey' = publicKey
      BY <1>7, <2>2 DEF Crash, CutShort
    <3>3. QED
      BY <1>3, <2>1, <2>2, <3>1, <3>2 DEF OnePartyCount
  <2>3. CASE pc # "write_shares"
    <3>1. shareFile' = shareFile /\ publicKey' \in {publicKey, Torn}
      BY <1>7, <2>3 DEF Crash, CutShort
    <3>2. QED
      BY <2>1, <3>1, <1>a DEF OnePartyCount, KeyIntact
  <2>4. QED
    BY <2>2, <2>3
<1>8. QED
  BY <1>1, <1>2, <1>4, <1>5, <1>6, <1>7
     DEF Next, KeyStep, PresignStep, Start, RejectShares, DiscardEnds, Generate,
         Presign, PresignPanics, WritePool, WritePpd, PressEnter, Quit, Ends,
         TakeNode, vars

-----------------------------------------------------------------------------
(* The theorems *)

\* What the folder of key shares and the exports hold at each file operation is
\* invariant, crashes in the middle of writing or removing them included.
THEOREM IInvHolds == Spec => []IInv
<1>1. IInv /\ [Next]_vars => IInv'
  BY TypeStep, OneKeyStep, FolderStep, OutputStep DEF IInv
<1>2. QED
  BY InitIInv, <1>1, PTL DEF Spec

LEMMA SharesLoaded ==
  ASSUME IInv, pc \in StoredPcs
  PROVE  keyShares # <<>>
<1>1. keyShares \in [Parties -> Key] /\ 0 \in Parties
  BY PartyFacts DEF IInv, TypeOK, MemoryInv
<1>2. DOMAIN keyShares # {}
  BY <1>1
<1>3. DOMAIN <<>> = {}
  OBVIOUS
<1>4. QED
  BY <1>2, <1>3

\* Every variable keeps its type: no loop of the program runs past the last party,
\* and no share is read that does not parse.
THEOREM TypeCorrect == Spec => []TypeOK
<1>1. IInv => TypeOK
  BY DEF IInv
<1>2. QED
  BY IInvHolds, <1>1, PTL

\* The shares in memory come from one key generation, for any sequence of party
\* counts and any crashes while the folder was written or removed.
THEOREM OneKey == Spec => []SharesOfOneKey
<1>1. IInv => SharesOfOneKey
  BY DEF IInv
<1>2. QED
  BY IInvHolds, <1>1, PTL

\* Whenever the program asks for ENTER, key shares, published key, pools and ppd
\* pool on disk fit together.
THEOREM OutputAgrees == Spec => []OutputAgreesAtPrompt
<1>1. IInv => OutputAgreesAtPrompt
  <2>1. SUFFICES ASSUME IInv, pc = "prompt"
                 PROVE  /\ \A i \in Parties : shareFile[i] = publicKey
                        /\ batch.key = publicKey
                        /\ \A i \in Parties : poolOut[i] \in {batch, None}
                        /\ ppdOut = poolOut[0]
    BY DEF OutputAgreesAtPrompt
  <2>2. keyShares # <<>>
    BY <2>1, SharesLoaded DEF StoredPcs
  <2>3. \A i \in Parties : shareFile[i] = keyShares[0]
    BY <2>1, <2>2 DEF IInv, FolderInv, StoredPcs, SharesOfOneKey
  <2>4. QED
    BY <2>1, <2>3 DEF IInv, MemoryInv, OutputInv, StoredPcs, BatchPcs
<1>2. QED
  BY IInvHolds, <1>1, PTL

\* Started with the same number of parties every time, the program publishes a key
\* only when all of its shares are on disk, and keeps them there.
THEOREM PublishedSpendable == Spec => PublishedKeySpendable
<1> DEFINE Spendable == publicKey \in Key => KeyIntact(publicKey)
<1>1. Init => OnePartyCount
  BY AbsentFacts DEF Init, OnePartyCount, StoredPcs
<1>2. ASSUME NEW m \in Ns
      PROVE  Spec => ([](n = m) => []Spendable)
  <2>1. IInv /\ OnePartyCount /\ [Next]_vars /\ n = m /\ (n = m)' => OnePartyCount'
    BY OnePartyCountStep
  <2>2. OnePartyCount => Spendable
    BY DEF OnePartyCount
  <2>3. QED
    BY IInvHolds, <1>1, <2>1, <2>2, PTL DEF Spec
<1>3. QED
  BY <1>2 DEF PublishedKeySpendable

\* A complete folder of key shares is given up only by a start with another number
\* of parties.
THEOREM KeyKept == Spec => KeyDiscardedOnlyOnResize
<1> DEFINE Step == \A k \in Key : KeyIntact(k) /\ ~KeyIntact(k)' => n # k.n
<1>1. IInv /\ [Next]_vars => [Step]_vars
  <2> SUFFICES ASSUME IInv, [Next]_vars, NEW k \in Key, KeyIntact(k), ~KeyIntact(k)'
               PROVE  n # k.n
    OBVIOUS
  <2>i. /\ TypeOK /\ MemoryInv /\ FolderInv
        /\ n \in Nat \ {0} /\ Parties \subseteq Slots /\ cursor \in 0 .. n
        /\ k # None
    BY PartyFacts, AbsentFacts DEF IInv, TypeOK
  <2>1. pc \in {"discard", "write_shares"}
    BY DEF Next, KeyStep, PresignStep, Start, LoadShares, RejectShares, DiscardShare,
           DiscardEnds, Generate, WriteShare, Publish, Presign, PresignPanics,
           WritePool, WritePpd, PressEnter, Crash, CutShort, Quit, TakeNode, vars,
           files, KeyIntact
  <2>2. CASE pc = "discard"
    BY <2>2, <2>i DEF FolderInv
  \* The share under the cursor is missing.
  <2>3. CASE pc = "write_shares"
    <3>1. cursor \in Parties /\ shareFile[cursor] = None
      BY <2>3, <2>i DEF MemoryInv, FolderInv
    <3>2. QED
      BY <3>1, <2>i DEF KeyIntact
  <2>4. QED
    BY <2>1, <2>2, <2>3
<1>2. QED
  BY IInvHolds, <1>1, PTL DEF Spec, KeyDiscardedOnlyOnResize

THEOREM ExportInvHolds == Spec => []ExportInv
<1>1. Init => ExportInv
  BY DEF Init, ExportInv
<1>2. QED
  BY IInvHolds, <1>1, ExportStep, PTL DEF Spec

\* No pool file is ever written to a directory a second time.
THEOREM NeverReissued == Spec => PoolsNeverReissued
<1> DEFINE Step ==
      \A i \in Slots :
        poolOut'[i] # poolOut[i] /\ poolOut'[i] \notin Absent =>
          <<i, poolOut'[i]>> \notin exported
<1>1. IInv /\ ExportInv /\ [Next]_vars => [Step]_vars
  <2> SUFFICES ASSUME IInv, ExportInv, [Next]_vars, NEW i \in Slots,
                      poolOut'[i] # poolOut[i], poolOut'[i] \notin Absent
               PROVE  <<i, poolOut'[i]>> \notin exported
    OBVIOUS
  <2>1. TypeOK /\ MemoryInv
    BY DEF IInv
  <2>2. WritePool
    <3>1. ASSUME NEW j \in Slots, TakeNode(j) PROVE FALSE
      BY <3>1, <2>1 DEF TakeNode, TypeOK, Absent
    <3>2. ASSUME Crash PROVE FALSE
      BY <3>2, <2>1 DEF Crash, CutShort, files, TypeOK
    <3>3. QED
      BY <3>1, <3>2
         DEF Next, KeyStep, PresignStep, Start, LoadShares, RejectShares,
             DiscardShare, DiscardEnds, Generate, WriteShare, Publish, Presign,
             PresignPanics, WritePpd, PressEnter, Quit, vars, files
  <2>3. i = cursor /\ poolOut'[i] = batch
    BY <2>1, <2>2 DEF WritePool, TypeOK
  <2>4. cursor \in cursor .. n - 1
    BY <2>1, <2>2, PartyFacts DEF WritePool, TypeOK, MemoryInv
  <2>5. QED
    BY <2>2, <2>3, <2>4 DEF WritePool, ExportInv
<1>2. QED
  BY IInvHolds, ExportInvHolds, <1>1, PTL DEF Spec, PoolsNeverReissued
=============================================================================
