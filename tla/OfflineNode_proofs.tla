------------------------- MODULE OfflineNode_proofs -------------------------
(***************************************************************************)
(* Theorems about OfflineNode for every choice of batches, pool sizes,     *)
(* payloads and bounds, with one directory for input and output or two.    *)
(***************************************************************************)
EXTENDS OfflineNode, FiniteSetTheorems, TLAPS

-----------------------------------------------------------------------------
(* Pools and presignature sets *)

LEMMA PoolOfType ==
  ASSUME NEW b \in Batches
  PROVE  /\ PoolOf(b) \in Seq(PresigSet)
         /\ Len(PoolOf(b)) = PoolSize[b]
         /\ PoolSize[b] \in Nat
         /\ DOMAIN PoolOf(b) = 1 .. PoolSize[b]
         /\ \A k \in DOMAIN PoolOf(b) : PoolOf(b)[k] = [batch |-> b, index |-> k]
<1>1. PoolSize[b] \in Nat
  BY BatchAssumption
<1>2. \A k \in 1 .. PoolSize[b] : [batch |-> b, index |-> k] \in PresigSet
  BY DEF PresigSet
<1>3. QED
  BY <1>1, <1>2 DEF PoolOf

LEMMA AfterPopType ==
  ASSUME NEW S, NEW q \in Seq(S), q # <<>>
  PROVE  /\ NextItem(q) \in S
         /\ AfterPop(q) \in Seq(S)
         /\ Len(AfterPop(q)) = Len(q) - 1
         /\ Len(q) > 0
         /\ \A k \in DOMAIN AfterPop(q) : AfterPop(q)[k] = q[k + 1]
         /\ NextItem(q) = q[1]
  BY DEF NextItem, AfterPop

LEMMA PresigFields ==
  ASSUME NEW s \in PresigSet
  PROVE  /\ s.batch \in Batches /\ s.index \in 1 .. PoolSize[s.batch]
         /\ s.index \in Nat /\ PoolSize[s.batch] \in Nat
         /\ s = [batch |-> s.batch, index |-> s.index]
<1>1. PICK b \in Batches : \E k \in 1 .. PoolSize[b] : s = [batch |-> b, index |-> k]
  BY DEF PresigSet
<1>2. PICK k \in 1 .. PoolSize[b] : s = [batch |-> b, index |-> k]
  BY <1>1
<1>3. PoolSize[b] \in Nat
  BY BatchAssumption
<1>4. QED
  BY <1>2, <1>3

LEMMA PartialFields ==
  ASSUME NEW sig \in Partial
  PROVE  /\ sig.set \in PresigSet /\ sig.payload \in Payloads
         /\ sig = [set |-> sig.set, payload |-> sig.payload]
  BY DEF Partial

USE DEF Kinds, Counters

-----------------------------------------------------------------------------
(* The inductive invariant *)

\* Between the prompt and the next prompt the partial signature in memory is that
\* of the payload file, and the files written so far are its outputs.
JobInv ==
  /\ pc \in SignPcs =>
       /\ sigCounter < MaxOutputs
       /\ name \in Names /\ payloadFile[name] # None
       /\ partial \in Partial /\ partial.payload = payloadFile[name]
       /\ ppd \in PresigSet /\ ppd.index = partial.set.index
  /\ pc \in {"write_ppd", "delete_payload"} => partialOut[sigCounter] = partial
  /\ pc = "delete_payload" => ppdOut[sigCounter] = ppd

\* A batch whose pool file was brought to node 0 and is not there any more.
LeftDisk(b) == <<"presig", b>> \in supplied /\ b # poolFile["presig"]

\* load_pools reads the pools before it removes their files: only there, a batch
\* is on disk and in memory.
PoolFresh ==
  IF pc = "presig"
    THEN /\ poolFile["presig"] \in Batches
         /\ presigPool = PoolOf(poolFile["presig"])
    ELSE \A k \in DOMAIN presigPool : LeftDisk(presigPool[k].batch)

PoolOrdered ==
  \A j, k \in DOMAIN presigPool :
    /\ presigPool[j].batch = presigPool[k].batch
    /\ j < k => presigPool[j].index < presigPool[k].index

FreshInv ==
  /\ poolFile["presig"] # None => <<"presig", poolFile["presig"]>> \in supplied
  /\ PoolFresh
  /\ PoolOrdered
  /\ \A sig \in issued :
       /\ LeftDisk(sig.set.batch)
       /\ \A k \in DOMAIN presigPool :
            sig.set.batch = presigPool[k].batch => sig.set.index < presigPool[k].index

IInv == TypeOK /\ PoolsAligned /\ JobInv /\ FreshInv

\* The output files of the first session: those of the counters it has used are
\* in pairs, but for the one it is writing, and those after it do not exist.
InPair(c) ==
  /\ partialOut[c] = None <=> ppdOut[c] = None
  /\ partialOut[c] # None => partialOut[c].set.index = ppdOut[c].index

Unused(c) == partialOut[c] = None /\ ppdOut[c] = None

OutputInv ==
  /\ sessions = 0 => pc = "down" /\ \A c \in Counters : Unused(c)
  /\ sessions = 1 /\ pc # "down" =>
       \A c \in Counters :
         /\ InPair(c) \/ (pc = "write_ppd" /\ c = sigCounter)
         /\ c > sigCounter => Unused(c)
         /\ c = sigCounter => Unused(c) \/ pc \in {"write_ppd", "delete_payload"}

-----------------------------------------------------------------------------
(* IInv is inductive *)

\* The memory of a program that is not running.
LEMMA DownType ==
  /\ <<>> \in Seq(PresigSet) /\ "down" \in LoadPcs \cup SignPcs \cup {"down", "serve"}
  /\ 0 \in 0 .. MaxOutputs /\ 0 \in 0 .. MaxSessions
  BY OfflineAssumption

LEMMA InitIInv == Init => IInv
<1> SUFFICES ASSUME Init PROVE IInv
  OBVIOUS
<1>1. TypeOK
  BY DownType, OfflineAssumption DEF Init, TypeOK
<1>2. PoolsAligned /\ JobInv /\ FreshInv
  BY DEF Init, PoolsAligned, JobInv, SignPcs, FreshInv, PoolFresh, PoolOrdered
<1>3. QED
  BY <1>1, <1>2 DEF IInv

\* The partial signature and the ppd popped for a payload.
LEMMA SubmitFacts ==
  ASSUME IInv, NEW f \in Names, SubmitPayload(f)
  PROVE  /\ presigPool' \in Seq(PresigSet) /\ ppdPool' \in Seq(PresigSet)
         /\ Len(presigPool) > 0
         /\ Len(presigPool') = Len(presigPool) - 1
         /\ Len(ppdPool') = Len(ppdPool) - 1
         /\ \A k \in DOMAIN presigPool' : presigPool'[k] = presigPool[k + 1]
         /\ \A k \in DOMAIN ppdPool' : ppdPool'[k] = ppdPool[k + 1]
         /\ partial' \in Partial
         /\ partial'.set = presigPool[1] /\ partial'.payload = payloadFile[f]
         /\ ppd' \in PresigSet /\ ppd' = ppdPool[1]
         /\ issued' = issued \cup {partial'}
<1>1. /\ presigPool \in Seq(PresigSet) /\ presigPool # <<>>
      /\ ppdPool \in Seq(PresigSet) /\ Len(presigPool) = Len(ppdPool)
      /\ payloadFile[f] \in Payloads
  BY DEF IInv, TypeOK, PoolsAligned, SubmitPayload, IsEmpty
<1>2. ppdPool # <<>>
  BY <1>1
<1>3. /\ NextItem(presigPool) \in PresigSet /\ NextItem(presigPool) = presigPool[1]
      /\ AfterPop(presigPool) \in Seq(PresigSet)
      /\ Len(AfterPop(presigPool)) = Len(presigPool) - 1 /\ Len(presigPool) > 0
      /\ \A k \in DOMAIN AfterPop(presigPool) :
           AfterPop(presigPool)[k] = presigPool[k + 1]
  BY <1>1, AfterPopType
<1>4. /\ NextItem(ppdPool) \in PresigSet /\ NextItem(ppdPool) = ppdPool[1]
      /\ AfterPop(ppdPool) \in Seq(PresigSet)
      /\ Len(AfterPop(ppdPool)) = Len(ppdPool) - 1
      /\ \A k \in DOMAIN AfterPop(ppdPool) : AfterPop(ppdPool)[k] = ppdPool[k + 1]
  BY <1>1, <1>2, AfterPopType
<1>5. partial' = [set |-> presigPool[1], payload |-> payloadFile[f]]
  BY <1>3 DEF SubmitPayload, IssuePartialSignature
<1>6. partial' \in Partial
  BY <1>1, <1>3, <1>5 DEF Partial
<1>7. QED
  BY <1>3, <1>4, <1>5, <1>6 DEF SubmitPayload, PopPpd

LEMMA TypeStep == IInv /\ [Next]_vars => TypeOK'
<1> SUFFICES ASSUME IInv, [Next]_vars PROVE TypeOK'
  OBVIOUS
<1> USE OfflineAssumption DEF TypeOK, LoadPcs, SignPcs, pools, job, memory,
        inputs, outputs, history
<1>i. TypeOK /\ JobInv
  BY DEF IInv
<1>1. CASE Start
  BY <1>1, <1>i DEF Start
<1>2. CASE Crash \/ LoadPanics
  BY <1>2, DownType, <1>i DEF Crash, LoadPanics, Ends
<1>3. CASE ReadPools
  <2>1. poolFile["presig"] \in Batches /\ poolFile["ppd"] \in Batches
    BY <1>3, <1>i DEF ReadPools, PoolsReadable
  <2>2. presigPool' \in Seq(PresigSet) /\ ppdPool' \in Seq(PresigSet)
    BY <1>3, <2>1, PoolOfType DEF ReadPools
  <2>3. QED
    BY <1>3, <2>2, <1>i DEF ReadPools
<1>4. ASSUME NEW kind \in Kinds, RemovePoolFile(kind) PROVE TypeOK'
  BY <1>4, <1>i DEF RemovePoolFile
<1>5. CASE RemoveDir
  BY <1>5, <1>i DEF RemoveDir
<1>6. CASE PressEnterReload
  BY <1>6, <1>i DEF PressEnterReload
<1>7. ASSUME NEW f \in Names, SubmitPayload(f) PROVE TypeOK'
  BY <1>7, <1>i, SubmitFacts DEF SubmitPayload
<1>8. CASE WritePartial
  BY <1>8, <1>i DEF WritePartial
<1>9. CASE WritePpd
  BY <1>9, <1>i DEF WritePpd
<1>10. CASE DeletePayload
  <2>1. sigCounter + 1 \in 0 .. MaxOutputs
    BY <1>10, <1>i DEF DeletePayload, JobInv
  <2>2. payloadFile' \in [Names -> Payloads \cup {None}]
    BY <1>10, <1>i DEF DeletePayload
  <2>3. QED
    BY <1>10, <2>1, <2>2, <1>i DEF DeletePayload
<1>11. ASSUME NEW kind \in Kinds, NEW b \in Batches, SupplyPool(kind, b)
       PROVE  TypeOK'
  <2>1. supplied' \subseteq Kinds \X Batches
    BY <1>11, <1>i DEF SupplyPool
  <2>2. QED
    BY <1>11, <2>1, <1>i DEF SupplyPool, Operator
<1>12. CASE ToggleStray
  BY <1>12, <1>i DEF ToggleStray, Operator
<1>13. ASSUME NEW f \in Names, NEW p \in Payloads, PutPayload(f, p) PROVE TypeOK'
  BY <1>13, <1>i DEF PutPayload, Operator
<1>14. ASSUME NEW c \in Counters, CollectOutput(c) PROVE TypeOK'
  BY <1>14, <1>i DEF CollectOutput, Operator
<1>15. CASE UNCHANGED vars
  BY <1>15, <1>i DEF vars
<1>16. QED
  BY <1>1, <1>2, <1>3, <1>4, <1>5, <1>6, <1>7, <1>8, <1>9, <1>10, <1>11, <1>12,
     <1>13, <1>14, <1>15 DEF Next, NoCrashNext, Loading, Signing, Copying

LEMMA AlignedStep == IInv /\ [Next]_vars => PoolsAligned'
<1> SUFFICES ASSUME IInv, [Next]_vars PROVE PoolsAligned'
  OBVIOUS
<1> USE DEF pools, job, memory
<1>i. TypeOK /\ PoolsAligned
  BY DEF IInv
<1>1. CASE UNCHANGED pools
  BY <1>1, <1>i DEF PoolsAligned
<1>2. CASE Ends
  BY <1>2 DEF Ends, PoolsAligned
<1>3. CASE ReadPools
  <2>1. poolFile["presig"] \in Batches /\ poolFile["ppd"] \in Batches
    BY <1>3, <1>i DEF ReadPools, PoolsReadable, TypeOK
  <2>2. QED
    BY <1>3, <2>1, PoolOfType DEF ReadPools, PoolsReadable, PoolsAligned
<1>4. ASSUME NEW f \in Names, SubmitPayload(f) PROVE PoolsAligned'
  <2>1. /\ presigPool' \in Seq(PresigSet) /\ Len(presigPool) > 0
        /\ ppdPool' \in Seq(PresigSet) /\ Len(presigPool) \in Nat
        /\ Len(presigPool') = Len(presigPool) - 1
        /\ Len(ppdPool') = Len(ppdPool) - 1
        /\ \A k \in DOMAIN presigPool' : presigPool'[k] = presigPool[k + 1]
        /\ \A k \in DOMAIN ppdPool' : ppdPool'[k] = ppdPool[k + 1]
    BY <1>4, <1>i, SubmitFacts DEF TypeOK
  <2>2. \A k \in DOMAIN presigPool' : k + 1 \in DOMAIN presigPool /\ k \in DOMAIN ppdPool'
    BY <2>1, <1>i DEF TypeOK, PoolsAligned
  <2>3. QED
    BY <2>1, <2>2, <1>i DEF PoolsAligned
<1>5. QED
  BY <1>1, <1>2, <1>3, <1>4
     DEF Next, NoCrashNext, Loading, Signing, Copying, Start, Crash, LoadPanics,
         RemovePoolFile, RemoveDir, PressEnterReload, WritePartial, WritePpd,
         DeletePayload, SupplyPool, ToggleStray, PutPayload, CollectOutput,
         Operator, vars

LEMMA JobStep == IInv /\ [Next]_vars => JobInv'
<1> SUFFICES ASSUME IInv, [Next]_vars PROVE JobInv'
  OBVIOUS
<1> USE DEF pools, job, memory, inputs, outputs, SignPcs, JobInv
<1>i. TypeOK /\ PoolsAligned /\ JobInv
  BY DEF IInv
\* Only the signing loop is between two prompts: the other steps do not lead there.
<1>1. CASE pc' \notin SignPcs
  BY <1>1
<1>2. CASE UNCHANGED vars
  BY <1>2, <1>i DEF vars
<1>3. ASSUME NEW f \in Names, SubmitPayload(f) PROVE JobInv'
  <2>1. /\ partial' \in Partial /\ partial'.payload = payloadFile[f]
        /\ partial'.set = presigPool[1] /\ Len(presigPool) > 0
        /\ ppd' \in PresigSet /\ ppd' = ppdPool[1]
    BY <1>3, SubmitFacts
  <2>2. ppd'.index = partial'.set.index
    BY <2>1, <1>i DEF PoolsAligned, TypeOK
  <2>3. QED
    BY <1>3, <2>1, <2>2 DEF SubmitPayload
<1>4. CASE WritePartial
  BY <1>4, <1>i, OfflineAssumption DEF WritePartial, TypeOK
<1>5. CASE WritePpd
  BY <1>5, <1>i, OfflineAssumption DEF WritePpd, TypeOK
<1>6. QED
  BY <1>1, <1>2, <1>3, <1>4, <1>5
     DEF Next, NoCrashNext, Loading, Signing, Copying, Start, Crash, LoadPanics,
         Ends, ReadPools, RemovePoolFile, RemoveDir, PressEnterReload,
         DeletePayload, SupplyPool, ToggleStray, PutPayload, CollectOutput, Operator

LEMMA FreshStep == IInv /\ [Next]_vars => FreshInv'
<1> SUFFICES ASSUME IInv, [Next]_vars PROVE FreshInv'
  OBVIOUS
<1> USE DEF pools, job, memory, inputs, outputs, history
<1>i. TypeOK /\ FreshInv
  BY DEF IInv
<1>p. presigPool \in Seq(PresigSet) /\ issued \subseteq Partial
  BY <1>i DEF TypeOK
<1>b. /\ \A k \in DOMAIN presigPool :
           presigPool[k].batch \in Batches /\ presigPool[k].index \in Nat
      /\ \A sig \in issued : sig.set.batch \in Batches
  <2>1. \A k \in DOMAIN presigPool : presigPool[k] \in PresigSet
    BY <1>p
  <2>2. \A sig \in issued : sig.set \in PresigSet
    BY <1>p, PartialFields
  <2>3. QED
    BY <2>1, <2>2, PresigFields
\* Steps that touch neither the pool nor its file nor the history.
<1>1. CASE /\ UNCHANGED <<presigPool, issued, supplied>>
           /\ poolFile'["presig"] = poolFile["presig"]
           /\ pc = "presig" <=> pc' = "presig"
  BY <1>1, <1>i DEF FreshInv, PoolFresh, PoolOrdered, LeftDisk
<1>2. CASE Ends
  <2>1. presigPool' = <<>> /\ pc' = "down" /\ UNCHANGED <<poolFile, supplied, issued>>
    BY <1>2 DEF Ends
  <2>2. DOMAIN presigPool' = {}
    BY <2>1
  <2>3. QED
    BY <2>1, <2>2, <1>i DEF FreshInv, PoolFresh, PoolOrdered, LeftDisk
<1>3. CASE ReadPools
  <2> DEFINE b == poolFile["presig"]
  <2>1. /\ presigPool' = PoolOf(b) /\ pc' = "presig" /\ b # None
        /\ UNCHANGED <<poolFile, supplied, issued>>
    BY <1>3 DEF ReadPools, PoolsReadable
  <2>2. b \in Batches
    BY <2>1, <1>i DEF TypeOK
  <2>3. \A k \in DOMAIN PoolOf(b) : PoolOf(b)[k].batch = b /\ PoolOf(b)[k].index = k
    BY <2>2, PoolOfType
  <2>4. \A sig \in issued : sig.set.batch # b
    BY <1>i DEF FreshInv, LeftDisk
  <2>5. QED
    BY <2>1, <2>2, <2>3, <2>4, <1>i DEF FreshInv, PoolFresh, PoolOrdered, LeftDisk
<1>4. CASE RemovePoolFile("presig")
  <2> DEFINE b == poolFile["presig"]
  <2>1. /\ pc = "presig" /\ pc' = "ppd" /\ poolFile'["presig"] = None
        /\ UNCHANGED <<presigPool, supplied, issued>>
    BY <1>4, <1>i DEF RemovePoolFile, TypeOK
  <2>2. b \in Batches /\ presigPool = PoolOf(b) /\ <<"presig", b>> \in supplied
    BY <2>1, <1>i, BatchAssumption DEF FreshInv, PoolFresh
  <2>3. \A k \in DOMAIN presigPool : presigPool[k].batch = b
    BY <2>2, PoolOfType
  <2>4. QED
    BY <2>1, <2>2, <2>3, <1>b, <1>i, BatchAssumption
       DEF FreshInv, PoolFresh, PoolOrdered, LeftDisk
<1>5. ASSUME NEW f \in Names, SubmitPayload(f) PROVE FreshInv'
  <2>1. /\ presigPool' \in Seq(PresigSet) /\ Len(presigPool) > 0
        /\ Len(presigPool') = Len(presigPool) - 1
        /\ \A k \in DOMAIN presigPool' : presigPool'[k] = presigPool[k + 1]
        /\ issued' = issued \cup {partial'} /\ partial'.set = presigPool[1]
        /\ pc = "serve" /\ pc' = "write_partial"
        /\ UNCHANGED <<poolFile, supplied>>
    BY <1>5, SubmitFacts DEF IInv, SubmitPayload
  <2>2. /\ \A k \in DOMAIN presigPool' : k \in Nat \ {0} /\ k + 1 \in DOMAIN presigPool
        /\ 1 \in DOMAIN presigPool
    BY <2>1, <1>p
  <2>3. /\ \A k \in DOMAIN presigPool : LeftDisk(presigPool[k].batch)
        /\ \A c : LeftDisk(c) => LeftDisk(c)'
    BY <2>1, <1>i DEF FreshInv, PoolFresh, LeftDisk
  <2>4. PoolFresh' /\ PoolOrdered'
    <3>1. \A k \in DOMAIN presigPool' : LeftDisk(presigPool[k + 1].batch)
      BY <2>2, <2>3
    <3>2. \A k \in DOMAIN presigPool' :
            /\ <<"presig", presigPool'[k].batch>> \in supplied'
            /\ presigPool'[k].batch # poolFile'["presig"]
      BY <3>1, <2>1 DEF LeftDisk
    <3>3. PoolFresh'
      BY <3>2, <2>1 DEF PoolFresh, LeftDisk
    <3>4. ASSUME NEW j \in DOMAIN presigPool', NEW k \in DOMAIN presigPool'
          PROVE  /\ presigPool[j + 1].batch = presigPool[k + 1].batch
                 /\ j < k => presigPool[j + 1].index < presigPool[k + 1].index
      BY <2>2, <1>i DEF FreshInv, PoolOrdered
    <3>5. PoolOrdered'
      BY <3>4, <2>1 DEF PoolOrdered
    <3>6. QED
      BY <3>3, <3>5
  <2>5. ASSUME NEW sig \in issued'
        PROVE  /\ LeftDisk(sig.set.batch)'
               /\ \A k \in DOMAIN presigPool' :
                    sig.set.batch = presigPool'[k].batch
                      => sig.set.index < presigPool'[k].index
    <3>1. CASE sig \in issued
      <4>1. LeftDisk(sig.set.batch)
        BY <3>1, <1>i DEF FreshInv
      <4>2. QED
        BY <4>1, <3>1, <2>1, <2>2, <2>3, <1>i DEF FreshInv
    <3>2. CASE sig = partial'
      <4>1. sig.set = presigPool[1]
        BY <3>2, <2>1
      <4>2. \A k \in DOMAIN presigPool' : presigPool[1].index < presigPool[k + 1].index
        BY <2>2, <1>i DEF FreshInv, PoolOrdered
      <4>3. LeftDisk(sig.set.batch)
        BY <4>1, <2>2, <2>3
      <4>4. QED
        BY <4>1, <4>2, <4>3, <2>1, <2>3
    <3>3. QED
      BY <3>1, <3>2, <2>1
  <2>6. QED
    BY <2>1, <2>4, <2>5, <1>i DEF FreshInv
<1>6. ASSUME NEW b \in Batches, SupplyPool("presig", b) PROVE FreshInv'
  <2>1. /\ <<"presig", b>> \notin supplied
        /\ supplied' = supplied \cup {<<"presig", b>>} /\ poolFile'["presig"] = b
        /\ pc \in {"serve", "down"} /\ UNCHANGED <<pc, presigPool, issued>>
    BY <1>6, <1>i DEF SupplyPool, Operator, TypeOK
  <2>2. \A c : LeftDisk(c) => LeftDisk(c)'
    BY <2>1 DEF LeftDisk
  <2>3. QED
    BY <2>1, <2>2, <1>i DEF FreshInv, PoolFresh, PoolOrdered
<1>7. ASSUME NEW b \in Batches, SupplyPool("ppd", b) PROVE FreshInv'
  <2>1. \A c : <<"presig", c>> \in supplied' <=> <<"presig", c>> \in supplied
    BY <1>7 DEF SupplyPool
  <2>2. /\ poolFile'["presig"] = poolFile["presig"] /\ pc \in {"serve", "down"}
        /\ UNCHANGED <<pc, presigPool, issued>>
    BY <1>7, <1>i DEF SupplyPool, Operator, TypeOK
  <2>3. \A c : LeftDisk(c) => LeftDisk(c)'
    BY <2>1, <2>2 DEF LeftDisk
  <2>4. QED
    BY <2>1, <2>2, <2>3, <1>i DEF FreshInv, PoolFresh, PoolOrdered
\* The other steps are as in <1>1.
<1>8. ASSUME NEW kind \in Kinds, RemovePoolFile(kind), kind # "presig"
      PROVE  FreshInv'
  BY <1>8, <1>1, <1>i DEF RemovePoolFile, TypeOK
<1>9. CASE Start \/ RemoveDir \/ PressEnterReload \/ UNCHANGED vars
  BY <1>9, <1>1 DEF Start, RemoveDir, PressEnterReload, vars
<1>10. CASE WritePartial \/ WritePpd \/ DeletePayload
  BY <1>10, <1>1 DEF WritePartial, WritePpd, DeletePayload
<1>11. CASE \/ ToggleStray
            \/ \E f \in Names, p \in Payloads : PutPayload(f, p)
            \/ \E c \in Counters : CollectOutput(c)
  BY <1>11, <1>1 DEF ToggleStray, PutPayload, CollectOutput, Operator
<1>12. QED
  BY <1>2, <1>3, <1>4, <1>5, <1>6, <1>7, <1>8, <1>9, <1>10, <1>11
     DEF Next, NoCrashNext, Loading, Signing, Copying, Crash, LoadPanics

\* Pools aligned, a job that matches the files written so far, and batches that are
\* in memory only once they left the disk, are invariant under every file operation,
\* crash and copy.
THEOREM IInvHolds == Spec => []IInv
<1>1. IInv /\ [Next]_vars => IInv'
  BY TypeStep, AlignedStep, JobStep, FreshStep DEF IInv
<1>2. QED
  BY InitIInv, <1>1, PTL DEF Spec

-----------------------------------------------------------------------------
(* What follows from it *)

\* Every variable keeps its type; in particular the second of the two pops never
\* meets an empty queue (lines 157-160).
THEOREM TypeCorrect == Spec => []TypeOK
<1>1. IInv => TypeOK
  BY DEF IInv
<1>2. QED
  BY IInvHolds, <1>1, PTL

\* The presignature and the ppd popped for a payload always belong to the same
\* position of their pools, through reloads and crashes at every file operation.
THEOREM Aligned == Spec => []PoolsAligned
<1>1. IInv => PoolsAligned
  BY DEF IInv
<1>2. QED
  BY IInvHolds, <1>1, PTL

\* Single use at the offline node: what it has signed with is in neither its pool
\* nor its pool file, wherever load_pools or the signing loop was cut off.
THEOREM SingleUse == Spec => []NeverSignedAgain
<1>1. IInv => NeverSignedAgain
  <2> SUFFICES ASSUME IInv, NEW sig \in issued
               PROVE  /\ \A k \in DOMAIN presigPool : presigPool[k] # sig.set
                      /\ poolFile["presig"] # sig.set.batch
    BY DEF NeverSignedAgain
  <2>1. /\ poolFile["presig"] # sig.set.batch
        /\ \A k \in DOMAIN presigPool :
             sig.set.batch = presigPool[k].batch => sig.set.index < presigPool[k].index
    BY DEF IInv, FreshInv, LeftDisk
  <2>2. \A k \in DOMAIN presigPool : presigPool[k].index \in Nat
    BY PresigFields DEF IInv, TypeOK
  <2>3. QED
    BY <2>1, <2>2
<1>2. QED
  BY IInvHolds, <1>1, PTL

\* A payload file is deleted only when the two files of its output are on disk: a
\* crash at any point loses no request.
THEOREM PayloadKept == Spec => PayloadKeptUntilExported
<1> DEFINE Step ==
      \A f \in Names :
        payloadFile[f] # None /\ payloadFile'[f] = None =>
          /\ partialOut[sigCounter] # None
          /\ partialOut[sigCounter].payload = payloadFile[f]
          /\ ppdOut[sigCounter] # None
<1>1. IInv /\ [Next]_vars => [Step]_vars
  <2> SUFFICES ASSUME IInv, [Next]_vars, NEW f \in Names,
                      payloadFile[f] # None, payloadFile'[f] = None
               PROVE  /\ partialOut[sigCounter] # None
                      /\ partialOut[sigCounter].payload = payloadFile[f]
                      /\ ppdOut[sigCounter] # None
    OBVIOUS
  <2>1. ~UNCHANGED payloadFile
    OBVIOUS
  <2>2. DeletePayload
    <3>1. ASSUME NEW g \in Names, NEW p \in Payloads, PutPayload(g, p) PROVE FALSE
      BY <3>1, BatchAssumption DEF PutPayload, IInv, TypeOK
    <3>2. QED
      BY <2>1, <3>1
         DEF Next, NoCrashNext, Loading, Signing, Copying, Start, Crash, Ends,
             LoadPanics, ReadPools, RemovePoolFile, RemoveDir, PressEnterReload,
             SubmitPayload, WritePartial, WritePpd, SupplyPool, ToggleStray,
             CollectOutput, vars, inputs, outputs, memory, pools, job
  <2>3. f = name
    BY <2>2 DEF DeletePayload, IInv, TypeOK
  <2>4. /\ partialOut[sigCounter] = partial /\ ppdOut[sigCounter] = ppd
        /\ partial \in Partial /\ partial.payload = payloadFile[f] /\ ppd \in PresigSet
    BY <2>2, <2>3 DEF DeletePayload, IInv, JobInv, SignPcs
  <2>5. QED
    BY <2>4, NoneAssumption
<1>2. QED
  BY IInvHolds, <1>1, PTL DEF Spec, PayloadKeptUntilExported

-----------------------------------------------------------------------------
(* The outputs of the first session *)

LEMMA OutputStep == IInv /\ OutputInv /\ [Next]_vars => OutputInv'
<1> SUFFICES ASSUME IInv, OutputInv, [Next]_vars PROVE OutputInv'
  OBVIOUS
<1> USE DEF pools, job, memory, inputs, outputs, history
<1>i. TypeOK /\ JobInv /\ OutputInv
  BY DEF IInv
<1>s. sessions \in Nat /\ sigCounter \in Nat
  BY <1>i DEF TypeOK
<1>1. CASE Start
  BY <1>1, <1>i, <1>s DEF Start, OutputInv, InPair, Unused
<1>2. CASE Ends
  BY <1>2, <1>i DEF Ends, OutputInv, InPair, Unused
\* Steps that leave the outputs alone, outside the writing of one.
<1>3. CASE /\ UNCHANGED <<outputs, sigCounter, sessions>>
           /\ pc \notin {"write_ppd", "delete_payload"} /\ (pc' = "down" <=> pc = "down")
           /\ pc' \notin {"write_ppd", "delete_payload"}
  BY <1>3, <1>i DEF OutputInv, InPair, Unused
<1>4. CASE WritePartial
  <2>1. /\ pc = "write_partial" /\ pc' = "write_ppd"
        /\ \A c \in Counters : c # sigCounter => partialOut'[c] = partialOut[c]
        /\ UNCHANGED <<ppdOut, sigCounter, sessions>>
    BY <1>4, <1>i DEF WritePartial, TypeOK
  <2>2. QED
    BY <2>1, <1>i, <1>s DEF OutputInv, InPair, Unused
<1>5. CASE WritePpd
  <2>1. /\ pc = "write_ppd" /\ pc' = "delete_payload"
        /\ \A c \in Counters : c # sigCounter => ppdOut'[c] = ppdOut[c]
        /\ sigCounter \in Counters => ppdOut'[sigCounter] = ppd
        /\ UNCHANGED <<partialOut, sigCounter, sessions>>
    BY <1>5, <1>i DEF WritePpd, TypeOK
  <2>2. /\ partialOut[sigCounter] = partial /\ partial \in Partial
        /\ ppd \in PresigSet /\ partial.set.index = ppd.index
    BY <2>1, <1>i DEF JobInv, SignPcs
  <2>3. sigCounter \in Counters => InPair(sigCounter)'
    BY <2>1, <2>2, NoneAssumption DEF InPair
  <2>4. \A c \in Counters : c # sigCounter => (InPair(c)' <=> InPair(c))
                                           /\ (Unused(c)' <=> Unused(c))
    BY <2>1 DEF InPair, Unused
  <2>5. ASSUME sessions' = 1, NEW c \in Counters
        PROVE  /\ InPair(c)'
               /\ c > sigCounter => Unused(c)'
    BY <2>1, <2>3, <2>4, <2>5, <1>i, <1>s DEF OutputInv
  <2>6. QED
    BY <2>1, <2>5, <1>i DEF OutputInv
<1>6. CASE DeletePayload
  <2>1. /\ pc = "delete_payload" /\ pc' = "serve" /\ sigCounter' = sigCounter + 1
        /\ UNCHANGED <<outputs, sessions>>
    BY <1>6 DEF DeletePayload
  <2>2. QED
    BY <2>1, <1>i, <1>s DEF OutputInv, InPair, Unused
<1>7. ASSUME NEW c \in Counters, CollectOutput(c) PROVE OutputInv'
  <2>1. /\ \A d \in Counters : d # c => /\ partialOut'[d] = partialOut[d]
                                       /\ ppdOut'[d] = ppdOut[d]
        /\ partialOut'[c] = None /\ ppdOut'[c] = None
        /\ pc \in {"serve", "down"} /\ UNCHANGED <<pc, sigCounter, sessions>>
    BY <1>7, <1>i DEF CollectOutput, Operator, TypeOK
  <2>2. QED
    BY <2>1, <1>i DEF OutputInv, InPair, Unused
<1>8. CASE UNCHANGED vars
  BY <1>8, <1>i DEF vars, OutputInv, InPair, Unused
<1>9. QED
  BY <1>1, <1>2, <1>3, <1>4, <1>5, <1>6, <1>7, <1>8
     DEF Next, NoCrashNext, Loading, Signing, Copying, Crash, LoadPanics,
         ReadPools, RemovePoolFile, RemoveDir, PressEnterReload, SubmitPayload,
         SupplyPool, ToggleStray, PutPayload, Operator

THEOREM OutputInvHolds == Spec => []OutputInv
<1>1. Init => OutputInv
  BY DEF Init, OutputInv, Unused
<1>2. QED
  BY IInvHolds, <1>1, OutputStep, PTL DEF Spec

\* A session that is not cut off leaves complete outputs only, whatever is loaded,
\* signed and collected in whichever order.
THEOREM CompleteOutputs == Spec => []OutputsComeInPairs
<1>1. OutputInv => OutputsComeInPairs
  BY DEF OutputInv, OutputsComeInPairs, InPair
<1>2. QED
  BY OutputInvHolds, <1>1, PTL

\* ... and never writes over one that has not been collected.
THEOREM NeverOverwritten == Spec => OutputsNeverOverwritten
<1> DEFINE Step ==
      sessions = 1 =>
        \A c \in Counters : partialOut[c] # None => partialOut'[c] \in {partialOut[c], None}
<1>1. IInv /\ OutputInv /\ [Next]_vars => [Step]_vars
  <2> SUFFICES ASSUME IInv, OutputInv, [Next]_vars, sessions = 1,
                      NEW c \in Counters, partialOut[c] # None
               PROVE  partialOut'[c] \in {partialOut[c], None}
    OBVIOUS
  <2>1. TypeOK
    BY DEF IInv
  <2>2. CASE WritePartial
    <3>1. c # sigCounter
      BY <2>2 DEF WritePartial, OutputInv, Unused
    <3>2. QED
      BY <2>1, <2>2, <3>1 DEF WritePartial, TypeOK
  <2>3. ASSUME NEW d \in Counters, CollectOutput(d)
        PROVE  partialOut'[c] \in {partialOut[c], None}
    BY <2>1, <2>3 DEF CollectOutput, TypeOK
  <2>4. CASE UNCHANGED partialOut
    BY <2>4
  <2>5. QED
    BY <2>2, <2>3, <2>4
       DEF Next, NoCrashNext, Loading, Signing, Copying, Start, Crash, Ends,
           LoadPanics, ReadPools, RemovePoolFile, RemoveDir, PressEnterReload,
           SubmitPayload, WritePpd, DeletePayload, SupplyPool, ToggleStray,
           PutPayload, Operator, vars, outputs
<1>2. QED
  BY IInvHolds, OutputInvHolds, <1>1, PTL DEF Spec, OutputsNeverOverwritten

-----------------------------------------------------------------------------
(* All the partial signatures node 0 ever makes *)

\* A session counts them, and one that crashed has made no more than it may.
MadeBefore == IF pc = "down" THEN sessions * MaxOutputs
                             ELSE (sessions - 1) * MaxOutputs
MadeNow == IF pc = "down" THEN 0
           ELSE IF pc \in SignPcs THEN sigCounter + 1 ELSE sigCounter
MadeAtMost == MadeBefore + MadeNow

IssuedInv ==
  /\ \A x, y \in issued : x.set = y.set => x = y
  /\ IsFiniteSet(issued) /\ Cardinality(issued) <= MadeAtMost
  /\ sessions = 0 => pc = "down"

\* All sessions together.
LEMMA MadeInAll ==
  ASSUME IInv
  PROVE  MadeAtMost \in Int /\ MadeAtMost <= MaxSessions * MaxOutputs
<1>1. /\ sessions \in Nat /\ MaxSessions \in Nat /\ MaxOutputs \in Nat
      /\ sessions <= MaxSessions /\ sigCounter \in 0 .. MaxOutputs
  BY OfflineAssumption DEF IInv, TypeOK
<1>2. /\ sessions * MaxOutputs \in Int
      /\ MaxSessions * MaxOutputs \in Int
      /\ (sessions - 1) * MaxOutputs \in Int
      /\ (sessions - 1) * MaxOutputs + MaxOutputs = sessions * MaxOutputs
      /\ sessions * MaxOutputs <= MaxSessions * MaxOutputs
  <2>1. /\ sessions * MaxOutputs \in Nat /\ MaxSessions * MaxOutputs \in Nat
        /\ (sessions - 1) * MaxOutputs \in Int
    BY <1>1
  <2>2. (sessions - 1) * MaxOutputs + MaxOutputs = sessions * MaxOutputs
    BY <1>1, Z3
  <2>3. (MaxSessions - sessions) * MaxOutputs >= 0
    BY <1>1
  <2>4. (MaxSessions - sessions) * MaxOutputs
          = MaxSessions * MaxOutputs - sessions * MaxOutputs
    BY <1>1, Z3
  <2>5. sessions * MaxOutputs <= MaxSessions * MaxOutputs
    BY <2>1, <2>3, <2>4
  <2>6. QED
    BY <2>1, <2>2, <2>5
<1>3. MadeNow \in Int /\ MadeNow <= MaxOutputs
  <2>1. pc \in SignPcs => sigCounter < MaxOutputs
    BY DEF IInv, JobInv
  <2>2. QED
    BY <1>1, <2>1 DEF MadeNow
<1>4. CASE pc = "down"
  BY <1>2, <1>4 DEF MadeAtMost, MadeBefore, MadeNow
<1>5. CASE pc # "down"
  <2>1. MadeBefore = (sessions - 1) * MaxOutputs
    BY <1>5, Zenon DEF MadeBefore
  <2>2. \A a, b, c, d, e \in Int :
          a + d = b /\ b <= c /\ e <= d => a + e \in Int /\ a + e <= c
    OBVIOUS
  <2>3. MaxOutputs \in Int
    BY <1>1
  <2>4. sessions * MaxOutputs \in Int
    BY <1>2
  <2>5. MadeBefore + MadeNow \in Int
        /\ MadeBefore + MadeNow <= MaxSessions * MaxOutputs
    BY <2>1, <2>2, <2>3, <2>4, <1>2, <1>3, Zenon
  <2>6. QED
    BY <2>5, Zenon DEF MadeAtMost
<1>6. QED
  BY <1>4, <1>5

\* SubmitPayload signs with a set that was never used before.
LEMMA SignsUnused ==
  ASSUME IInv, NEW f \in Names, SubmitPayload(f)
  PROVE  partial' \in Partial /\ \A sig \in issued : sig.set # partial'.set
<1>1. partial' \in Partial /\ partial'.set = presigPool[1] /\ Len(presigPool) > 0
  BY SubmitFacts
<1>2. presigPool \in Seq(PresigSet)
  BY DEF IInv, TypeOK
<1>3. 1 \in DOMAIN presigPool /\ presigPool[1].index \in Nat
  BY <1>1, <1>2, PresigFields
<1>4. QED
  BY <1>1, <1>3 DEF IInv, FreshInv

LEMMA InitIssued == Init => IssuedInv
  BY FS_EmptySet, OfflineAssumption DEF Init, IssuedInv, MadeAtMost, MadeBefore, MadeNow

LEMMA IssuedStep == IInv /\ IssuedInv /\ [Next]_vars => IssuedInv'
<1> SUFFICES ASSUME IInv, IssuedInv, [Next]_vars PROVE IssuedInv'
  OBVIOUS
<1> USE DEF pools, job, memory, inputs, outputs, history
<1>i. /\ IsFiniteSet(issued) /\ Cardinality(issued) \in Nat
      /\ Cardinality(issued) <= MadeAtMost
      /\ sessions = 0 => pc = "down"
      /\ \A x, y \in issued : x.set = y.set => x = y
  BY FS_CardinalityType DEF IssuedInv
<1>t. sessions \in Nat /\ sigCounter \in 0 .. MaxOutputs /\ MaxOutputs \in Nat
  BY OfflineAssumption DEF IInv, TypeOK
<1>b. /\ MadeBefore \in Int /\ MadeNow \in Int /\ MadeAtMost \in Int
      /\ sessions * MaxOutputs \in Int
      /\ (sessions - 1) * MaxOutputs + MaxOutputs = sessions * MaxOutputs
  <2>1. sessions * MaxOutputs \in Int /\ (sessions - 1) * MaxOutputs \in Int
    BY <1>t
  <2>2. (sessions - 1) * MaxOutputs + MaxOutputs = sessions * MaxOutputs
    BY <1>t
  <2>3. MadeBefore \in Int
    BY <2>1, Zenon DEF MadeBefore
  <2>4. MadeNow \in Int
    BY <1>t DEF MadeNow
  <2>5. MadeAtMost \in Int
    BY <2>3, <2>4 DEF MadeAtMost
  <2>6. QED
    BY <2>1, <2>2, <2>3, <2>4, <2>5
<1>s. ASSUME UNCHANGED sessions, pc = "down" <=> pc' = "down"
      PROVE  MadeBefore' = MadeBefore
  BY <1>s, Zenon DEF MadeBefore
<1>1. ASSUME UNCHANGED issued, MadeAtMost <= MadeAtMost',
             sessions' = 0 => pc' = "down", MadeAtMost' \in Int
      PROVE  IssuedInv'
  BY <1>1, <1>i, <1>b DEF IssuedInv
<1>2. CASE Start
  <2>1. /\ pc = "down" /\ pc' = "read_pools" /\ sessions' = sessions + 1
        /\ UNCHANGED <<sigCounter, issued>>
    BY <1>2 DEF Start
  <2>2. MadeBefore' = sessions * MaxOutputs /\ MadeBefore = sessions * MaxOutputs
    <3>1. sessions' - 1 = sessions
      BY <2>1, <1>t
    <3>2. QED
      BY <2>1, <3>1, Zenon DEF MadeBefore
  <2>3. MadeNow = 0 /\ MadeNow' = sigCounter
    BY <2>1 DEF MadeNow, SignPcs
  <2>4. MadeAtMost <= MadeAtMost' /\ MadeAtMost' \in Int
    BY <2>2, <2>3, <1>b, <1>t DEF MadeAtMost
  <2>5. QED
    BY <2>1, <2>4, <1>1, <1>t
<1>3. CASE Crash \/ LoadPanics
  <2>1. pc' = "down" /\ pc # "down" /\ UNCHANGED <<sessions, issued>>
    BY <1>3 DEF Crash, LoadPanics, Ends
  <2>2. MadeBefore' = sessions * MaxOutputs /\ MadeNow' = 0
    BY <2>1 DEF MadeBefore, MadeNow
  <2>3. MadeBefore + MaxOutputs = sessions * MaxOutputs
    BY <2>1, <1>b DEF MadeBefore
  <2>4. MadeNow <= MaxOutputs
    <3>1. pc \in SignPcs => sigCounter < MaxOutputs
      BY DEF IInv, JobInv
    <3>2. QED
      BY <3>1, <1>t DEF MadeNow
  <2>5. MadeAtMost <= MadeAtMost' /\ MadeAtMost' \in Int
    BY <2>2, <2>3, <2>4, <1>b, <1>t DEF MadeAtMost
  <2>6. QED
    BY <2>1, <2>5, <1>1, <1>i
<1>4. ASSUME NEW f \in Names, SubmitPayload(f) PROVE IssuedInv'
  <2>1. /\ pc = "serve" /\ pc' = "write_partial" /\ UNCHANGED <<sessions, sigCounter>>
        /\ issued' = issued \cup {partial'}
    BY <1>4 DEF SubmitPayload
  <2>2. \A sig \in issued : sig.set # partial'.set
    BY <1>4, SignsUnused
  <2>3. \A x, y \in issued' : x.set = y.set => x = y
    BY <2>1, <2>2, <1>i
  <2>4. IsFiniteSet(issued') /\ Cardinality(issued') <= Cardinality(issued) + 1
    <3>1. PICK sig : issued' = issued \cup {sig}
      BY <2>1
    <3>2. /\ IsFiniteSet(issued \cup {sig})
          /\ Cardinality(issued \cup {sig})
               \in {Cardinality(issued), Cardinality(issued) + 1}
      BY <1>i, FS_AddElement
    <3>3. QED
      BY <3>1, <3>2, <1>i
  <2>5. MadeAtMost' = MadeAtMost + 1
    <3>1. MadeNow' = MadeNow + 1
      BY <2>1, <1>t DEF MadeNow, SignPcs
    <3>2. QED
      BY <2>1, <3>1, <1>s, <1>b DEF MadeAtMost
  <2>6. Cardinality(issued') \in Nat
    BY <2>4, FS_CardinalityType
  <2>7. QED
    BY <2>1, <2>3, <2>4, <2>5, <2>6, <1>b, <1>i DEF IssuedInv
<1>5. CASE DeletePayload
  <2>1. /\ pc = "delete_payload" /\ pc' = "serve" /\ sigCounter' = sigCounter + 1
        /\ UNCHANGED <<sessions, issued>>
    BY <1>5 DEF DeletePayload
  <2>2. MadeNow' = MadeNow
    BY <2>1, <1>t DEF MadeNow, SignPcs
  <2>3. MadeAtMost' = MadeAtMost
    BY <2>1, <2>2, <1>s DEF MadeAtMost
  <2>4. QED
    BY <2>1, <2>3, <1>b, <1>1, <1>i
<1>6. ASSUME UNCHANGED <<sessions, sigCounter, issued>>, pc = "down" <=> pc' = "down",
             pc \in SignPcs <=> pc' \in SignPcs
      PROVE  IssuedInv'
  <2>1. MadeNow' = MadeNow
    BY <1>6, <1>t DEF MadeNow
  <2>2. MadeAtMost' = MadeAtMost
    BY <1>6, <2>1, <1>s DEF MadeAtMost
  <2>3. QED
    BY <2>2, <1>6, <1>b, <1>1, <1>i
<1>7. CASE ReadPools \/ (\E kind \in Kinds : RemovePoolFile(kind)) \/ RemoveDir
  BY <1>7, <1>6 DEF ReadPools, RemovePoolFile, RemoveDir, SignPcs
<1>8. CASE PressEnterReload \/ WritePartial \/ WritePpd \/ UNCHANGED vars
  BY <1>8, <1>6 DEF PressEnterReload, WritePartial, WritePpd, SignPcs, vars
<1>9. CASE Copying
  BY <1>9, <1>6
     DEF Copying, SupplyPool, ToggleStray, PutPayload, CollectOutput, Operator
<1>10. QED
  BY <1>2, <1>3, <1>4, <1>5, <1>7, <1>8, <1>9 DEF Next, NoCrashNext, Loading, Signing

\* Whatever the crashes and reloads, node 0 never signs twice with one set, and
\* makes no more than MaxOutputs partial signatures in a session.
THEOREM UsedOnce == Spec => []IssuedInv
  BY InitIssued, IssuedStep, IInvHolds, PTL DEF Spec
=============================================================================
