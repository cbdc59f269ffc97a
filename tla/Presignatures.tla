--------------------------- MODULE Presignatures ---------------------------
(***************************************************************************)
(* The data the programs of the repository exchange, reduced to what the   *)
(* properties tell apart.  One run of `regenerate_presignatures` makes a   *)
(* batch: PoolSize[b] presignature sets, of which every party gets its own *)
(* share and node 0 the public data ("ppd") as well.  A set is named by    *)
(* its batch and its position in it; a party's presignature and the ppd of *)
(* the same set carry the same name.                                       *)
(***************************************************************************)
EXTENDS FifoQueue

CONSTANTS
  Batches,     \* runs of regenerate_presignatures
  PoolSize,    \* argument k of each run (a u16, so 0 is possible)
  Payloads,    \* contents of the files to sign
  None         \* an absent file or value

ASSUME BatchAssumption ==
  /\ PoolSize \in [Batches -> Nat]
  /\ None \notin Batches
  /\ None \notin Payloads

PoolOf_OneMore(b) ==
  [k \in 1 .. PoolSize[b] + 1 |-> [batch |-> b, index |-> k]]

\* The pool file one party receives for batch b, in order of generation.
PoolOf(b) == [k \in 1 .. PoolSize[b] |-> [batch |-> b, index |-> k]]

PresigSet ==
  UNION {{[batch |-> b, index |-> k] : k \in 1 .. PoolSize[b]} : b \in Batches}

\* issue_partial_signature consumes the presignature; what it returns is
\* determined by the set and by the message.  The message is a function of the
\* payload bytes (hashed, or taken as a scalar with --prehashed), so the
\* payload stands for it; a process run with the other flag signs a different
\* payload.
Partial == [set : PresigSet, payload : Payloads]

\* An absent file or value is none of those that are there.
ASSUME NoneAssumption == None \notin PresigSet \cup Partial

IssuePartialSignature(presig, msg) == [set |-> presig, payload |-> msg]

\* PartialSignature::combine of cggmp24: a signature if there is a partial of each
\* of the n parties and every one was made for this message with the presignature
\* of the set the ppd belongs to, and None otherwise.  A partial does not name its
\* party; the callers collect one of each, so it is enough to count them.
Combines(partials, n, ppd, msg) ==
  /\ Len(partials) = n
  /\ \A k \in DOMAIN partials : partials[k] = [set |-> ppd, payload |-> msg]
=============================================================================
