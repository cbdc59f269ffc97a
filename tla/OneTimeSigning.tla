--------------------------- MODULE OneTimeSigning ---------------------------
(***************************************************************************)
(* What the distributed signer promises, whatever its programs do: a party *)
(* uses its share of a presignature set for one message at most, and a     *)
(* signature is published only for a message that every party has signed   *)
(* with the same set, once per set.                                        *)
(***************************************************************************)
CONSTANTS
  Parties,    \* all of which take part in every signature
  Sets,       \* presignature sets
  Payloads

VARIABLES
  issued,     \* issued[i]: the partial signatures party i has made
  published   \* the signatures made public

vars == <<issued, published>>

Sig(s, p) == [set |-> s, payload |-> p]

Init ==
  /\ issued = [i \in Parties |-> {}]
  /\ published = {}

Issue(i, s, p) ==
  /\ \A sig \in issued[i] : sig.set # s
  /\ issued' = [issued EXCEPT ![i] = @ \cup {Sig(s, p)}]
  /\ UNCHANGED published

Publish(s, p) ==
  /\ \A i \in Parties : Sig(s, p) \in issued[i]
  /\ \A sig \in published : sig.set # s
  /\ published' = published \cup {Sig(s, p)}
  /\ UNCHANGED issued

Next ==
  \E s \in Sets, p \in Payloads :
    \/ \E i \in Parties : Issue(i, s, p)
    \/ Publish(s, p)

Spec == Init /\ [][Next]_vars
=============================================================================
