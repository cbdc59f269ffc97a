---------------------------- MODULE BtcAuxiliary ----------------------------
(***************************************************************************)
(* src/bin/btc_auxiliary.rs: one run pays 1 BTC from address B, which the  *)
(* shared key controls.  It funds B, writes the sighash of the payment as  *)
(* the payload, waits for the name of a signature file and broadcasts.     *)
(* Every failure is a panic.  The destination is fresh in every run, so    *)
(* the sighash names the payment and the output of B that it spends.       *)
(***************************************************************************)
CONSTANTS
  Payloads,    \* sighashes, one for each payment
  None

VARIABLES
  pc,
  sighash,       \* of the unsigned transaction of this run
  signature,     \* the file that was read: the sighash it is valid for
  payloadFile,   \* input_dir/btc_sighash_payload.bin
  output,        \* the output of B each payment spends, on the chain
  sigFile        \* output_dir/signatures/signature_<r>.msgpack, read only

run  == <<pc, sighash, signature>>
vars == <<run, payloadFile, output, sigFile>>

Init ==
  /\ pc = "down" /\ sighash = None /\ signature = None
  /\ payloadFile = None
  /\ output = [p \in Payloads |-> "none"]

\* Connect, mine, send 2 BTC to B, build the transaction to a new address.
Fund(p) ==
  /\ pc = "down"
  /\ output[p] = "none"
  /\ output' = [output EXCEPT ![p] = "funded"]
  /\ sighash' = p
  /\ pc' = "write_payload"
  /\ UNCHANGED <<signature, payloadFile, sigFile>>

Ends == pc' = "down" /\ sighash' = None /\ signature' = None

\* Every step of the set-up after the money was sent is an `expect`, and so is
\* every step after the broadcast: if the Bitcoin node or the disk fails, the run
\* ends, and no later run spends what this one has funded.
RunFails ==
  /\ pc \in {"write_payload", "confirm"}
  /\ Ends
  /\ UNCHANGED <<payloadFile, output, sigFile>>

\* Over the payload of an earlier run, if its file is still there.
WritePayload ==
  /\ pc = "write_payload"
  /\ payloadFile' = sighash
  /\ pc' = "await_signature"
  /\ UNCHANGED <<sighash, signature, output, sigFile>>

ReadSignature(r) ==
  /\ pc = "await_signature"
  /\ sigFile[r] # None
  /\ signature' = sigFile[r]
  /\ pc' = "broadcast"
  /\ UNCHANGED <<sighash, payloadFile, output, sigFile>>

SignatureMissing(r) ==
  /\ pc = "await_signature"
  /\ sigFile[r] = None
  /\ Ends
  /\ UNCHANGED <<payloadFile, output, sigFile>>

\* The Bitcoin node accepts a witness that is valid for this transaction.
Broadcast ==
  /\ pc = "broadcast"
  /\ signature = sighash
  /\ output' = [output EXCEPT ![sighash] = "spent"]
  /\ pc' = "confirm"
  /\ UNCHANGED <<sighash, signature, payloadFile, sigFile>>

BroadcastRefused ==
  /\ pc = "broadcast"
  /\ signature # sighash
  /\ Ends
  /\ UNCHANGED <<payloadFile, output, sigFile>>

\* Six more blocks.
Confirm ==
  /\ pc = "confirm"
  /\ output' = [output EXCEPT ![sighash] = "confirmed"]
  /\ Ends
  /\ UNCHANGED <<payloadFile, sigFile>>
=============================================================================
