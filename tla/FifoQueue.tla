----------------------------- MODULE FifoQueue -----------------------------
(***************************************************************************)
(* FifoQueue<T> of src/fifo_queue.rs: the pool type shared by the          *)
(* initialization, the offline node and the online nodes.  A queue is the  *)
(* sequence of its items, oldest first.  to_msgpack and from_msgpack are   *)
(* mutually inverse on that sequence, so a pool file stands for its queue. *)
(***************************************************************************)
EXTENDS Sequences, Naturals

\* push: to the back of the VecDeque; PoolOf of Presignatures is k pushes.
Push(queue, item) == Append(queue, item)

\* is_empty
IsEmpty(queue) == queue = <<>>

\* pop_next returns the front item ...
NextItem(queue) == Head(queue)

AfterPop_Kept(queue) == queue

\* ... and leaves the rest; it is None on an empty queue, which every caller
\* tests, here and in the code, before it uses the item.
AfterPop(queue) == Tail(queue)
=============================================================================
