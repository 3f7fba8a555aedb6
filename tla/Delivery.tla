------------------------------ MODULE Delivery ------------------------------
(***************************************************************************)
(* What a camera-initiated transfer promises: the objects leave the queue  *)
(* in order, each one only after every byte of it has been sent to some    *)
(* client.  How the delivered ranges are remembered, which replies are in  *)
(* flight and which connection carries them is left to the implementation. *)
(***************************************************************************)
EXTENDS Naturals, Sequences

CONSTANT Sizes   \* the size of each queued object, in queue order

VARIABLES
  first,   \* the index of the object at the head of the queue
  got,     \* the bytes of it that count as delivered
  sent     \* the bytes of each object that were sent, with the final OK

vars == <<first, got, sent>>

Objects == 1..Len(Sizes)

Bytes(i) == 0..(Sizes[i] - 1)

Init ==
  /\ first = 1
  /\ got = {}
  /\ sent = [i \in Objects |-> {}]

\* A reply with bytes of the object that was at the head when it was made.
Send ==
  /\ \E i \in Objects, r \in SUBSET UNION {Bytes(j) : j \in Objects} :
       /\ i <= first
       /\ r \subseteq Bytes(i)
       /\ sent' = [sent EXCEPT ![i] = @ \cup r]
  /\ UNCHANGED <<first, got>>

\* Bytes that were sent count as delivered; with the last of them the head
\* leaves the queue.
Deliver ==
  /\ first \in Objects
  /\ \E r \in SUBSET sent[first] :
       IF got \cup r = Bytes(first)
       THEN first' = first + 1 /\ got' = {}
       ELSE first' = first /\ got' = got \cup r
  /\ UNCHANGED sent

Next == Send \/ Deliver

Spec == Init /\ [][Next]_vars

-----------------------------------------------------------------------------
\* Every object that left the queue was sent in full: no object is skipped, and
\* none leaves on the strength of bytes of another one.
NothingSkipped == \A i \in Objects : i < first => sent[i] = Bytes(i)
=============================================================================
