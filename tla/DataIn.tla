------------------------------- MODULE DataIn -------------------------------
(***************************************************************************)
(* Collecting the data phase that a client sends with an operation.  Under *)
(* standard framing it is a StartData with the total, Data packets and one *)
(* EndData; under the other framings it is a single Data container.  The   *)
(* stream is not resynchronised: an error ends the connection.             *)
(*                                                                         *)
(* A packet is its type, its transaction id and a number: the total of a   *)
(* StartData, the payload length of the others.                            *)
(***************************************************************************)
EXTENDS Naturals, Sequences

CONSTANTS
  Tid,         \* the transaction of the request
  Tids,        \* the transaction ids that packets may carry
  Sizes,       \* the numbers that packets may carry
  Cap,         \* MAX_DATA_IN_BYTES
  MaxPackets   \* bound: packets of one phase

ASSUME DataAssumption ==
  /\ Tid \in Tids /\ Sizes \subseteq Nat /\ Cap \in Nat /\ MaxPackets \in Nat

VARIABLES
  standard,    \* whether the framing is standard
  stage,       \* first, more, ok or error
  total,       \* the declared total length
  payload,     \* bytes collected so far
  packets          \* history: the packets read

dataVars == <<standard, stage, total, payload, packets>>

Packets == [type : {"StartData", "Data", "EndData", "other"}, tid : Tids, n : Sizes]

DataInit ==
  /\ standard \in BOOLEAN
  /\ stage = "first"
  /\ total = 0 /\ payload = 0
  /\ packets = <<>>

-----------------------------------------------------------------------------
\* A StartData of this transaction, with a total within the cap.
Starts(p) ==
  p.type = "StartData" /\ p.tid = Tid /\ p.n <= Cap

\* The first packet under standard framing.
ReadStart(p) ==
  /\ stage = "first" /\ standard
  /\ IF Starts(p)
     THEN stage' = "more" /\ total' = p.n
     ELSE stage' = "error" /\ total' = total
  /\ UNCHANGED payload

\* Whether a packet may be appended to the payload.
Fits(p) ==
  /\ p.type \in {"Data", "EndData"} /\ p.tid = Tid
  /\ payload + p.n <= total /\ payload + p.n <= Cap

\* Variant that ends with any payload.
EndsPhaseShort(p) ==
  p.type = "EndData"

\* EndData has to complete the total.
EndsPhase(p) ==
  p.type = "EndData" /\ payload + p.n = total

\* A packet after StartData: it is appended, and EndData must complete the total.
ReadMore(p) ==
  /\ stage = "more"
  /\ payload' = IF Fits(p) THEN payload + p.n ELSE payload
  /\ stage' = CASE Fits(p) /\ EndsPhase(p) -> "ok"
                [] Fits(p) /\ p.type = "Data" -> "more"
                [] OTHER -> "error"
  /\ UNCHANGED total

\* The single container of the other framings.
ReadContainer(p) ==
  /\ stage = "first" /\ ~ standard
  /\ IF p.type = "Data" /\ p.tid = Tid /\ p.n <= Cap
     THEN stage' = "ok" /\ payload' = p.n
     ELSE stage' = "error" /\ payload' = payload
  /\ UNCHANGED total

\* read_frame and decode_command_frame deliver a packet.
Packet ==
  /\ Len(packets) < MaxPackets
  /\ \E p \in Packets :
       /\ ReadStart(p) \/ ReadMore(p) \/ ReadContainer(p)
       /\ packets' = Append(packets, p)
  /\ UNCHANGED standard

\* The stream ends, a frame cannot be decoded, or the phase takes too long.
Fail ==
  /\ stage \in {"first", "more"}
  /\ stage' = "error"
  /\ packets' = <<>>
  /\ UNCHANGED <<standard, total, payload>>

DataNext == Packet \/ Fail

DataSpec == DataInit /\ [][DataNext]_dataVars

-----------------------------------------------------------------------------
\* The collector has its types, and never holds more than it declared or than the cap.
DataTypeOK ==
  /\ stage \in {"first", "more", "ok", "error"}
  /\ total \in 0..Cap /\ payload \in 0..Cap
  /\ standard => payload <= total

\* The numbers that packets carry, added up.
Sum(l) ==
  LET upTo[i \in 0..Len(l)] == IF i = 0 THEN 0 ELSE upTo[i - 1] + l[i].n
  IN  upTo[Len(l)]

\* What a data phase is, by its packets.
Valid(l) ==
  /\ Len(l) > 0
  /\ \A i \in 1..Len(l) : l[i].tid = Tid
  /\ IF standard
     THEN /\ Len(l) > 1
          /\ l[1].type = "StartData" /\ l[1].n <= Cap
          /\ \A i \in 2..(Len(l) - 1) : l[i].type = "Data"
          /\ l[Len(l)].type = "EndData"
          /\ Sum(l) = 2 * l[1].n
     ELSE Len(l) = 1 /\ l[1].type = "Data" /\ l[1].n <= Cap

\* Acceptance, by the packets read.
AcceptedIsValid ==
  /\ stage = "ok" <=> Valid(packets)
  /\ stage = "ok" /\ standard => payload = total

\* A phase is accepted exactly if its packets are one: a packet of another transaction,
\* an early or a late end, a total that does not add up or that is beyond the cap are
\* refused, and nothing else is.
AcceptsExactly == DataTypeOK /\ AcceptedIsValid
=============================================================================
