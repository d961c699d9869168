-------------------------- MODULE BroadcastProofs --------------------------
(***************************************************************************)
(* Proofs about Broadcast, for any number of clients, channel capacity,    *)
(* number of shots and room in a socket.                                   *)
(*                                                                         *)
(* The stream a client gets is compared with its receiver's position: no   *)
(* frame in the stream is past the position, the one frame that can be in  *)
(* between is the one the relay holds, and the frames neither delivered    *)
(* nor held are the ones Lagged reported.  Nothing of this depends on      *)
(* another client.                                                         *)
(***************************************************************************)
EXTENDS Broadcast, FiniteSetTheorems, SequenceTheorems, TLAPS

\* The types, with those of the histories the type invariant leaves out and
\* without the bound on client_count.
Types ==
  /\ up \in BOOLEAN
  /\ sent \in 0..Shots
  /\ finished \in BOOLEAN
  /\ client_count \in Int
  /\ phase \in [Clients -> {"away", "queued", "header", "recv", "write", "gone"}]
  /\ open \in [Clients -> BOOLEAN]
  /\ next \in [Clients -> 0..sent]
  /\ holding \in [Clients -> 0..sent]
  /\ socket \in [Clients -> Seq(0..sent)]
  /\ seen \in [Clients -> Seq(0..sent)]
  /\ joined \in [Clients -> 0..sent]
  /\ dropped \in [Clients -> Nat]
  /\ reply = [c \in Clients |-> reply[c]]

\* Clients that were accepted, whatever became of them since.
Accepted == {c \in Clients : phase[c] \notin {"away", "queued"}}

\* A relay that gave up on the header is still counted: client_count may be
\* above the number of relays, and never above the number of clients.
Counts ==
  /\ Cardinality(Relays) <= client_count
  /\ client_count <= Cardinality(Accepted)

\* How many frames the relay has taken and not written.
InHand(c) == IF phase[c] = "write" THEN 1 ELSE 0

\* Before the header nothing was written, received or missed.
NothingYet(c) ==
  /\ seen[c] = << >>
  /\ socket[c] = << >>
  /\ dropped[c] = 0
  /\ next[c] = joined[c]
  /\ reply[c] = [kind |-> "none"]

\* The position is not before the point the client joined at, and the frame in
\* hand is the last one before the position.
Position(c) ==
  /\ joined[c] + InHand(c) <= next[c]
  /\ holding[c] = IF phase[c] = "write" THEN next[c] ELSE 0

\* A header and then frames above low and at most high, in increasing order.
InOrder(s, low, high) ==
  s # << >> =>
    /\ s[1] = Header
    /\ \A i \in 2 .. Len(s) : s[i] > low /\ s[i] > s[i - 1]
    /\ \A i \in 1 .. Len(s) : s[i] <= high

\* The frames of the stream are from after the client joined to before the
\* frame in hand.
Ordered(c) == InOrder(Stream(c), joined[c], next[c] - InHand(c))

\* While the client is there, its stream has begun with the header, and the
\* frames since it joined were delivered, are in hand or were reported missed.
Accounted(c) ==
  phase[c] \in {"recv", "write"} /\ open[c] =>
    /\ Stream(c) # << >>
    /\ Len(Stream(c)) - 1 + dropped[c] + InHand(c) = next[c] - joined[c]

ClientInv(c) ==
  /\ phase[c] \in {"away", "queued", "header"} => NothingYet(c)
  /\ Position(c)
  /\ Ordered(c)
  /\ Accounted(c)

IndInv == Types /\ Counts /\ \A c \in Clients : ClientInv(c)

-----------------------------------------------------------------------------
(* Types *)

\* A write leaves every socket a sequence of what was sent.
LEMMA DeliverTypes ==
  ASSUME Types, NEW c \in Clients, NEW item \in 0..sent, Deliver(c, item)
  PROVE  socket' \in [Clients -> Seq(0..sent)]
<1>1. CASE UNCHANGED socket
  BY <1>1 DEF Types
<1>2. CASE socket' = [socket EXCEPT ![c] = Append(@, item)]
  <2>1. socket[c] \in Seq(0..sent)
    BY DEF Types
  <2>2. Append(socket[c], item) \in Seq(0..sent)
    BY <2>1, AppendProperties
  <2>3. QED
    BY <1>2, <2>2 DEF Types
<1>3. QED
  BY <1>1, <1>2 DEF Deliver

\* Every step of the server or of a relay keeps the types.
LEMMA ServerTypes ==
  ASSUME Types, Send \/ Finish \/ AcceptFails
  PROVE  Types'
<1> USE BroadcastAssumption
<1>1. CASE Send
  <2>1. sent' = sent + 1 /\ sent' \in 0..Shots
    BY <1>1 DEF Send, Types
  <2>2. 0..sent \subseteq 0..sent'
    BY <2>1 DEF Types
  <2>3. ASSUME NEW q \in Seq(0..sent) PROVE q \in Seq(0..sent')
    BY <2>2, SeqMonotonic
  <2>4. next' \in [Clients -> 0..sent'] /\ holding' \in [Clients -> 0..sent']
        /\ joined' \in [Clients -> 0..sent']
    BY <1>1, <2>2 DEF Send, Types, relays
  <2>5. socket' \in [Clients -> Seq(0..sent')] /\ seen' \in [Clients -> Seq(0..sent')]
    BY <1>1, <2>3 DEF Send, Types, wires
  <2>6. QED
    BY <1>1, <2>1, <2>4, <2>5 DEF Send, Types, relays, wires
<1>2. CASE Finish
  BY <1>2 DEF Finish, Types, relays, wires
<1>3. CASE AcceptFails
  BY <1>3 DEF AcceptFails, Types, relays, wires
<1>4. QED
  BY <1>1, <1>2, <1>3

\* A new connection and a step of its relay keep the types.
LEMMA RelayTypes ==
  ASSUME Types, NEW c \in Clients, Connect(c) \/ Accept(c) \/ Relay(c)
  PROVE  Types'
<1> USE BroadcastAssumption
<1>0. sent \in Nat /\ next[c] \in 0..sent /\ holding[c] \in 0..sent /\ dropped[c] \in Nat
  BY DEF Types
<1>1. CASE Connect(c)
  BY <1>1 DEF Connect, Types, server
<1>2. CASE Accept(c)
  BY SMTT(30), <1>2, <1>0 DEF Accept, Types, wires
<1>3. CASE WriteHeader(c)
  <2>1. socket' \in [Clients -> Seq(0..sent)]
    BY <1>3, <1>0, DeliverTypes DEF WriteHeader, Header
  <2>2. QED
    BY <1>3, <2>1 DEF WriteHeader, Types, server
<1>4. CASE HeaderFails(c)
  BY <1>4 DEF HeaderFails, Types, server, wires
<1>5. CASE RecvFrame(c)
  <2>1. next[c] + 1 \in 0..sent
    BY <1>5, <1>0 DEF RecvFrame
  <2>2. QED
    BY <1>5, <2>1 DEF RecvFrame, Types, server, wires
<1>6. CASE RecvLagged(c)
  <2>1. sent - Capacity \in 0..sent /\ dropped[c] + sent - Capacity - next[c] \in Nat
    BY <1>6, <1>0 DEF RecvLagged
  <2>2. QED
    BY <1>6, <2>1 DEF RecvLagged, Types, server, wires
<1>7. CASE WriteFrame(c)
  <2>1. socket' \in [Clients -> Seq(0..sent)]
    BY <1>7, <1>0, DeliverTypes DEF WriteFrame
  <2>2. phase' \in [Clients -> {"away", "queued", "header", "recv", "write", "gone"}]
    BY <1>7 DEF WriteFrame, Types
  <2>3. holding' \in [Clients -> 0..sent]
    BY <1>7, <1>0 DEF WriteFrame, Types
  <2>4. QED
    BY <1>7, <2>1, <2>2, <2>3 DEF WriteFrame, Types, server
<1>8. CASE WriteFails(c)
  BY SMTT(30), <1>8, <1>0 DEF WriteFails, Types, wires
<1>9. QED
  BY <1>1, <1>2, <1>3, <1>4, <1>5, <1>6, <1>7, <1>8 DEF Relay

\* Every step of a client keeps the types.
LEMMA ClientTypes ==
  ASSUME Types, NEW c \in Clients, Read(c) \/ HangUp(c)
  PROVE  Types'
<1>0. socket[c] \in Seq(0..sent) /\ seen[c] \in Seq(0..sent)
  BY DEF Types
<1>1. CASE Read(c)
  <2>1. Head(socket[c]) \in 0..sent /\ Tail(socket[c]) \in Seq(0..sent)
    BY <1>1, <1>0, HeadTailProperties DEF Read
  <2>2. Append(seen[c], Head(socket[c])) \in Seq(0..sent)
    BY <1>0, <2>1, AppendProperties
  <2>3. QED
    BY <1>1, <2>1, <2>2 DEF Read, Types, server, relays
<1>2. CASE HangUp(c)
  <2>1. << >> \in Seq(0..sent)
    BY EmptySeq
  <2>2. QED
    BY <1>2, <2>1 DEF HangUp, Types, server, relays
<1>3. QED
  BY <1>1, <1>2

\* Every step keeps the types.
LEMMA TypesNext == Types /\ [Next]_vars => Types'
<1> SUFFICES ASSUME Types, [Next]_vars PROVE Types'
  OBVIOUS
<1>1. CASE UNCHANGED vars
  BY <1>1 DEF vars, server, relays, wires, Types
<1>2. QED
  BY <1>1, ServerTypes, RelayTypes, ClientTypes DEF Next

-----------------------------------------------------------------------------
(* Counting the clients *)

\* A set of clients is finite, and its size a natural number.
LEMMA FiniteParts ==
  ASSUME NEW S, S \subseteq Clients
  PROVE  IsFiniteSet(S) /\ Cardinality(S) \in Nat
BY BroadcastAssumption, FS_Subset, FS_CardinalityType

\* client_count follows the relays that are running.
LEMMA CountsNext == Types /\ Counts /\ [Next]_vars => Counts'
<1> SUFFICES ASSUME Types, Counts, [Next]_vars PROVE Counts'
  OBVIOUS
<1>1. Relays \subseteq Accepted /\ Accepted \subseteq Clients
  BY DEF Relays, Accepted
<1>2. /\ IsFiniteSet(Relays) /\ Cardinality(Relays) \in Nat
      /\ IsFiniteSet(Accepted) /\ Cardinality(Accepted) \in Nat
  BY <1>1, FiniteParts
<1>3. CASE UNCHANGED <<phase, client_count>>
  BY <1>3 DEF Counts, Relays, Accepted
<1>4. ASSUME NEW c \in Clients, Connect(c) PROVE Counts'
  <2>1. Relays' = Relays /\ Accepted' = Accepted
    BY <1>4 DEF Connect, Relays, Accepted, Types
  <2>2. QED
    BY <1>4, <2>1 DEF Connect, server, Counts
<1>5. ASSUME NEW c \in Clients, Accept(c) PROVE Counts'
  <2>1. Relays' = Relays \cup {c} /\ Accepted' = Accepted \cup {c}
    BY <1>5 DEF Accept, Relays, Accepted, Types
  <2>2. c \notin Relays /\ c \notin Accepted
    BY <1>5 DEF Accept, Relays, Accepted
  <2>3. Cardinality(Relays') = Cardinality(Relays) + 1
    BY <2>1, <2>2, <1>2, FS_AddElement
  <2>4. Cardinality(Accepted') = Cardinality(Accepted) + 1
    BY <2>1, <2>2, <1>2, FS_AddElement
  <2>5. QED
    BY <1>5, <2>3, <2>4, <1>2 DEF Accept, Counts, Types
<1>6. ASSUME NEW c \in Clients, WriteHeader(c) \/ RecvFrame(c) \/ RecvLagged(c) \/ WriteFrame(c)
      PROVE  Counts'
  <2>1. client_count' = client_count /\ phase[c] \in {"header", "recv", "write"}
        /\ \E p \in {"recv", "write"} : phase' = [phase EXCEPT ![c] = p]
    BY <1>6 DEF WriteHeader, RecvFrame, RecvLagged, WriteFrame, server, Types
  <2>2. Relays' = Relays /\ Accepted' = Accepted
    BY <2>1 DEF Relays, Accepted, Types
  <2>3. QED
    BY <2>1, <2>2 DEF Counts
<1>7. ASSUME NEW c \in Clients, HeaderFails(c) \/ WriteFails(c) PROVE Counts'
  <2>1. phase' = [phase EXCEPT ![c] = "gone"] /\ phase[c] \in {"header", "write"}
        /\ client_count' \in {client_count, client_count - 1}
    BY <1>7 DEF HeaderFails, WriteFails, server
  <2>2. Relays' = Relays \ {c} /\ c \in Relays /\ Accepted' = Accepted
    BY <2>1 DEF Relays, Accepted, Types
  <2>3. Cardinality(Relays') = Cardinality(Relays) - 1
    BY <2>2, <1>2, FS_RemoveElement
  <2>4. QED
    BY <2>1, <2>2, <2>3, <1>2 DEF Counts, Types
<1>8. QED
  <2>1. CASE UNCHANGED vars
    BY <2>1, <1>3 DEF vars, server, relays
  <2>2. CASE Send \/ Finish \/ AcceptFails
    BY <2>2, <1>3 DEF Send, Finish, AcceptFails, relays
  <2>3. ASSUME NEW c \in Clients, Read(c) \/ HangUp(c) PROVE Counts'
    BY <2>3, <1>3 DEF Read, HangUp, server, relays
  <2>4. QED
    BY <2>1, <2>2, <2>3, <1>4, <1>5, <1>6, <1>7 DEF Next, Relay

-----------------------------------------------------------------------------
(* The stream of one client *)

\* The state of a client that no other actor's step changes.
mine(c) == <<phase[c], open[c], next[c], holding[c], socket[c], seen[c],
             joined[c], dropped[c], reply[c]>>

\* Nothing in a client's invariant is about anything but the client.
LEMMA Untouched ==
  ASSUME NEW c \in Clients, ClientInv(c), UNCHANGED mine(c)
  PROVE  ClientInv(c)'
<1>1. Stream(c)' = Stream(c)
  BY DEF Stream, mine
<1>2. Ordered(c)'
  BY <1>1 DEF Ordered, ClientInv, InHand, mine
<1>3. Accounted(c)'
  BY <1>1 DEF Accounted, ClientInv, InHand, mine
<1>4. QED
  BY <1>2, <1>3 DEF ClientInv, NothingYet, Position, InHand, mine

\* What was written to a client, read or still in the socket, are frame numbers.
LEMMA StreamTypes ==
  ASSUME Types, NEW c \in Clients
  PROVE  /\ socket[c] \in Seq(Nat) /\ seen[c] \in Seq(Nat)
         /\ Stream(c) \in Seq(Nat) /\ Len(Stream(c)) \in Nat
         /\ \A i \in 1 .. Len(Stream(c)) : Stream(c)[i] \in Nat
<1>1. socket[c] \in Seq(0..sent) /\ seen[c] \in Seq(0..sent) /\ 0..sent \subseteq Nat
  BY DEF Types
<1>2. socket[c] \in Seq(Nat) /\ seen[c] \in Seq(Nat)
  BY <1>1, SeqMonotonic
<1>3. Stream(c) \in Seq(Nat)
  BY <1>2, ConcatProperties DEF Stream
<1>4. QED
  BY <1>2, <1>3, LenProperties, ElementOfSeq

\* What is appended to the second of two sequences is appended to the whole.
LEMMA ConcatAppend ==
  ASSUME NEW S, NEW s \in Seq(S), NEW t \in Seq(S), NEW e \in S
  PROVE  s \o Append(t, e) = Append(s \o t, e)
<1>1. Append(t, e) = t \o <<e>> /\ <<e>> \in Seq(S)
  BY AppendIsConcat
<1>2. s \o t \in Seq(S)
  BY ConcatProperties
<1>3. Append(s \o t, e) = (s \o t) \o <<e>>
  BY <1>2, AppendIsConcat
<1>4. QED
  BY <1>1, <1>3, ConcatAssociative

\* What moves from the socket to the client stays where it was in the stream.
LEMMA ConcatMove ==
  ASSUME NEW S, NEW s \in Seq(S), NEW t \in Seq(S), t # << >>
  PROVE  Append(s, Head(t)) \o Tail(t) = s \o t
<1>1. Head(t) \in S /\ Tail(t) \in Seq(S) /\ <<Head(t)>> \in Seq(S)
  BY HeadTailProperties
<1>2. Append(s, Head(t)) = s \o <<Head(t)>>
  BY <1>1, AppendIsConcat
<1>3. <<Head(t)>> \o Tail(t) = t
  <2>1. /\ <<Head(t)>> \o Tail(t) \in Seq(S)
        /\ Len(<<Head(t)>> \o Tail(t)) = 1 + Len(Tail(t))
        /\ \A i \in 1 .. 1 + Len(Tail(t)) : (<<Head(t)>> \o Tail(t))[i] =
              IF i <= 1 THEN <<Head(t)>>[i] ELSE Tail(t)[i - 1]
    BY <1>1, ConcatProperties, Len(<<Head(t)>>) = 1
  <2>2. /\ Len(t) = 1 + Len(Tail(t)) /\ Len(Tail(t)) \in Nat /\ Head(t) = t[1]
        /\ \A i \in 1 .. Len(Tail(t)) : Tail(t)[i] = t[i + 1]
    BY HeadTailProperties, LenProperties
  <2>3. \A i \in 1 .. Len(t) : (<<Head(t)>> \o Tail(t))[i] = t[i]
    BY <2>1, <2>2
  <2>4. QED
    BY <2>1, <2>2, <2>3, SeqEqual
<1>4. QED
  BY <1>1, <1>2, <1>3, ConcatAssociative

\* A write adds its item to the client's stream, unless the client has left.
LEMMA StreamDelivered ==
  ASSUME Types, NEW c \in Clients, NEW item \in 0..sent,
         Deliver(c, item), UNCHANGED seen
  PROVE  IF open[c] THEN Stream(c)' = Append(Stream(c), item)
                    ELSE Stream(c)' = Stream(c)
<1>1. CASE open[c]
  <2>1. socket'[c] = Append(socket[c], item)
    BY <1>1 DEF Deliver, Types
  <2>2. item \in Nat
    BY DEF Types
  <2>3. seen[c] \o Append(socket[c], item) = Append(seen[c] \o socket[c], item)
    <3>1. socket[c] \in Seq(Nat) /\ seen[c] \in Seq(Nat)
      BY StreamTypes
    <3>2. \A s, t \in Seq(Nat), e \in Nat : s \o Append(t, e) = Append(s \o t, e)
      BY ConcatAppend
    <3>3. QED
      BY <2>2, <3>1, <3>2
  <2>4. QED
    BY <1>1, <2>1, <2>3 DEF Stream
<1>2. CASE ~ open[c]
  BY <1>2 DEF Deliver, Stream
<1>3. QED
  BY <1>1, <1>2

\* A sequence stays in order when the header is appended to the empty one, or a
\* frame above all the others to another.
LEMMA InOrderAppend ==
  ASSUME NEW s \in Seq(Nat), NEW e \in Nat, NEW low \in Nat, NEW top \in Int, NEW high \in Int,
         InOrder(s, low, top), e <= high,
         IF s = << >> THEN e = Header ELSE e > low /\ e > top
  PROVE  InOrder(Append(s, e), low, high)
<1> DEFINE t == Append(s, e)
<1>1. /\ Len(s) \in Nat /\ Len(t) = Len(s) + 1
      /\ \A i \in 1 .. Len(s) : t[i] = s[i] /\ s[i] \in Nat
      /\ t[Len(s) + 1] = e
      /\ IF s = << >> THEN Len(s) = 0 ELSE Len(s) >= 1
  BY AppendProperties, LenProperties, ElementOfSeq, EmptySeq
<1> HIDE DEF t
<1>2. t[1] = Header
  BY <1>1 DEF InOrder
<1>3. ASSUME NEW i \in 2 .. Len(t) PROVE t[i] > low /\ t[i] > t[i - 1]
  <2>1. CASE i \in 2 .. Len(s)
    <3>1. t[i] = s[i] /\ t[i - 1] = s[i - 1] /\ s # << >>
      BY SMTT(30), <1>1, <2>1
    <3>2. QED
      BY <3>1, <2>1 DEF InOrder
  <2>2. CASE i = Len(s) + 1
    <3>1. s # << >> /\ t[i] = e /\ i - 1 \in 1 .. Len(s) /\ t[i - 1] = s[i - 1]
      BY <1>1, <2>2
    <3>2. s[i - 1] <= top /\ s[i - 1] \in Nat
      BY <1>1, <3>1 DEF InOrder
    <3>3. QED
      BY <3>1, <3>2
  <2>3. QED
    BY <1>1, <2>1, <2>2
<1>4. ASSUME NEW i \in 1 .. Len(t) PROVE t[i] <= high
  <2>1. CASE i \in 1 .. Len(s)
    <3>1. t[i] = s[i] /\ s # << >> /\ s[i] \in Nat
      BY <1>1, <2>1
    <3>2. s[i] <= top
      BY <2>1, <3>1 DEF InOrder
    <3>3. QED
      BY <3>1, <3>2
  <2>2. QED
    BY <1>1, <2>1
<1>5. QED
  BY <1>2, <1>3, <1>4 DEF InOrder, t

\* The beginning of a sequence in order is in order.
LEMMA InOrderPrefix ==
  ASSUME NEW s \in Seq(Nat), NEW t \in Seq(Nat), NEW low, NEW high, InOrder(s \o t, low, high)
  PROVE  InOrder(s, low, high)
<1> DEFINE u == s \o t
<1>1. /\ Len(s) \in Nat /\ Len(t) \in Nat /\ u \in Seq(Nat) /\ Len(u) = Len(s) + Len(t)
      /\ \A i \in 1 .. Len(s) : u[i] = s[i]
  BY ConcatProperties, LenProperties
<1> HIDE DEF u
<1>2. SUFFICES ASSUME s # << >>
      PROVE /\ s[1] = Header
            /\ \A i \in 2 .. Len(s) : s[i] > low /\ s[i] > s[i - 1]
            /\ \A i \in 1 .. Len(s) : s[i] <= high
  BY DEF InOrder
<1>3. Len(s) >= 1
  BY <1>1, <1>2, EmptySeq
<1>4. u # << >>
  BY <1>1, <1>3, EmptySeq
<1>5. /\ u[1] = Header
      /\ \A i \in 2 .. Len(u) : u[i] > low /\ u[i] > u[i - 1]
      /\ \A i \in 1 .. Len(u) : u[i] <= high
  BY <1>4 DEF InOrder, u
<1>6. s[1] = Header
  BY <1>1, <1>3, <1>5
<1>7. ASSUME NEW i \in 2 .. Len(s) PROVE s[i] > low /\ s[i] > s[i - 1]
  <2>1. i \in 1 .. Len(s) /\ i - 1 \in 1 .. Len(s) /\ i \in 2 .. Len(u)
    BY <1>1
  <2>2. u[i] = s[i] /\ u[i - 1] = s[i - 1]
    BY <1>1, <2>1
  <2>3. QED
    BY <1>5, <2>1, <2>2
<1>8. ASSUME NEW i \in 1 .. Len(s) PROVE s[i] <= high
  <2>1. i \in 1 .. Len(u) /\ u[i] = s[i]
    BY <1>1
  <2>2. QED
    BY <1>5, <2>1
<1>9. QED
  BY <1>6, <1>7, <1>8

\* A stream nothing was added to stays in order while the position, less the
\* frame in hand, does not go back.
LEMMA OrderedQuiet ==
  ASSUME Types, NEW c \in Clients, Ordered(c), Stream(c)' = Stream(c),
         joined'[c] = joined[c], next'[c] \in Nat,
         next'[c] - InHand(c)' >= next[c] - InHand(c)
  PROVE  Ordered(c)'
<1>1. /\ next[c] \in Nat /\ InHand(c) \in Nat /\ InHand(c)' \in Nat
      /\ \A i \in 1 .. Len(Stream(c)) : Stream(c)[i] \in Nat
  BY SMTT(30), StreamTypes DEF Types, InHand
<1>2. QED
  BY <1>1 DEF Ordered, InOrder

\* The counters of a client, as numbers the provers can reckon with.
LEMMA ClientNumbers ==
  ASSUME Types, NEW c \in Clients
  PROVE  /\ sent \in Nat /\ next[c] \in 0..sent /\ holding[c] \in 0..sent
         /\ joined[c] \in 0..sent /\ dropped[c] \in Nat /\ Capacity \in Nat \ {0}
BY BroadcastAssumption DEF Types

\* A client that nothing was written for has an empty stream.
LEMMA EmptyStream ==
  ASSUME NEW c \in Clients, NothingYet(c)
  PROVE  Stream(c) = << >>
BY EmptySeq, ConcatEmptySeq DEF NothingYet, Stream

\* Connecting, being accepted and being subscribed: nothing is written yet.
LEMMA JoinKeeps ==
  ASSUME Types, NEW c \in Clients, ClientInv(c), Connect(c) \/ Accept(c)
  PROVE  ClientInv(c)'
<1>1. NothingYet(c) /\ Position(c) /\ phase[c] \in {"away", "queued"}
  BY DEF ClientInv, Connect, Accept
<1>2. phase'[c] \in {"queued", "header"} /\ next'[c] = joined'[c] /\ joined'[c] \in Nat
  BY <1>1, ClientNumbers DEF Connect, Accept, Types, NothingYet
<1>3. NothingYet(c)'
  BY <1>1, <1>2 DEF Connect, Accept, NothingYet, wires
<1>4. Position(c)'
  BY <1>1, <1>2, ClientNumbers DEF Connect, Accept, Position, InHand
<1>5. Stream(c)' = << >>
  BY <1>3, EmptySeq, ConcatEmptySeq DEF NothingYet, Stream
<1>6. QED
  BY <1>2, <1>3, <1>4, <1>5 DEF ClientInv, Ordered, InOrder, Accounted

\* The header opens the stream, if the client is still there.
LEMMA WriteHeaderKeeps ==
  ASSUME Types, NEW c \in Clients, ClientInv(c), WriteHeader(c)
  PROVE  ClientInv(c)'
<1>1. NothingYet(c) /\ Position(c) /\ Stream(c) = << >>
  BY EmptyStream DEF ClientInv, WriteHeader
<1>2. /\ phase'[c] = "recv" /\ InHand(c)' = 0
      /\ UNCHANGED <<open, next, holding, joined, dropped, reply>>
  BY DEF WriteHeader, Types, InHand
<1>3. IF open[c] THEN Stream(c)' = Append(<< >>, Header) ELSE Stream(c)' = << >>
  <2>1. Header \in 0..sent
    BY ClientNumbers DEF Header
  <2>2. QED
    BY <1>1, <2>1, StreamDelivered DEF WriteHeader
<1>4. Position(c)'
  BY <1>1, <1>2, ClientNumbers DEF Position, InHand, WriteHeader
<1>5. CASE open[c]
  <2>1. Header \in Nat /\ Header <= next[c] /\ next[c] \in Int /\ joined[c] \in Nat
        /\ next[c] = joined[c] /\ dropped[c] = 0
    BY <1>1, ClientNumbers DEF Header, NothingYet
  <2>2. << >> \in Seq(Nat) /\ InOrder(<< >>, joined[c], next[c])
    BY EmptySeq DEF InOrder
  <2>3. InOrder(Append(<< >>, Header), joined[c], next[c])
    BY <2>1, <2>2, InOrderAppend
  <2>4. Append(<< >>, Header) # << >> /\ Len(Append(<< >>, Header)) = 1
    BY <2>1, <2>2, AppendProperties, Len(<< >>) = 0
  <2>5. Ordered(c)'
    BY <1>2, <1>3, <1>5, <2>1, <2>3 DEF Ordered
  <2>6. Accounted(c)'
    <3>1. Stream(c)' # << >> /\ Len(Stream(c)') = 1
      BY <1>3, <1>5, <2>4
    <3>2. next'[c] = joined'[c] /\ dropped'[c] = 0 /\ joined'[c] \in Nat
      BY <1>2, <2>1
    <3>3. QED
      BY <1>2, <3>1, <3>2 DEF Accounted
  <2>7. QED
    BY <1>2, <1>4, <2>5, <2>6 DEF ClientInv
<1>6. CASE ~ open[c]
  BY <1>2, <1>3, <1>4, <1>6 DEF ClientInv, Ordered, InOrder, Accounted
<1>7. QED
  BY <1>5, <1>6

\* A relay that ends writes no more.
LEMMA FailKeeps ==
  ASSUME Types, NEW c \in Clients, ClientInv(c), HeaderFails(c) \/ WriteFails(c)
  PROVE  ClientInv(c)'
<1>1. /\ phase'[c] = "gone" /\ InHand(c)' = 0 /\ holding'[c] = 0
      /\ UNCHANGED <<open, next, joined, dropped, reply, socket, seen>>
  BY DEF HeaderFails, WriteFails, Types, InHand, wires, ClientInv, Position
<1>2. Stream(c)' = Stream(c)
  BY <1>1 DEF Stream
<1>3. InHand(c) \in Nat /\ next[c] \in Nat /\ joined[c] \in Nat
  BY ClientNumbers DEF InHand
<1>4. Ordered(c)'
  BY <1>1, <1>2, <1>3, OrderedQuiet DEF ClientInv
<1>5. Position(c)'
  BY <1>1, <1>3 DEF ClientInv, Position
<1>6. QED
  BY <1>1, <1>4, <1>5 DEF ClientInv, Accounted

\* A frame is taken from the channel: the position moves on and it is in hand.
LEMMA RecvFrameKeeps ==
  ASSUME Types, NEW c \in Clients, ClientInv(c), RecvFrame(c)
  PROVE  ClientInv(c)'
<1>1. /\ phase[c] = "recv" /\ phase'[c] = "write" /\ InHand(c) = 0 /\ InHand(c)' = 1
      /\ next'[c] = next[c] + 1 /\ holding'[c] = next'[c]
      /\ UNCHANGED <<open, joined, dropped, socket, seen>>
  BY DEF RecvFrame, Types, InHand, wires
<1>2. Stream(c)' = Stream(c)
  BY <1>1 DEF Stream
<1>3. next[c] \in Nat /\ joined[c] \in Nat /\ dropped[c] \in Nat /\ Len(Stream(c)) \in Nat
  BY ClientNumbers, StreamTypes
<1>4. Ordered(c)'
  BY <1>1, <1>2, <1>3, OrderedQuiet DEF ClientInv
<1>5. Position(c)'
  BY <1>1, <1>3 DEF ClientInv, Position
<1>6. Accounted(c)'
  <2>1. PICK n, m : n = Len(Stream(c)) /\ m = Len(Stream(c)')
    OBVIOUS
  <2>2. ASSUME open[c]
        PROVE  /\ Stream(c) # << >>
               /\ n - 1 + dropped[c] + InHand(c) = next[c] - joined[c]
    BY <1>1, <2>1, <2>2 DEF ClientInv, Accounted
  <2>3. m = n /\ joined'[c] = joined[c] /\ open'[c] = open[c]
    BY <1>1, <1>2, <2>1
  <2>4. ASSUME open[c]
        PROVE  m - 1 + dropped'[c] + InHand(c)' = next'[c] - joined'[c]
    BY <1>1, <1>3, <2>1, <2>2, <2>3, <2>4
  <2>5. SUFFICES ASSUME open'[c]
                 PROVE  /\ Stream(c)' # << >>
                        /\ Len(Stream(c)') - 1 + dropped'[c] + InHand(c)' = next'[c] - joined'[c]
    BY DEF Accounted
  <2>6. open[c]
    BY <2>3, <2>5
  <2>7. Stream(c)' # << >>
    BY <1>2, <2>2, <2>6
  <2>8. QED
    BY <2>1, <2>4, <2>6, <2>7
<1>7. QED
  BY <1>1, <1>4, <1>5, <1>6 DEF ClientInv

\* Lagged: the position moves on by what is reported missed.
LEMMA RecvLaggedKeeps ==
  ASSUME Types, NEW c \in Clients, ClientInv(c), RecvLagged(c)
  PROVE  ClientInv(c)'
<1>1. /\ phase[c] = "recv" /\ phase'[c] = "recv" /\ InHand(c) = 0 /\ InHand(c)' = 0
      /\ next'[c] = sent - Capacity /\ sent - next[c] > Capacity
      /\ dropped'[c] = dropped[c] + sent - Capacity - next[c]
      /\ UNCHANGED <<open, joined, holding, socket, seen>>
  BY DEF RecvLagged, Types, InHand, wires
<1>2. Stream(c)' = Stream(c)
  BY <1>1 DEF Stream
<1>3. /\ sent \in Nat /\ Capacity \in Nat /\ next[c] \in Nat /\ joined[c] \in Nat
      /\ dropped[c] \in Nat /\ Len(Stream(c)) \in Nat
  BY ClientNumbers, StreamTypes
<1>4. Ordered(c)'
  BY <1>1, <1>2, <1>3, OrderedQuiet DEF ClientInv
<1>5. Position(c)'
  BY <1>1, <1>3 DEF ClientInv, Position
<1>6. Accounted(c)'
  <2>1. PICK n, m : n = Len(Stream(c)) /\ m = Len(Stream(c)')
    OBVIOUS
  <2>2. ASSUME open[c]
        PROVE  /\ Stream(c) # << >>
               /\ n - 1 + dropped[c] + InHand(c) = next[c] - joined[c]
    BY <1>1, <2>1, <2>2 DEF ClientInv, Accounted
  <2>3. m = n /\ joined'[c] = joined[c] /\ open'[c] = open[c]
    BY <1>1, <1>2, <2>1
  <2>4. ASSUME open[c]
        PROVE  m - 1 + dropped'[c] + InHand(c)' = next'[c] - joined'[c]
    <3>1. n \in Nat /\ n - 1 + dropped[c] = next[c] - joined[c]
      BY <1>1, <1>3, <2>1, <2>2, <2>4
    <3>2. PICK d, h, x : d = dropped'[c] /\ h = InHand(c)' /\ x = next'[c]
      OBVIOUS
    <3>3. /\ d = dropped[c] + (sent - Capacity - next[c]) /\ h = 0
          /\ x = sent - Capacity /\ m = n /\ joined'[c] = joined[c]
      BY <1>1, <1>3, <2>3, <3>2
    <3>4. m - 1 + d + h = x - joined[c]
      BY <1>3, <3>1, <3>3
    <3>5. QED
      BY <3>2, <3>3, <3>4, Zenon
  <2>5. SUFFICES ASSUME open'[c]
                 PROVE  /\ Stream(c)' # << >>
                        /\ Len(Stream(c)') - 1 + dropped'[c] + InHand(c)' = next'[c] - joined'[c]
    BY DEF Accounted
  <2>6. open[c]
    BY <2>3, <2>5
  <2>7. Stream(c)' # << >>
    BY <1>2, <2>2, <2>6
  <2>8. QED
    BY <2>1, <2>4, <2>6, <2>7
<1>7. QED
  BY <1>1, <1>4, <1>5, <1>6 DEF ClientInv

\* The frame in hand goes to the end of the stream, if the client is there.
LEMMA WriteFrameKeeps ==
  ASSUME Types, NEW c \in Clients, ClientInv(c), WriteFrame(c)
  PROVE  ClientInv(c)'
<1>1. /\ phase[c] = "write" /\ phase'[c] = "recv" /\ InHand(c) = 1 /\ InHand(c)' = 0
      /\ holding[c] = next[c] /\ holding'[c] = 0
      /\ UNCHANGED <<open, next, joined, dropped, seen>>
  BY DEF WriteFrame, Types, InHand, ClientInv, Position
<1>2. /\ next[c] \in 0..sent /\ next[c] \in Nat /\ joined[c] \in Nat /\ dropped[c] \in Nat
      /\ Stream(c) \in Seq(Nat) /\ Len(Stream(c)) \in Nat
      /\ \A i \in 1 .. Len(Stream(c)) : Stream(c)[i] \in Nat
  BY ClientNumbers, StreamTypes
<1>3. joined[c] < next[c] /\ Position(c)'
  BY <1>1, <1>2 DEF ClientInv, Position
<1>4. IF open[c] THEN Stream(c)' = Append(Stream(c), next[c]) ELSE Stream(c)' = Stream(c)
  BY <1>1, <1>2, StreamDelivered DEF WriteFrame
<1>5. CASE open[c]
  <2>1. Stream(c) # << >> /\ Len(Stream(c)) - 1 + dropped[c] + 1 = next[c] - joined[c]
    BY <1>1, <1>5 DEF ClientInv, Accounted
  <2>2. InOrder(Stream(c), joined[c], next[c] - 1)
    BY <1>1 DEF ClientInv, Ordered
  <2>3. InOrder(Append(Stream(c), next[c]), joined[c], next[c])
    BY <1>2, <1>3, <2>1, <2>2, InOrderAppend
  <2>4. /\ Append(Stream(c), next[c]) # << >>
        /\ Len(Append(Stream(c), next[c])) = Len(Stream(c)) + 1
    BY <1>2, AppendProperties
  <2>5. Ordered(c)'
    <3>1. joined'[c] = joined[c] /\ next'[c] - InHand(c)' = next[c]
      BY <1>1, <1>2
    <3>2. QED
      BY <1>4, <1>5, <2>3, <3>1 DEF Ordered
  <2>6. Accounted(c)'
    BY <1>1, <1>2, <1>4, <1>5, <2>1, <2>4 DEF Accounted
  <2>7. QED
    BY <1>1, <1>3, <2>5, <2>6 DEF ClientInv
<1>6. CASE ~ open[c]
  <2>1. Ordered(c)'
    BY <1>1, <1>2, <1>4, <1>6, OrderedQuiet DEF ClientInv
  <2>2. QED
    BY <1>1, <1>3, <1>6, <2>1 DEF ClientInv, Accounted
<1>7. QED
  BY <1>5, <1>6

\* Reading moves the stream's boundary, not the stream.
LEMMA ReadKeeps ==
  ASSUME Types, NEW c \in Clients, ClientInv(c), Read(c)
  PROVE  ClientInv(c)'
<1>1. /\ socket[c] # << >> /\ socket'[c] = Tail(socket[c])
      /\ seen'[c] = Append(seen[c], Head(socket[c]))
      /\ UNCHANGED <<phase, open, next, holding, joined, dropped, reply>>
  BY DEF Read, Types, relays
<1>2. Stream(c)' = Stream(c)
  BY <1>1, StreamTypes, ConcatMove DEF Stream
<1>3. phase[c] \notin {"away", "queued", "header"}
  BY <1>1 DEF ClientInv, NothingYet
<1>4. Ordered(c)' /\ Accounted(c)' /\ Position(c)'
  BY <1>1, <1>2 DEF ClientInv, Ordered, Accounted, Position, InHand
<1>5. QED
  BY <1>1, <1>3, <1>4 DEF ClientInv

\* Hanging up cuts the stream short.
LEMMA HangUpKeeps ==
  ASSUME Types, NEW c \in Clients, ClientInv(c), HangUp(c)
  PROVE  ClientInv(c)'
<1>1. /\ open'[c] = FALSE /\ socket'[c] = << >>
      /\ UNCHANGED <<phase, next, holding, joined, dropped, reply, seen>>
  BY DEF HangUp, Types, relays
<1>2. Stream(c)' = seen[c]
  BY <1>1, StreamTypes, ConcatEmptySeq DEF Stream
<1>5. Ordered(c)'
  <2>1. InOrder(seen[c] \o socket[c], joined[c], next[c] - InHand(c))
    BY DEF ClientInv, Ordered, Stream
  <2>2. InOrder(seen[c], joined[c], next[c] - InHand(c))
    BY <2>1, StreamTypes, InOrderPrefix
  <2>3. QED
    BY <1>1, <1>2, <2>2 DEF Ordered, InHand
<1>6. NothingYet(c) => NothingYet(c)'
  BY <1>1 DEF NothingYet
<1>7. QED
  BY <1>1, <1>5, <1>6 DEF ClientInv, Position, Accounted, InHand

-----------------------------------------------------------------------------
(* The invariant *)

\* A step of a client's relay keeps that client's invariant.
LEMMA RelayKeeps ==
  ASSUME Types, NEW c \in Clients, ClientInv(c), Relay(c)
  PROVE  ClientInv(c)'
BY WriteHeaderKeeps, FailKeeps, RecvFrameKeeps, RecvLaggedKeeps, WriteFrameKeeps DEF Relay

\* A step of one client's connection is no other client's.
LEMMA OthersUntouched ==
  ASSUME Types, NEW c \in Clients, NEW d \in Clients, c # d,
         Connect(c) \/ Accept(c) \/ Relay(c) \/ Read(c) \/ HangUp(c)
  PROVE  UNCHANGED mine(d)
<1> USE DEF Types, mine
<1>1. CASE Connect(c)
  BY <1>1 DEF Connect, server
<1>2. CASE Accept(c)
  BY <1>2 DEF Accept, wires
<1>3. CASE WriteHeader(c)
  BY <1>3 DEF WriteHeader, Deliver, server
<1>4. CASE HeaderFails(c)
  BY <1>4 DEF HeaderFails, server, wires
<1>5. CASE RecvFrame(c)
  BY <1>5 DEF RecvFrame, server, wires
<1>6. CASE RecvLagged(c)
  BY <1>6 DEF RecvLagged, server, wires
<1>7. CASE WriteFrame(c)
  BY <1>7 DEF WriteFrame, Deliver, server
<1>8. CASE WriteFails(c)
  BY <1>8 DEF WriteFails, wires
<1>9. CASE Read(c)
  BY <1>9 DEF Read, server, relays
<1>10. CASE HangUp(c)
  BY <1>10 DEF HangUp, server, relays
<1>11. QED
  BY <1>1, <1>2, <1>3, <1>4, <1>5, <1>6, <1>7, <1>8, <1>9, <1>10 DEF Relay

\* Every step keeps the invariant of every client.
LEMMA ClientInvNext ==
  ASSUME Types, \A c \in Clients : ClientInv(c), [Next]_vars, NEW d \in Clients
  PROVE  ClientInv(d)'
<1>1. CASE UNCHANGED vars \/ Send \/ Finish \/ AcceptFails
  <2>1. UNCHANGED mine(d)
    BY <1>1 DEF vars, server, relays, wires, Send, Finish, AcceptFails, mine
  <2>2. QED
    BY <2>1, Untouched
<1>2. ASSUME NEW c \in Clients,
             Connect(c) \/ Accept(c) \/ Relay(c) \/ Read(c) \/ HangUp(c)
      PROVE  ClientInv(d)'
  <2>1. CASE c = d
    BY <1>2, <2>1, JoinKeeps, RelayKeeps, ReadKeeps, HangUpKeeps
  <2>2. CASE c # d
    BY <1>2, <2>2, OthersUntouched, Untouched
  <2>3. QED
    BY <2>1, <2>2
<1>3. QED
  BY <1>1, <1>2 DEF Next

\* The invariant is inductive.
LEMMA BroadcastInductive == IndInv /\ [Next]_vars => IndInv'
BY TypesNext, CountsNext, ClientInvNext DEF IndInv

\* It holds before the first client connects.
LEMMA BroadcastInitial == Init => IndInv
<1> SUFFICES ASSUME Init PROVE IndInv
  OBVIOUS
<1>1. Types
  <2>1. Shots \in Nat
    BY BroadcastAssumption
  <2>2. << >> \in Seq(0..sent)
    BY EmptySeq
  <2>3. socket \in [Clients -> Seq(0..sent)] /\ seen \in [Clients -> Seq(0..sent)]
    BY <2>2 DEF Init
  <2>4. reply = [c \in Clients |-> reply[c]]
    BY DEF Init
  <2>5. /\ phase \in [Clients -> {"away", "queued", "header", "recv", "write", "gone"}]
        /\ open \in [Clients -> BOOLEAN]
    BY DEF Init
  <2>6. up \in BOOLEAN /\ finished \in BOOLEAN
    BY Zenon DEF Init
  <2>7. /\ next \in [Clients -> 0..sent] /\ holding \in [Clients -> 0..sent]
        /\ joined \in [Clients -> 0..sent] /\ dropped \in [Clients -> Nat]
    BY DEF Init
  <2>8. QED
    BY <2>1, <2>3, <2>4, <2>5, <2>6, <2>7 DEF Init, Types
<1>2. Counts
  <2>1. Relays = {} /\ Accepted = {}
    BY DEF Init, Relays, Accepted
  <2>2. Cardinality({}) = 0
    BY FS_EmptySet
  <2>3. QED
    BY <2>1, <2>2 DEF Init, Counts
<1>3. ASSUME NEW c \in Clients PROVE ClientInv(c)
  <2>1. NothingYet(c)
    BY DEF Init, NothingYet
  <2>2. Stream(c) = << >>
    BY <2>1, EmptyStream
  <2>3. QED
    BY <2>1, <2>2 DEF Init, ClientInv, Position, InHand, Ordered, InOrder, Accounted
<1>4. QED
  BY <1>1, <1>2, <1>3 DEF IndInv

\* It holds in every reachable state.
LEMMA BroadcastInvariant == Spec => []IndInv
BY BroadcastInitial, BroadcastInductive, PTL DEF Spec

-----------------------------------------------------------------------------
(* Theorems *)

\* The variables always have their types: client_count is between zero and
\* the number of clients, positions and frames on the wire are at most the
\* number of frames sent, and a relay holds a frame just while it writes.
THEOREM TypeCorrect == Spec => []TypeOK
<1>1. IndInv => TypeOK
  <2> SUFFICES ASSUME IndInv PROVE TypeOK
    OBVIOUS
  <2>1. Accepted \subseteq Clients /\ Relays \subseteq Clients
    BY DEF Accepted, Relays
  <2>2. Cardinality(Accepted) <= Cardinality(Clients)
    BY <2>1, BroadcastAssumption, FS_Subset
  <2>3. client_count \in 0 .. Cardinality(Clients)
    <3>1. Cardinality(Accepted) \in Nat /\ Cardinality(Relays) \in Nat
          /\ Cardinality(Clients) \in Nat
      BY <2>1, FiniteParts
    <3>2. QED
      BY <2>2, <3>1 DEF IndInv, Types, Counts
  <2>4. ASSUME NEW c \in Clients PROVE holding[c] # 0 <=> phase[c] = "write"
    BY ClientNumbers DEF IndInv, ClientInv, Position, InHand
  <2>5. QED
    BY <2>3, <2>4 DEF IndInv, Types, TypeOK
<1>2. QED
  BY <1>1, BroadcastInvariant, PTL

\* Whatever the client missed, its stream is the file header and then frames
\* sent after it joined, each once and in the order they were sent.
THEOREM StreamsAreSound == Spec => []StreamIsSound
<1>1. IndInv => StreamIsSound
  BY DEF IndInv, ClientInv, Ordered, InOrder, StreamIsSound
<1>2. QED
  BY <1>1, BroadcastInvariant, PTL

\* The frames a relay is past and did not deliver are exactly the ones Lagged
\* reported: nothing is lost to a full socket or to another client.
THEOREM FramesAreAccounted == Spec => []EveryFrameAccounted
<1>1. IndInv => EveryFrameAccounted
  <2> SUFFICES ASSUME IndInv, NEW c \in Clients, phase[c] = "recv", open[c]
               PROVE  Len(Stream(c)) - 1 + dropped[c] = next[c] - joined[c]
    BY DEF EveryFrameAccounted
  <2>1. Len(Stream(c)) \in Nat /\ dropped[c] \in Nat
    BY StreamTypes, ClientNumbers DEF IndInv
  <2>2. QED
    BY <2>1 DEF IndInv, ClientInv, Accounted, InHand
<1>2. QED
  BY <1>1, BroadcastInvariant, PTL

\* Every running relay is counted, so client_count never passes zero.
THEOREM RelaysAreCounted == Spec => []CountsEveryRelay
<1>1. IndInv => CountsEveryRelay
  BY DEF IndInv, Counts, CountsEveryRelay
<1>2. QED
  BY <1>1, BroadcastInvariant, PTL

-----------------------------------------------------------------------------
(* Each receiver reads a lossy log *)

\* What the log says of one receiver.
Reads(c) == Receiver(c)!Next \/ UNCHANGED <<sent, next[c], reply[c]>>

LogOf(n) == [i \in 1..n |-> 1]

\* The log of the frames sent, and what one more frame makes of it.
LEMMA LogFacts ==
  ASSUME NEW n \in Nat
  PROVE  /\ Len(LogOf(n)) = n
         /\ LogOf(n + 1) = Append(LogOf(n), 1)
         /\ \A i \in 1..n : LogOf(n)[i] = 1
<1>1. LogOf(n) \in [1..n -> {1}] /\ LogOf(n + 1) \in [1..n+1 -> {1}]
  BY DEF LogOf
<1>2. LogOf(n) \in Seq({1}) /\ LogOf(n + 1) \in Seq({1})
  BY <1>1, SeqDef
<1>3. Len(LogOf(n)) = n /\ Len(LogOf(n + 1)) = n + 1
  BY <1>1, <1>2, LenProperties
<1>4. /\ Append(LogOf(n), 1) \in Seq({1}) /\ Len(Append(LogOf(n), 1)) = n + 1
      /\ \A i \in 1..n : Append(LogOf(n), 1)[i] = LogOf(n)[i]
      /\ Append(LogOf(n), 1)[n + 1] = 1
  BY <1>2, <1>3, AppendProperties
<1>5. \A i \in 1..n : LogOf(n)[i] = 1 /\ LogOf(n + 1)[i] = 1
  BY DEF LogOf
<1>6. LogOf(n + 1)[n + 1] = 1
  BY DEF LogOf
<1>7. \A i \in 1 .. n + 1 : LogOf(n + 1)[i] = Append(LogOf(n), 1)[i]
  BY <1>4, <1>5, <1>6
<1>8. QED
  BY <1>2, <1>3, <1>4, <1>5, <1>7, SeqEqual

\* A send of the producer is, for each receiver, a publication of the log.
LEMMA SendPublishes ==
  ASSUME Types, NEW c \in Clients, Send
  PROVE  Receiver(c)!Publish
<1>1. sent' = sent + 1 /\ sent \in Nat /\ next'[c] = next[c] /\ reply'[c] = reply[c]
  BY BroadcastAssumption DEF Send, relays, Types
<1>2. LogOf(sent') = Append(LogOf(sent), 1)
  BY <1>1, LogFacts
<1>3. QED
  BY <1>1, <1>2 DEF Receiver!Publish, LogOf

\* A client that is accepted joins the log at its end.
LEMMA AcceptJoins ==
  ASSUME Types, NEW c \in Clients, ClientInv(c), Accept(c)
  PROVE  Receiver(c)!Join
<1>1. sent \in Nat /\ sent' = sent /\ next'[c] = sent /\ reply'[c] = [kind |-> "none"]
  BY ClientNumbers DEF Accept, Types, ClientInv, NothingYet
<1>2. Len(LogOf(sent)) = sent
  BY <1>1, LogFacts
<1>3. QED
  BY <1>1, <1>2 DEF Receiver!Join, LogOf

\* A frame that is received is the next of the log.
LEMMA RecvFrameTakes ==
  ASSUME Types, NEW c \in Clients, RecvFrame(c)
  PROVE  Receiver(c)!Take
<1>1. /\ sent \in Nat /\ next[c] \in Nat /\ sent' = sent /\ next[c] < sent
      /\ next'[c] = next[c] + 1
      /\ reply'[c] = [kind |-> "frame", number |-> next[c] + 1, len |-> 1]
  <2>1. c \in DOMAIN reply
    BY DEF Types
  <2>2. QED
    BY <2>1, ClientNumbers DEF RecvFrame, Types, server
<1>2. Len(LogOf(sent)) = sent /\ LogOf(sent)[next[c] + 1] = 1
  <2>1. next[c] + 1 \in 1..sent
    BY <1>1
  <2>2. QED
    BY <1>1, <2>1, LogFacts
<1>3. QED
  BY <1>1, <1>2 DEF Receiver!Take, Receiver!Behind, LogOf

\* A receiver that lagged gives up what the channel dropped.
LEMMA RecvLaggedGivesUp ==
  ASSUME Types, NEW c \in Clients, RecvLagged(c)
  PROVE  Receiver(c)!GiveUp
<1>1. /\ sent \in Nat /\ next[c] \in Nat /\ Capacity \in Nat
      /\ sent' = sent /\ sent - next[c] > Capacity
      /\ next'[c] = sent - Capacity
      /\ reply'[c] = [kind |-> "overrun", skipped |-> sent - Capacity - next[c]]
  <2>1. c \in DOMAIN reply
    BY DEF Types
  <2>2. QED
    BY <2>1, ClientNumbers DEF RecvLagged, Types, server
<1>2. Len(LogOf(sent)) = sent
  BY <1>1, LogFacts
<1>3. sent - Capacity - next[c] = (sent - next[c]) - Capacity
  BY <1>1
<1>4. QED
  BY <1>1, <1>2, <1>3 DEF Receiver!GiveUp, Receiver!Behind, LogOf

\* Every step of the transport is, for every receiver, a step of the log or
\* none.
LEMMA StepReads ==
  ASSUME IndInv, [Next]_vars, NEW d \in Clients
  PROVE  Reads(d)
<1>1. CASE UNCHANGED vars \/ Finish \/ AcceptFails
  BY <1>1 DEF vars, server, relays, Finish, AcceptFails, Reads
<1>2. CASE Send
  BY <1>2, SendPublishes DEF IndInv, Reads, Receiver!Next
<1>3. ASSUME NEW c \in Clients,
             Connect(c) \/ Accept(c) \/ Relay(c) \/ Read(c) \/ HangUp(c)
      PROVE  Reads(d)
  <2>1. sent' = sent
    BY <1>3 DEF Connect, Accept, Relay, WriteHeader, HeaderFails, RecvFrame, RecvLagged,
                WriteFrame, WriteFails, Read, HangUp, server
  <2>2. CASE c # d
    <3>1. UNCHANGED mine(d)
      BY <1>3, <2>2, OthersUntouched DEF IndInv
    <3>2. QED
      BY <2>1, <3>1 DEF mine, Reads
  <2>3. CASE c = d /\ (Accept(c) \/ RecvFrame(c) \/ RecvLagged(c))
    BY <2>3, AcceptJoins, RecvFrameTakes, RecvLaggedGivesUp DEF IndInv, Reads, Receiver!Next
  <2>4. CASE c = d /\ ~ (Accept(c) \/ RecvFrame(c) \/ RecvLagged(c))
    BY <1>3, <2>1, <2>4 DEF Connect, Relay, WriteHeader, HeaderFails, WriteFrame, WriteFails,
                            Read, HangUp, relays, Reads
  <2>5. QED
    BY <2>2, <2>3, <2>4
<1>4. QED
  BY <1>1, <1>2, <1>3 DEF Next

\* Each receiver, as its relay sees it, reads the lossy log that the
\* shared-memory ring implements too.
THEOREM ReceiversReadTheLog == Spec => ReceiversReadALossyLog
<1>1. Init => \A c \in Clients : Receiver(c)!Init
  <2> SUFFICES ASSUME Init, NEW c \in Clients PROVE Receiver(c)!Init
    OBVIOUS
  <2>1. LogOf(0) = << >>
    BY LogFacts, SeqDef, Len(LogOf(0)) = 0 DEF LogOf
  <2>2. QED
    BY <2>1 DEF Init, Receiver!Init, LogOf
<1>2. IndInv /\ [Next]_vars =>
        [\A c \in Clients : Receiver(c)!Next \/ UNCHANGED <<sent, next[c], reply[c]>>]_vars
  BY StepReads DEF Reads
<1>3. QED
  BY <1>1, <1>2, BroadcastInvariant, PTL DEF Spec, ReceiversReadALossyLog
=============================================================================
