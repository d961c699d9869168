----------------------------- MODULE Broadcast -----------------------------
(***************************************************************************)
(* The broadcast transport of stabstream-sim: run_broadcast and            *)
(* run_broadcast_producer (main.rs), SimBroadcaster and relay_to_socket    *)
(* (broadcast.rs).                                                         *)
(*                                                                         *)
(* One task samples shots into tokio's broadcast channel, one accepts      *)
(* clients, and a relay task per client copies frames from its receiver to *)
(* its socket.  The channel keeps the last Capacity frames and never makes *)
(* the producer wait.  The channel and TCP are external: they are modelled *)
(* by what this code relies on.                                            *)
(*                                                                         *)
(* Frames are numbered from 1 (frame_id + 1); on the wire, 0 is the file   *)
(* header.                                                                 *)
(***************************************************************************)
EXTENDS Integers, Sequences, FiniteSets

CONSTANTS
  Clients,
  Capacity,    \* of the channel: --broadcast-capacity, as the channel rounds it
  Shots,       \* --shots
  SocketRoom   \* bound: writes a socket takes before the client must read

ASSUME BroadcastAssumption ==
  /\ IsFiniteSet(Clients)
  /\ Capacity \in Nat \ {0}
  /\ Shots \in Nat
  /\ SocketRoom \in Nat \ {0}

VARIABLES
  up,            \* the process runs
  sent,          \* frames sent into the channel so far
  finished,      \* the producer task has ended
  client_count,  \* client_count
  phase,         \* where each client's connection is
  open,          \* whether the client holds its end open
  next,          \* each receiver's position: frames it is done with
  holding,       \* the frame a relay is about to write
  socket,        \* what is on its way to each client
  seen,          \* history: what each client read
  joined,        \* history: sent when it was subscribed
  dropped,       \* history: how many frames its relay was told it missed
  reply          \* history: what recv last returned to its relay

server == <<up, sent, finished, client_count>>
relays == <<phase, next, holding, joined, dropped, reply>>
wires  == <<open, socket, seen>>
vars   == <<server, relays, wires>>

Header == 0

Init ==
  /\ up = TRUE
  /\ sent = 0
  /\ finished = FALSE
  /\ client_count = 0
  /\ phase = [c \in Clients |-> "away"]
  /\ open = [c \in Clients |-> FALSE]
  /\ next = [c \in Clients |-> 0]
  /\ holding = [c \in Clients |-> 0]
  /\ socket = [c \in Clients |-> << >>]
  /\ seen = [c \in Clients |-> << >>]
  /\ joined = [c \in Clients |-> 0]
  /\ dropped = [c \in Clients |-> 0]
  /\ reply = [c \in Clients |-> [kind |-> "none"]]

Relays == {c \in Clients : phase[c] \in {"header", "recv", "write"}}

-----------------------------------------------------------------------------
(* The producer *)

\* Mutant: a channel that makes the sender wait for the slowest receiver.
Send_Waits ==
  /\ up /\ ~ finished /\ sent < Shots
  /\ \A c \in Relays : sent - next[c] < Capacity
  /\ sent' = sent + 1
  /\ UNCHANGED <<up, finished, client_count, relays, wires>>

\* send returns at once, with or without receivers.
Send ==
  /\ up /\ ~ finished /\ sent < Shots
  /\ sent' = sent + 1
  /\ UNCHANGED <<up, finished, client_count, relays, wires>>

\* All shots were sent, or stim could not be run or ended early.
Finish ==
  /\ up /\ ~ finished
  /\ finished' = TRUE
  /\ UNCHANGED <<up, sent, client_count, relays, wires>>

-----------------------------------------------------------------------------
(* Accepting clients *)

Connect(c) ==
  /\ up /\ phase[c] = "away"
  /\ phase' = [phase EXCEPT ![c] = "queued"]
  /\ open' = [open EXCEPT ![c] = TRUE]
  /\ UNCHANGED <<server, next, holding, joined, dropped, reply, socket, seen>>

\* accept, subscribe and spawn.  A receiver starts at the end of the channel.
Accept(c) ==
  /\ up /\ phase[c] = "queued"
  /\ client_count' = client_count + 1
  /\ phase' = [phase EXCEPT ![c] = "header"]
  /\ next' = [next EXCEPT ![c] = sent]
  /\ joined' = [joined EXCEPT ![c] = sent]
  /\ UNCHANGED <<up, sent, finished, holding, dropped, reply, wires>>

\* accept fails: run_broadcast returns the error, main returns, and every task
\* ends with the runtime.
AcceptFails ==
  /\ up
  /\ up' = FALSE
  /\ UNCHANGED <<sent, finished, client_count, relays, wires>>

-----------------------------------------------------------------------------
(* relay_to_socket *)

\* A write goes through if there is room, or if the client is gone and the
\* kernel does not know it yet: then it reaches nobody.
Deliver(c, item) ==
  \/ /\ open[c] /\ Len(socket[c]) < SocketRoom
     /\ socket' = [socket EXCEPT ![c] = Append(@, item)]
  \/ /\ ~ open[c]
     /\ UNCHANGED socket

WriteHeader(c) ==
  /\ up /\ phase[c] = "header"
  /\ Deliver(c, Header)
  /\ phase' = [phase EXCEPT ![c] = "recv"]
  /\ UNCHANGED <<server, next, holding, joined, dropped, reply, open, seen>>

\* The header cannot be written: `?` leaves before client_disconnected.
HeaderFails(c) ==
  /\ up /\ phase[c] = "header" /\ ~ open[c]
  /\ phase' = [phase EXCEPT ![c] = "gone"]
  /\ UNCHANGED <<server, next, holding, joined, dropped, reply, wires>>

RecvFrame(c) ==
  /\ up /\ phase[c] = "recv"
  /\ next[c] < sent /\ sent - next[c] <= Capacity
  /\ phase' = [phase EXCEPT ![c] = "write"]
  /\ next' = [next EXCEPT ![c] = @ + 1]
  /\ holding' = [holding EXCEPT ![c] = next[c] + 1]
  /\ reply' = [reply EXCEPT ![c] = [kind |-> "frame", number |-> next[c] + 1, len |-> 1]]
  /\ UNCHANGED <<server, joined, dropped, wires>>

\* Mutant: on Lagged the relay subscribes afresh, at the end of the channel.
RecvLagged_Resubscribes(c) ==
  /\ up /\ phase[c] = "recv"
  /\ sent - next[c] > Capacity
  /\ next' = [next EXCEPT ![c] = sent]
  /\ reply' = [reply EXCEPT ![c] = [kind |-> "overrun", skipped |-> sent - Capacity - next[c]]]
  /\ dropped' = [dropped EXCEPT ![c] = @ + sent - Capacity - next[c]]
  /\ UNCHANGED <<server, phase, holding, joined, wires>>

\* Mutant: on Lagged the loop ends, as on Closed.
RecvLagged_Breaks(c) ==
  /\ up /\ phase[c] = "recv"
  /\ sent - next[c] > Capacity
  /\ phase' = [phase EXCEPT ![c] = "gone"]
  /\ client_count' = client_count - 1
  /\ UNCHANGED <<up, sent, finished, next, holding, joined, dropped, reply, wires>>

\* Lagged: the receiver is moved to the oldest frame kept, and the loop goes
\* on.  (Closed never comes: the relay's own Arc<SimBroadcaster> holds a
\* sender.)
RecvLagged(c) ==
  /\ up /\ phase[c] = "recv"
  /\ sent - next[c] > Capacity
  /\ next' = [next EXCEPT ![c] = sent - Capacity]
  /\ reply' = [reply EXCEPT ![c] = [kind |-> "overrun", skipped |-> sent - Capacity - next[c]]]
  /\ dropped' = [dropped EXCEPT ![c] = @ + sent - Capacity - next[c]]
  /\ UNCHANGED <<server, phase, holding, joined, wires>>

\* Mutant: the frame is kept and written again.
WriteFrame_Again(c) ==
  /\ up /\ phase[c] = "write"
  /\ Deliver(c, holding[c])
  /\ phase' \in {phase, [phase EXCEPT ![c] = "recv"]}
  /\ UNCHANGED <<server, next, holding, joined, dropped, reply, open, seen>>

WriteFrame(c) ==
  /\ up /\ phase[c] = "write"
  /\ Deliver(c, holding[c])
  /\ phase' = [phase EXCEPT ![c] = "recv"]
  /\ holding' = [holding EXCEPT ![c] = 0]
  /\ UNCHANGED <<server, next, joined, dropped, reply, open, seen>>

\* Mutant: the write error and the end of the task both count the client out.
WriteFails_Twice(c) ==
  /\ up /\ phase[c] = "write" /\ ~ open[c]
  /\ phase' = [phase EXCEPT ![c] = "gone"]
  /\ holding' = [holding EXCEPT ![c] = 0]
  /\ client_count' = client_count - 2
  /\ UNCHANGED <<up, sent, finished, next, joined, dropped, reply, wires>>

\* A frame cannot be written: break, and client_disconnected.
WriteFails(c) ==
  /\ up /\ phase[c] = "write" /\ ~ open[c]
  /\ phase' = [phase EXCEPT ![c] = "gone"]
  /\ holding' = [holding EXCEPT ![c] = 0]
  /\ client_count' = client_count - 1
  /\ UNCHANGED <<up, sent, finished, next, joined, dropped, reply, wires>>

-----------------------------------------------------------------------------
(* The client *)

Read(c) ==
  /\ open[c] /\ socket[c] # << >>
  /\ socket' = [socket EXCEPT ![c] = Tail(@)]
  /\ seen' = [seen EXCEPT ![c] = Append(@, Head(socket[c]))]
  /\ UNCHANGED <<server, relays, open>>

\* The client closes; what was on the way is lost.
HangUp(c) ==
  /\ open[c]
  /\ open' = [open EXCEPT ![c] = FALSE]
  /\ socket' = [socket EXCEPT ![c] = << >>]
  /\ UNCHANGED <<server, relays, seen>>

-----------------------------------------------------------------------------

Relay(c) == \/ WriteHeader(c) \/ HeaderFails(c) \/ RecvFrame(c) \/ RecvLagged(c)
            \/ WriteFrame(c) \/ WriteFails(c)

Next == \/ Send \/ Finish \/ AcceptFails
        \/ \E c \in Clients : Connect(c) \/ Accept(c) \/ Relay(c) \/ Read(c) \/ HangUp(c)

Spec == Init /\ [][Next]_vars

\* The runtime polls every task that can go on.  Nothing is assumed of the
\* clients, which may stop reading, nor of stim, which need not end early.
FairSpec ==
  /\ Spec
  /\ WF_vars(Send) /\ WF_vars(sent = Shots /\ Finish)
  /\ \A c \in Clients : WF_vars(Accept(c)) /\ WF_vars(Relay(c))

-----------------------------------------------------------------------------
(* Properties *)

\* The shape of every variable.
TypeOK ==
  /\ up \in BOOLEAN
  /\ sent \in 0..Shots
  /\ finished \in BOOLEAN
  /\ client_count \in 0 .. Cardinality(Clients)
  /\ phase \in [Clients -> {"away", "queued", "header", "recv", "write", "gone"}]
  /\ open \in [Clients -> BOOLEAN]
  /\ next \in [Clients -> 0..sent]
  /\ holding \in [Clients -> 0..sent]
  /\ \A c \in Clients : holding[c] # 0 <=> phase[c] = "write"
  /\ socket \in [Clients -> Seq(0..sent)]
  /\ seen \in [Clients -> Seq(0..sent)]
  /\ joined \in [Clients -> 0..sent]

\* What reached the client's socket.
Stream(c) == seen[c] \o socket[c]

\* A client's stream is one file header and then frames it was subscribed
\* for, each once and in the order they were sent, whatever it missed: a
\* stream whose ids QssfStream accepts.
StreamIsSound ==
  \A c \in Clients : Stream(c) # << >> =>
    /\ Stream(c)[1] = Header
    /\ \A i \in 2 .. Len(Stream(c)) :
          /\ Stream(c)[i] > joined[c]
          /\ Stream(c)[i] > Stream(c)[i - 1]

\* Frames are lost by Lagged alone, and it says how many: every frame the
\* receiver is past was delivered or reported missed, not both; joining late,
\* a full socket and other clients cost nothing.
EveryFrameAccounted ==
  \A c \in Clients : phase[c] = "recv" /\ open[c] =>
    Len(Stream(c)) - 1 + dropped[c] = next[c] - joined[c]

\* The number of clients never falls below the number of running relays (and
\* so never passes zero, where a usize wraps).
CountsEveryRelay == Cardinality(Relays) <= client_count

\* Each receiver, as its relay sees it, is a reader of the lossy log that the
\* shared-memory ring implements too, here with no damaged frame.  (Spec of
\* every Receiver(c), with the quantifier inside the box.)
Receiver(c) == INSTANCE LossyLog WITH
  Slots <- Capacity, Ahead <- 0, Length <- {1},
  log <- [n \in 1..sent |-> 1], next <- next[c], reply <- reply[c]

ReceiversReadALossyLog ==
  /\ \A c \in Clients : Receiver(c)!Init
  /\ [][\A c \in Clients : Receiver(c)!Next \/ UNCHANGED <<sent, next[c], reply[c]>>]_vars

\* The producer gets to its end whatever the clients do.
ProducerNeverWaits == <>(finished \/ ~ up)

\* A client that stays and always goes on to read what it was sent gets to the
\* end of what is sent.
CatchesUp ==
  \A c \in Clients :
    []<>(socket[c] = << >>) =>
      (phase[c] = "queued" ~>
         \/ ~ up \/ ~ open[c]
         \/ finished /\ next[c] = sent /\ phase[c] = "recv" /\ socket[c] = << >>)
=============================================================================
