----------------------------- MODULE UnixSocket -----------------------------
(***************************************************************************)
(* Class UnixSocket (src/unix-socket.cpp): one client at a time is         *)
(* accepted and read by the socket thread; send_data runs on the           *)
(* housekeeping thread, stop on the main thread.  The three share          *)
(* m_client_sock_fd, m_buffer and the descriptors without a lock.          *)
(*                                                                         *)
(* A client is named by the number of its connection, which is also its    *)
(* descriptor.  A step is one system call, or one access to the shared     *)
(* members (m_buffer grows, is written and is cleared in one step each).   *)
(* A read that has begun keeps its connection alive when another thread    *)
(* closes the descriptor; a write to a client that has left raises SIGPIPE,*)
(* which nothing handles.                                                  *)
(***************************************************************************)
EXTENDS Integers, Sequences

CONSTANTS
    NumMsg,      \* bound: calls of send_data by the housekeeping thread
    NumClients,  \* bound: connections
    NumReq,      \* bound: what the clients write
    AcceptMayFail  \* TRUE: the process may have no descriptor left for a client

ASSUME SocketAssumption ==
    /\ {NumMsg, NumClients, NumReq} \subseteq Nat
    /\ AcceptMayFail \in BOOLEAN

VARIABLES
    running,   \* m_running
    listening, \* m_socket_fd is open
    fd,        \* m_client_sock_fd: 0, -1, or a connection
    fdOpen,    \* the descriptor of the last connection is open
    buffer,    \* m_buffer
    backlog,   \* connections the kernel has not handed out yet
    clients,   \* each client's side of its connection
    unread,    \* clients whose bytes wait to be read
    requests,  \* how many writes the clients have made
    alive,     \* FALSE: SIGPIPE has killed the process
    cur,       \* the message send_data works on, or has finished last
    out,       \* history: the messages written to a connected client
    raced,     \* history: the messages buffered or written at the wrong moment
    pc         \* where each thread is

conn == <<fd, fdOpen, buffer>>
peers == <<backlog, clients, unread, requests>>
sender == <<cur, raced>>
vars == <<running, listening, conn, peers, alive, sender, out, pc>>

Clients == 1 .. NumClients
Threads == {"socket", "housekeeping", "main"}

Goto(t, from, to) == alive /\ pc[t] = from /\ pc' = [pc EXCEPT ![t] = to]

Sending == pc["housekeeping"] # "idle"

\* write(2) on the descriptor f.
Write(f, data) ==
    /\ out' = IF f \in Clients /\ fdOpen /\ clients[f] = "open" THEN out \o data ELSE out
    /\ alive' = ~(f \in Clients /\ fdOpen /\ clients[f] = "gone")

-----------------------------------------------------------------------------
(* send_data on the housekeeping thread *)

\* The housekeeping thread calls poll, and poll send_data for each message that
\* is complete; a poll that is under way when stop begins still may.
BeginSend ==
    /\ cur < NumMsg
    /\ Goto("housekeeping", "idle", "test")
    /\ cur' = cur + 1
    /\ UNCHANGED <<running, listening, conn, peers, alive, raced, out>>

TestConnected ==
    /\ Goto("housekeeping", "test", IF fd = 0 THEN "buffer" ELSE "write")
    /\ UNCHANGED <<running, listening, conn, peers, alive, sender, out>>

\* History: is the socket thread still where the test of m_client_sock_fd supposes it?
OnlyAt(places) == raced' = IF pc["socket"] \in places THEN raced ELSE raced \cup {cur}

\* A bug to rule out: the copying loop reads one place before the data.
BufferDataShifted ==
    /\ Goto("housekeeping", "buffer", "idle")
    /\ buffer' = Append(buffer, cur - 1)
    /\ OnlyAt({"select", "accept"})
    /\ UNCHANGED <<running, listening, fd, fdOpen, peers, alive, cur, out>>

BufferData ==
    /\ Goto("housekeeping", "buffer", "idle")
    /\ buffer' = Append(buffer, cur)
    /\ OnlyAt({"select", "accept"})
    /\ UNCHANGED <<running, listening, fd, fdOpen, peers, alive, cur, out>>

\* The descriptor is read again; a failed write is logged and forgotten.
WriteData ==
    /\ Goto("housekeeping", "write", "idle")
    /\ Write(fd, <<cur>>)
    /\ OnlyAt({"clear", "read", "blocked"})
    /\ UNCHANGED <<running, listening, conn, peers, cur>>

send_data == TestConnected \/ BufferData \/ WriteData

-----------------------------------------------------------------------------
(* socket_thread and client_thread *)

Select ==
    /\ running /\ listening
    /\ backlog # <<>>
    /\ Goto("socket", "select", "accept")
    /\ UNCHANGED <<running, listening, conn, peers, alive, sender, out>>

SocketThreadEnds ==
    /\ ~running
    /\ Goto("socket", "select", "exited")
    /\ UNCHANGED <<running, listening, conn, peers, alive, sender, out>>

Accept ==
    /\ listening
    /\ Goto("socket", "accept", "flush")
    /\ fd' = Head(backlog)
    /\ fdOpen' = TRUE
    /\ backlog' = Tail(backlog)
    /\ UNCHANGED <<running, listening, buffer, clients, unread, requests, alive, sender, out>>

\* A closed socket, or a connection that has to wait, in which case send_data takes
\* -1 for a client. Bound: not twice in a row.
AcceptFails ==
    /\ ~listening \/ (AcceptMayFail /\ fd = 0)
    /\ Goto("socket", "accept", "select")
    /\ fd' = -1
    /\ UNCHANGED <<running, listening, fdOpen, buffer, peers, alive, sender, out>>

Flush ==
    /\ Goto("socket", "flush", IF buffer = <<>> THEN "read" ELSE "clear")
    /\ IF buffer = <<>> THEN UNCHANGED <<out, alive>> ELSE Write(fd, buffer)
    /\ UNCHANGED <<running, listening, conn, peers, sender>>

\* A bug to rule out: the buffer keeps what has been sent.
ClearOmitted ==
    /\ Goto("socket", "clear", "read")
    /\ UNCHANGED <<running, listening, conn, peers, alive, sender, out>>

Clear ==
    /\ Goto("socket", "clear", "read")
    /\ buffer' = <<>>
    /\ UNCHANGED <<running, listening, fd, fdOpen, peers, alive, sender, out>>

\* The head of the loop, and read on a closed descriptor, which is tried again.
EnterRead ==
    /\ ~running \/ fdOpen
    /\ Goto("socket", "read", IF running THEN "blocked" ELSE "close")
    /\ UNCHANGED <<running, listening, conn, peers, alive, sender, out>>

\* The bytes that wait are one call of the callback, however they were written.
ReadData ==
    /\ fd \in unread
    /\ Goto("socket", "blocked", "read")
    /\ unread' = unread \ {fd}
    /\ UNCHANGED <<running, listening, conn, backlog, clients, requests, alive, sender, out>>

\* A bug to rule out: the end of the stream treated like an error.
ReadEndRetried ==
    /\ Goto("socket", "blocked", "read")
    /\ fd \notin unread /\ clients[fd] = "gone"
    /\ UNCHANGED <<running, listening, conn, peers, alive, sender, out>>

ReadEnd ==
    /\ Goto("socket", "blocked", "close")
    /\ fd \notin unread /\ clients[fd] = "gone"
    /\ UNCHANGED <<running, listening, conn, peers, alive, sender, out>>

CloseClient ==
    /\ Goto("socket", "close", "forget")
    /\ fdOpen' = FALSE
    /\ UNCHANGED <<running, listening, fd, buffer, peers, alive, sender, out>>

ForgetClient ==
    /\ Goto("socket", "forget", "select")
    /\ fd' = 0
    /\ UNCHANGED <<running, listening, fdOpen, buffer, peers, alive, sender, out>>

client_thread ==
    Accept \/ AcceptFails \/ Flush \/ Clear \/ EnterRead \/ ReadData \/ ReadEnd
      \/ CloseClient \/ ForgetClient

socket_thread == Select \/ SocketThreadEnds \/ client_thread

-----------------------------------------------------------------------------
(* stop on the main thread *)

\* A bug to rule out: m_running stays set.
StopBeginOmitted ==
    /\ Goto("main", "idle", "close_client")
    /\ UNCHANGED <<running, listening, conn, peers, alive, sender, out>>

StopBegin ==
    /\ Goto("main", "idle", "close_client")
    /\ running' = FALSE
    /\ UNCHANGED <<listening, conn, peers, alive, sender, out>>

StopCloseClient ==
    /\ Goto("main", "close_client", "close_socket")
    /\ fdOpen' = (fdOpen /\ fd = 0)
    /\ UNCHANGED <<running, listening, fd, buffer, peers, alive, sender, out>>

StopCloseSocket ==
    /\ Goto("main", "close_socket", "join")
    /\ listening' = FALSE
    /\ UNCHANGED <<running, conn, peers, alive, sender, out>>

StopJoin ==
    /\ pc["socket"] = "exited"
    /\ Goto("main", "join", "done")
    /\ UNCHANGED <<running, listening, conn, peers, alive, sender, out>>

stopping == StopCloseClient \/ StopCloseSocket \/ StopJoin

-----------------------------------------------------------------------------
(* The clients *)

Connect(c) ==
    /\ alive /\ listening
    /\ clients[c] = "none" /\ \A d \in 1 .. c - 1 : clients[d] # "none"
    /\ clients' = [clients EXCEPT ![c] = "open"]
    /\ backlog' = Append(backlog, c)
    /\ UNCHANGED <<running, listening, conn, unread, requests, alive, sender, out, pc>>

Talk(c) ==
    /\ alive
    /\ clients[c] = "open"
    /\ requests < NumReq
    /\ requests' = requests + 1
    /\ unread' = unread \cup {c}
    /\ UNCHANGED <<running, listening, conn, backlog, clients, alive, sender, out, pc>>

Leave(c) ==
    /\ alive
    /\ clients[c] = "open"
    /\ clients' = [clients EXCEPT ![c] = "gone"]
    /\ UNCHANGED <<running, listening, conn, backlog, unread, requests, alive, sender, out, pc>>

-----------------------------------------------------------------------------

Init ==
    /\ running = TRUE
    /\ listening = TRUE
    /\ fd = 0
    /\ fdOpen = FALSE
    /\ buffer = <<>>
    /\ backlog = <<>>
    /\ clients = [c \in Clients |-> "none"]
    /\ unread = {}
    /\ requests = 0
    /\ alive = TRUE
    /\ cur = 0
    /\ out = <<>>
    /\ raced = {}
    /\ pc = [t \in Threads |-> IF t = "socket" THEN "select" ELSE "idle"]

\* The process has ended.
Ended == (~alive \/ pc["main"] = "done") /\ UNCHANGED vars

Next ==
    \/ BeginSend \/ send_data
    \/ socket_thread
    \/ StopBegin \/ stopping
    \/ \E c \in Clients : Connect(c) \/ Talk(c) \/ Leave(c)
    \/ Ended

\* Every thread goes on; nobody has to send, connect, leave or stop.
Spec == Init /\ [][Next]_vars
FairSpec == Spec /\ WF_vars(send_data) /\ WF_vars(socket_thread) /\ WF_vars(stopping)

\* The same with clients that leave in the end.
LeavingSpec == FairSpec /\ \A c \in Clients : WF_vars(Leave(c))

-----------------------------------------------------------------------------
(* Properties *)

Places == {"select", "exited", "accept", "flush", "clear", "read", "blocked", "close",
           "forget", "idle", "test", "buffer", "write", "close_client", "close_socket",
           "join", "done"}

\* The range of every variable.
TypeOK ==
    /\ {running, listening, fdOpen, alive} \subseteq BOOLEAN
    /\ fd \in {-1, 0} \cup Clients
    /\ buffer \in Seq(1 .. NumMsg) /\ out \in Seq(1 .. NumMsg)
    /\ backlog \in Seq(Clients)
    /\ clients \in [Clients -> {"none", "open", "gone"}]
    /\ unread \subseteq Clients
    /\ requests \in 0 .. NumReq
    /\ cur \in 0 .. NumMsg /\ raced \subseteq 1 .. NumMsg
    /\ pc \in [Threads -> Places]

\* What has been written, and what is buffered for the next client; while the
\* buffer waits to be cleared its content has been written.
Given == IF pc["socket"] = "clear" THEN out ELSE out \o buffer

\* Whatever the three threads do, what send_data has taken is written to a client
\* or buffered for the next one, once and in order, across disconnections, until
\* SIGPIPE or stop.  The exceptions are messages that send_data moved when the
\* connection was no longer what it had tested, or took a failed accept for one:
\* such a one may be lost or come out of its turn, and takes no other message with it.
NothingLost ==
    alive /\ running /\ ~Sending =>
        /\ \A m \in (1 .. cur) \ raced : \E i \in DOMAIN Given : Given[i] = m
        /\ \A i, j \in DOMAIN Given : i < j =>
             /\ Given[i] # Given[j]
             /\ {Given[i], Given[j]} \cap raced = {} => Given[i] < Given[j]

\* The weaker promise of send_data's comment: data is buffered when no client
\* is connected, and the buffer is sent to the next client.
NothingDropped ==
    alive /\ running /\ ~Sending =>
        \A m \in 1 .. cur : \E i \in DOMAIN (out \o buffer) : (out \o buffer)[i] = m

\* stop returns.
StopReturns == (pc["main"] # "idle") ~> (pc["main"] = "done" \/ ~alive)

\* A client that connects while another is served is accepted once that one has left.
NextIsServed == (backlog # <<>>) ~> (backlog = <<>> \/ ~running \/ ~alive)
=============================================================================
