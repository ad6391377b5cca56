-------------------------- MODULE UnixSocketProofs --------------------------
(***************************************************************************)
(* Proofs about UnixSocket for every number of messages, connections and   *)
(* requests, in whatever order the three threads run.                      *)
(***************************************************************************)
EXTENDS UnixSocket, TLAPS

\* What TypeOK rests on: Select has seen a connection that nobody else takes,
\* and send_data works on a message.
SocketTyped ==
    /\ TypeOK
    /\ pc["socket"] = "accept" => backlog # <<>>
    /\ Sending => cur # 0

\* stop is what ends the loop, and closes the socket afterwards.
StopEnds ==
    /\ running <=> pc["main"] = "idle"
    /\ running => listening

\* A client has been accepted and its connection not been forgotten.
Serving == pc["socket"] \in {"flush", "clear", "read", "blocked", "close", "forget"}

Connected == running =>
    IF Serving
    THEN /\ fd \in Clients /\ clients[fd] # "none"
         /\ pc["socket"] # "forget" => fdOpen
    ELSE fd \in {0, -1}

\* Whoever waits to be accepted has connected.
Known == \A i \in DOMAIN backlog : clients[backlog[i]] # "none"

\* Once a client has been given the buffer, only stragglers are in it.
Flushed == running /\ pc["socket"] \in {"read", "blocked", "close", "forget"} =>
    \A i \in DOMAIN buffer : buffer[i] \in raced

\* The messages up to n are in s once and in order, but for those in r.
Whole(s, r, n) ==
    /\ \A i \in DOMAIN s : s[i] \in 1 .. n
    /\ \A m \in (1 .. n) \ r : \E i \in DOMAIN s : s[i] = m
    /\ \A i, j \in DOMAIN s : i < j => s[i] # s[j] /\ ({s[i], s[j]} \cap r = {} => s[i] < s[j])

\* How many messages send_data has finished with.
Finished == IF Sending THEN cur - 1 ELSE cur

Account == alive /\ running => Whole(Given, raced, Finished)

SocketInv ==
    /\ SocketTyped
    /\ StopEnds /\ Connected /\ Known /\ Flushed /\ Account

-----------------------------------------------------------------------------
(* Type correctness *)

\* The types at the start.
LEMMA SocketTypeInit == Init => SocketTyped
<1> SUFFICES ASSUME Init PROVE SocketTyped
  OBVIOUS
<1>1. buffer \in Seq(1 .. NumMsg) /\ out \in Seq(1 .. NumMsg) /\ backlog \in Seq(Clients)
  BY DEF Init
<1>2. cur \in 0 .. NumMsg /\ requests \in 0 .. NumReq
  BY SocketAssumption DEF Init
<1> QED  BY <1>1, <1>2 DEF Init, SocketTyped, TypeOK, Threads, Places, Sending

\* What is written has been taken by send_data.
LEMMA WriteTyped ==
    ASSUME NEW f, NEW data \in Seq(1 .. NumMsg), out \in Seq(1 .. NumMsg), Write(f, data)
    PROVE  out' \in Seq(1 .. NumMsg) /\ alive' \in BOOLEAN
<1>1. out \o data \in Seq(1 .. NumMsg)
  OBVIOUS
<1>2. out' = out \o data \/ out' = out
  BY DEF Write
<1>3. alive' \in BOOLEAN
  BY DEF Write
<1> QED  BY <1>1, <1>2, <1>3

\* The history of the messages moved late.
LEMMA RacedTyped ==
    ASSUME NEW places, cur \in 1 .. NumMsg, raced \subseteq 1 .. NumMsg, OnlyAt(places)
    PROVE  raced' \subseteq 1 .. NumMsg
BY DEF OnlyAt

\* A sequence that grows.
LEMMA AppendTyped ==
    ASSUME NEW S, NEW s \in Seq(S), NEW e \in S
    PROVE  Append(s, e) \in Seq(S) /\ Append(s, e) # <<>>
<1>1. Append(s, e) \in Seq(S) /\ Len(Append(s, e)) = Len(s) + 1 /\ Len(s) \in Nat
  OBVIOUS
<1>2. Len(<<>>) = 0
  OBVIOUS
<1>3. Append(s, e) # <<>>
  BY <1>1, <1>2
<1> QED  BY <1>1, <1>3

\* Every step of the three threads keeps them.
LEMMA SocketTypeStep == SocketTyped /\ [Next]_vars => SocketTyped'
<1> SUFFICES ASSUME SocketTyped, [Next]_vars PROVE SocketTyped'
  OBVIOUS
<1> USE DEF SocketTyped, TypeOK, Goto, Threads, Places, Sending, sender
<1>1. CASE BeginSend
  <2>1. cur' \in 0 .. NumMsg /\ cur' # 0
    BY <1>1, SocketAssumption DEF BeginSend
  <2> QED  BY <1>1, <2>1 DEF BeginSend, conn, peers
<1>2. CASE TestConnected
  BY <1>2 DEF TestConnected, conn, peers
<1>3. CASE BufferData
  <2>0. cur \in 1 .. NumMsg /\ OnlyAt({"select", "accept"})
    BY <1>3, SocketAssumption DEF BufferData
  <2>1. raced' \subseteq 1 .. NumMsg
    BY <2>0, RacedTyped
  <2> QED  BY <1>3, <2>1 DEF BufferData, peers
<1>4. CASE WriteData
  <2>0. cur \in 1 .. NumMsg /\ OnlyAt({"clear", "read", "blocked"})
    BY <1>4, SocketAssumption DEF WriteData
  <2>1. <<cur>> \in Seq(1 .. NumMsg) /\ raced' \subseteq 1 .. NumMsg
    BY <2>0, RacedTyped
  <2>2. out' \in Seq(1 .. NumMsg) /\ alive' \in BOOLEAN
    BY <1>4, <2>1, WriteTyped DEF WriteData
  <2> QED  BY <1>4, <2>1, <2>2 DEF WriteData, conn, peers
<1>5. CASE Select
  BY <1>5 DEF Select, conn, peers
<1>6. CASE SocketThreadEnds
  BY <1>6 DEF SocketThreadEnds, conn, peers
<1>7. CASE Accept
  BY <1>7 DEF Accept
<1>8. CASE AcceptFails
  BY <1>8 DEF AcceptFails, peers
<1>9. CASE Flush
  <2>1. out' \in Seq(1 .. NumMsg) /\ alive' \in BOOLEAN
    BY <1>9, WriteTyped DEF Flush
  <2> QED  BY <1>9, <2>1 DEF Flush, conn, peers
<1>10. CASE Clear
  BY <1>10 DEF Clear, peers
<1>11. CASE EnterRead
  BY <1>11 DEF EnterRead, conn, peers
<1>12. CASE ReadData
  BY <1>12 DEF ReadData, conn
<1>13. CASE ReadEnd
  BY <1>13 DEF ReadEnd, conn, peers
<1>14. CASE CloseClient
  BY <1>14 DEF CloseClient, peers
<1>15. CASE ForgetClient
  BY <1>15 DEF ForgetClient, peers
<1>16. CASE StopBegin
  BY <1>16 DEF StopBegin, conn, peers
<1>17. CASE StopCloseClient
  BY <1>17 DEF StopCloseClient, peers
<1>18. CASE StopCloseSocket
  BY <1>18 DEF StopCloseSocket, conn, peers
<1>19. CASE StopJoin
  BY <1>19 DEF StopJoin, conn, peers
<1>20. ASSUME NEW c \in Clients, Connect(c) PROVE SocketTyped'
  <2>1. backlog' \in Seq(Clients) /\ backlog' # <<>>
    BY <1>20, AppendTyped, Zenon DEF Connect
  <2>2. clients' \in [Clients -> {"none", "open", "gone"}]
    BY <1>20 DEF Connect
  <2> QED  BY <1>20, <2>1, <2>2 DEF Connect, conn
<1>21. ASSUME NEW c \in Clients, Talk(c) PROVE SocketTyped'
  <2>1. requests' \in 0 .. NumReq
    BY <1>21, SocketAssumption DEF Talk
  <2> QED  BY <1>21, <2>1 DEF Talk, conn
<1>22. ASSUME NEW c \in Clients, Leave(c) PROVE SocketTyped'
  BY <1>22 DEF Leave, conn
<1>23. CASE UNCHANGED vars
  BY <1>23 DEF vars, conn, peers
<1> QED
  BY <1>1, <1>2, <1>3, <1>4, <1>5, <1>6, <1>7, <1>8, <1>9, <1>10, <1>11, <1>12, <1>13, <1>14,
      <1>15, <1>16, <1>17, <1>18, <1>19, <1>20, <1>21, <1>22, <1>23
  DEF Next, send_data, socket_thread, client_thread, stopping, Ended

-----------------------------------------------------------------------------
(* Nothing is lost *)

\* A message that is in its turn, or ahead of stragglers only, or a straggler.
LEMMA OneMore ==
    ASSUME NEW n \in 1 .. NumMsg, NEW a \in Seq(1 .. NumMsg), NEW b \in Seq(1 .. NumMsg), NEW r, NEW r2,
           Whole(a \o b, r, n - 1),
           r2 = r \/ r2 = r \cup {n},
           n \in r2 \/ \A i \in DOMAIN b : b[i] \in r
    PROVE  Whole(Append(a, n) \o b, r2, n)
<1> DEFINE s == a \o b
           t == Append(a, n) \o b
           k == Len(a) + 1
           At(i) == IF i < k THEN i ELSE i - 1
<1>0. NumMsg \in Nat /\ n \in Nat
  BY SocketAssumption
<1>1. /\ k \in Nat \ {0} /\ Len(s) \in Nat /\ k <= Len(s) + 1
      /\ DOMAIN s = 1 .. Len(s) /\ DOMAIN t = 1 .. Len(s) + 1
  OBVIOUS
<1>2. t[k] = n
  OBVIOUS
<1>3. \A i \in DOMAIN t : i < k => t[i] = s[i]
  OBVIOUS
<1>4. \A i \in DOMAIN t : i > k => t[i] = s[i - 1] /\ s[i - 1] = b[i - k] /\ i - k \in DOMAIN b
  OBVIOUS
<1> HIDE DEF s, t, k
<1>5. \A i \in DOMAIN t : i # k => At(i) \in DOMAIN s /\ t[i] = s[At(i)]
  BY <1>1, <1>3, <1>4
<1>6. \A i \in DOMAIN s : s[i] \in 1 .. n - 1
  BY DEF Whole, s
<1>7. \A m \in (1 .. n - 1) \ r : \E i \in DOMAIN s : s[i] = m
  BY DEF Whole, s
<1>8. \A i, j \in DOMAIN s : i < j => s[i] # s[j] /\ ({s[i], s[j]} \cap r = {} => s[i] < s[j])
  BY DEF Whole, s
<1>9. \A i \in DOMAIN t : t[i] \in 1 .. n
  <2>1. \A i \in DOMAIN t : i # k => t[i] \in 1 .. n - 1
    BY <1>5, <1>6
  <2>2. 1 .. n - 1 \subseteq 1 .. n /\ n \in 1 .. n
    BY <1>0
  <2> QED  BY <1>2, <2>1, <2>2
<1>10. ASSUME NEW m \in (1 .. n) \ r2 PROVE \E i \in DOMAIN t : t[i] = m
  <2>1. CASE m = n
    <3>1. k \in DOMAIN t
      BY <1>1
    <3> QED  BY <1>2, <2>1, <3>1
  <2>2. CASE m # n
    <3>1. m \in (1 .. n - 1) \ r
      BY <2>2
    <3>2. PICK i \in DOMAIN s : s[i] = m
      BY <1>7, <3>1
    <3> DEFINE j == IF i < k THEN i ELSE i + 1
    <3>3. j \in DOMAIN t /\ j # k /\ At(j) = i
      BY <1>1
    <3> QED  BY <1>5, <3>2, <3>3
  <2> QED  BY <2>1, <2>2
<1>11. ASSUME NEW i \in DOMAIN t, NEW j \in DOMAIN t, i < j
       PROVE  t[i] # t[j] /\ ({t[i], t[j]} \cap r2 = {} => t[i] < t[j])
  <2>1. CASE i # k /\ j # k
    <3>1. At(i) \in DOMAIN s /\ At(j) \in DOMAIN s /\ At(i) < At(j)
      BY <1>1, <1>5, <1>11, <2>1
    <3> QED  BY <1>5, <1>8, <2>1, <3>1
  <2>2. CASE j = k
    <3>0. i # k
      BY <1>1, <1>11, <2>2
    <3>1. t[i] \in 1 .. n - 1
      BY <1>5, <1>6, <3>0
    <3> QED  BY <1>0, <1>2, <2>2, <3>1
  <2>3. CASE i = k
    <3>0. j # k
      BY <1>1, <1>11, <2>3
    <3>1. t[j] \in 1 .. n - 1
      BY <1>5, <1>6, <3>0
    <3>2. n \in r2 \/ t[j] \in r
      BY <1>1, <1>4, <1>11, <2>3
    <3> QED  BY <1>0, <1>2, <2>3, <3>1, <3>2
  <2> QED  BY <2>1, <2>2, <2>3
<1> QED  BY <1>9, <1>10, <1>11 DEF Whole, t

\* A message that is lost.
LEMMA OneLost ==
    ASSUME NEW n \in 1 .. NumMsg, NEW s \in Seq(1 .. NumMsg), NEW r, Whole(s, r, n - 1)
    PROVE  Whole(s, r \cup {n}, n)
<1> NumMsg \in Nat
  BY SocketAssumption
<1>1. \A i \in DOMAIN s : s[i] \in 1 .. n
  BY DEF Whole
<1>2. \A m \in (1 .. n) \ (r \cup {n}) : \E i \in DOMAIN s : s[i] = m
  <2>1. \A m \in (1 .. n) \ (r \cup {n}) : m \in (1 .. n - 1) \ r
    OBVIOUS
  <2> QED  BY <2>1 DEF Whole
<1>3. \A i, j \in DOMAIN s : i < j =>
        s[i] # s[j] /\ ({s[i], s[j]} \cap (r \cup {n}) = {} => s[i] < s[j])
  BY DEF Whole
<1> QED  BY <1>1, <1>2, <1>3 DEF Whole

\* The account at the start: nothing was given to send_data.
LEMMA SocketInit == Init => SocketInv
<1> SUFFICES ASSUME Init PROVE SocketInv
  OBVIOUS
<1>1. SocketTyped
  BY SocketTypeInit
<1>2. StopEnds /\ Connected /\ Known /\ Flushed
  BY DEF Init, StopEnds, Connected, Known, Flushed, Serving, Threads
<1>3. Given = <<>> /\ Finished = 0
  BY DEF Init, Given, Finished, Sending, Threads
<1>4. Account
  BY <1>3 DEF Account, Whole
<1> QED  BY <1>1, <1>2, <1>4 DEF SocketInv

\* Where the connection is, whatever send_data does.
LEMMA ServingStep ==
    ASSUME SocketInv, [Next]_vars
    PROVE  StopEnds' /\ Connected' /\ Known' /\ Flushed'
<1>0. SocketTyped /\ SocketTyped'
  BY SocketTypeStep DEF SocketInv
<1> USE <1>0 DEF SocketTyped, TypeOK, SocketInv, StopEnds, Connected, Known, Flushed, Serving,
    Goto, Threads, sender
<1>1. CASE BeginSend
  BY <1>1 DEF BeginSend, conn, peers
<1>2. CASE TestConnected
  BY <1>2 DEF TestConnected, conn, peers
<1>3. CASE BufferData
  BY <1>3 DEF BufferData, OnlyAt, peers
<1>4. CASE WriteData
  BY <1>4 DEF WriteData, Write, OnlyAt, conn, peers
<1>5. CASE Select
  BY <1>5 DEF Select, conn, peers
<1>6. CASE SocketThreadEnds
  BY <1>6 DEF SocketThreadEnds, conn, peers
<1>7. CASE Accept
  BY <1>7 DEF Accept
<1>8. CASE AcceptFails
  BY <1>8 DEF AcceptFails, peers
<1>9. CASE Flush
  BY <1>9 DEF Flush, conn, peers
<1>10. CASE Clear
  BY <1>10 DEF Clear, peers
<1>11. CASE EnterRead
  BY <1>11 DEF EnterRead, conn, peers
<1>12. CASE ReadData
  BY <1>12 DEF ReadData, conn
<1>13. CASE ReadEnd
  BY <1>13 DEF ReadEnd, conn, peers
<1>14. CASE CloseClient
  BY <1>14 DEF CloseClient, peers
<1>15. CASE ForgetClient
  BY <1>15 DEF ForgetClient, peers
<1>16. CASE StopBegin
  BY <1>16 DEF StopBegin, conn, peers
<1>17. CASE StopCloseClient
  BY <1>17 DEF StopCloseClient, peers
<1>18. CASE StopCloseSocket
  BY <1>18 DEF StopCloseSocket, conn, peers
<1>19. CASE StopJoin
  BY <1>19 DEF StopJoin, conn, peers
<1>20. ASSUME NEW c \in Clients, Connect(c) PROVE StopEnds' /\ Connected' /\ Known' /\ Flushed'
  BY <1>20 DEF Connect, conn
<1>21. ASSUME NEW c \in Clients, Talk(c) PROVE StopEnds' /\ Connected' /\ Known' /\ Flushed'
  BY <1>21 DEF Talk, conn
<1>22. ASSUME NEW c \in Clients, Leave(c) PROVE StopEnds' /\ Connected' /\ Known' /\ Flushed'
  BY <1>22 DEF Leave, conn
<1>23. CASE UNCHANGED vars
  BY <1>23 DEF vars, conn, peers
<1> QED
  BY <1>1, <1>2, <1>3, <1>4, <1>5, <1>6, <1>7, <1>8, <1>9, <1>10, <1>11, <1>12, <1>13, <1>14,
      <1>15, <1>16, <1>17, <1>18, <1>19, <1>20, <1>21, <1>22, <1>23
  DEF Next, send_data, socket_thread, client_thread, stopping, Ended

\* A step that moves no message.
LEMMA AccountKept ==
    ASSUME Account, UNCHANGED raced, Finished' = Finished,
           alive' /\ running' => alive /\ running /\ Given' = Given
    PROVE  Account'
BY DEF Account

\* The step in which send_data buffers a message.
LEMMA BufferAccount == ASSUME SocketInv, SocketTyped', BufferData PROVE Account'
<1> USE DEF Goto, Threads
<1>1. /\ UNCHANGED <<running, alive, cur, out>>
      /\ pc["housekeeping"] = "buffer" /\ buffer' = Append(buffer, cur)
      /\ OnlyAt({"select", "accept"})
      /\ pc' = [pc EXCEPT !["housekeeping"] = "idle"] /\ pc \in [Threads -> Places]
  BY DEF BufferData, SocketInv, SocketTyped, TypeOK
<1>2. /\ pc'["socket"] = pc["socket"] /\ Finished' = cur /\ Finished = cur - 1
      /\ cur \in 1 .. NumMsg /\ out \in Seq(1 .. NumMsg) /\ buffer \in Seq(1 .. NumMsg)
  <2>1. pc'["socket"] = pc["socket"] /\ Finished' = cur /\ Finished = cur - 1
    BY <1>1 DEF Finished, Sending
  <2>2. cur \in 1 .. NumMsg
    BY <1>1, SocketAssumption DEF SocketInv, SocketTyped, TypeOK, Sending
  <2> QED  BY <2>1, <2>2 DEF SocketInv, SocketTyped, TypeOK
<1>3. raced' = raced \/ raced' = raced \cup {cur}
  BY <1>1 DEF OnlyAt
<1> SUFFICES ASSUME alive', running' PROVE Whole(Given', raced', cur)
  BY <1>2 DEF Account
<1>4. Whole(Given, raced, cur - 1)
  BY <1>1, <1>2 DEF SocketInv, Account
<1>5. CASE pc["socket"] = "clear"
  <2>1. Given' = out /\ Given = out /\ raced' = raced \cup {cur}
    BY <1>1, <1>2, <1>5 DEF Given, OnlyAt
  <2> QED  BY <1>2, <1>4, <2>1, OneLost
<1>6. CASE pc["socket"] # "clear"
  <2>1. Given = out \o buffer /\ Given' = out \o Append(buffer, cur)
    BY <1>1, <1>2, <1>6 DEF Given
  <2> DEFINE a == out \o buffer
  <2>2. a \in Seq(1 .. NumMsg) /\ a = a \o <<>> /\ out \o Append(buffer, cur) = Append(a, cur) \o <<>>
    BY <1>2
  <2>3. <<>> \in Seq(1 .. NumMsg) /\ \A i \in DOMAIN <<>> : <<>>[i] \in raced
    OBVIOUS
  <2>4. Whole(a \o <<>>, raced, cur - 1)
    BY <1>4, <2>1, <2>2
  <2> HIDE DEF a
  <2>5. Whole(Append(a, cur) \o <<>>, raced', cur)
    BY <1>2, <1>3, <2>2, <2>3, <2>4, OneMore
  <2> QED  BY <2>1, <2>2, <2>5
<1> QED  BY <1>5, <1>6

\* The step in which send_data writes a message, or the message is lost.
LEMMA WriteAccount == ASSUME SocketInv, SocketTyped', WriteData PROVE Account'
<1> USE DEF Goto, Threads
<1>1. /\ UNCHANGED <<running, cur, buffer, fd, fdOpen, clients>>
      /\ alive /\ pc["housekeeping"] = "write" /\ Write(fd, <<cur>>)
      /\ OnlyAt({"clear", "read", "blocked"})
      /\ pc' = [pc EXCEPT !["housekeeping"] = "idle"] /\ pc \in [Threads -> Places]
  BY DEF WriteData, conn, peers, SocketInv, SocketTyped, TypeOK
<1>2. /\ pc'["socket"] = pc["socket"] /\ Finished' = cur /\ Finished = cur - 1
      /\ cur \in 1 .. NumMsg /\ out \in Seq(1 .. NumMsg) /\ buffer \in Seq(1 .. NumMsg)
  <2>1. pc'["socket"] = pc["socket"] /\ Finished' = cur /\ Finished = cur - 1
    BY <1>1 DEF Finished, Sending
  <2>2. cur \in 1 .. NumMsg
    BY <1>1, SocketAssumption DEF SocketInv, SocketTyped, TypeOK, Sending
  <2> QED  BY <2>1, <2>2 DEF SocketInv, SocketTyped, TypeOK
<1>3. raced' = raced \/ raced' = raced \cup {cur}
  BY <1>1 DEF OnlyAt
<1> SUFFICES ASSUME alive', running' PROVE Whole(Given', raced', cur)
  BY <1>2 DEF Account
<1>4. Whole(Given, raced, cur - 1) /\ running
  BY <1>1, <1>2 DEF SocketInv, Account
<1>5. out' = Append(out, cur) \/ (out' = out /\ raced' = raced \cup {cur})
  <2>1. out' = out \o <<cur>> \/ out' = out
    BY <1>1 DEF Write
  <2>2. out \o <<cur>> = Append(out, cur)
    BY <1>2
  <2>3. CASE pc["socket"] \in {"clear", "read", "blocked"}
    <3>1. fd \in Clients /\ fdOpen /\ clients[fd] \in {"open", "gone"}
      BY <1>4, <2>3 DEF SocketInv, Connected, Serving, SocketTyped, TypeOK
    <3>2. clients[fd] = "open"
      BY <1>1, <3>1 DEF Write
    <3> QED  BY <1>1, <2>2, <3>1, <3>2 DEF Write
  <2>4. CASE pc["socket"] \notin {"clear", "read", "blocked"}
    BY <1>1, <2>1, <2>2, <2>4 DEF OnlyAt
  <2> QED  BY <2>3, <2>4
<1> DEFINE b == IF pc["socket"] = "clear" THEN <<>> ELSE buffer
<1>6. b \in Seq(1 .. NumMsg) /\ Given = out \o b /\ Given' = out' \o b
  <2>1. \A q \in Seq(1 .. NumMsg) : q = q \o <<>>
    OBVIOUS
  <2>2. out' \in Seq(1 .. NumMsg)
    BY <1>2, <1>5, AppendTyped, Zenon
  <2>3. CASE pc["socket"] = "clear"
    BY <1>2, <2>1, <2>2, <2>3 DEF Given
  <2>4. CASE pc["socket"] # "clear"
    BY <1>1, <1>2, <2>4 DEF Given
  <2> QED  BY <2>3, <2>4
<1>7. cur \in raced' \/ \A i \in DOMAIN b : b[i] \in raced
  <2>1. CASE pc["socket"] \in {"read", "blocked"}
    BY <1>4, <2>1 DEF SocketInv, Flushed
  <2>2. CASE pc["socket"] = "clear"
    BY <2>2
  <2>3. CASE pc["socket"] \notin {"clear", "read", "blocked"}
    BY <1>1, <2>3 DEF OnlyAt
  <2> QED  BY <2>1, <2>2, <2>3
<1> HIDE DEF b
<1>8. CASE out' = Append(out, cur)
  BY <1>2, <1>3, <1>4, <1>6, <1>7, <1>8, OneMore
<1>9. CASE out' = out /\ raced' = raced \cup {cur}
  <2>1. out \o b \in Seq(1 .. NumMsg) /\ Given = out \o b
    BY <1>2, <1>6
  <2> QED  BY <1>2, <1>4, <1>6, <1>9, <2>1, OneLost
<1> QED  BY <1>5, <1>8, <1>9

\* Every step of the three threads keeps the account.
LEMMA SocketStep == SocketInv /\ [Next]_vars => SocketInv'
<1> SUFFICES ASSUME SocketInv, [Next]_vars PROVE SocketInv'
  OBVIOUS
<1>0. SocketTyped /\ SocketTyped' /\ Account /\ Connected /\ StopEnds /\ pc \in [Threads -> Places]
  BY SocketTypeStep DEF SocketInv, SocketTyped, TypeOK
<1>1. StopEnds' /\ Connected' /\ Known' /\ Flushed'
  BY ServingStep
<1> USE DEF Goto, Threads, sender, Given, Finished, Sending
<1>2. CASE BufferData \/ WriteData
  BY <1>0, <1>1, <1>2, BufferAccount, WriteAccount DEF SocketInv
<1>3. CASE BeginSend
  <2>1. Finished' = Finished
    BY <1>0, <1>3, SocketAssumption DEF BeginSend, SocketTyped, TypeOK
  <2>2. UNCHANGED <<raced, alive, running, out, buffer>> /\ pc'["socket"] = pc["socket"]
    BY <1>0, <1>3 DEF BeginSend, conn
  <2>3. Account'
    BY <1>0, <2>1, <2>2, AccountKept
  <2> QED  BY <1>0, <1>1, <2>3 DEF SocketInv
<1>4. CASE Flush
  <2>1. /\ UNCHANGED <<raced, cur, running, buffer>> /\ pc["socket"] = "flush" /\ alive
        /\ pc'["housekeeping"] = pc["housekeeping"]
        /\ pc'["socket"] = IF buffer = <<>> THEN "read" ELSE "clear"
        /\ IF buffer = <<>> THEN UNCHANGED <<out, alive>> ELSE Write(fd, buffer)
    BY <1>0, <1>4 DEF Flush, conn
  <2>2. alive' /\ running' => Given' = Given
    <3>1. CASE buffer = <<>>
      BY <2>1, <3>1
    <3>2. CASE buffer # <<>> /\ running
      <4>1. fd \in Clients /\ fdOpen /\ clients[fd] \in {"open", "gone"}
        BY <1>0, <2>1, <3>2 DEF Connected, Serving, SocketTyped, TypeOK
      <4> QED  BY <2>1, <3>2, <4>1 DEF Write
    <3> QED  BY <2>1, <3>1, <3>2
  <2>3. Finished' = Finished
    BY <2>1
  <2>4. Account'
    BY <1>0, <2>1, <2>2, <2>3, AccountKept
  <2> QED  BY <1>0, <1>1, <2>4 DEF SocketInv
<1>5. CASE Clear
  <2>1. /\ UNCHANGED <<raced, cur, running, alive, out>> /\ pc["socket"] = "clear"
        /\ pc'["housekeeping"] = pc["housekeeping"]
        /\ pc'["socket"] = "read" /\ buffer' = <<>>
    BY <1>0, <1>5 DEF Clear
  <2>2. out \o <<>> = out
    BY <1>0 DEF SocketTyped, TypeOK
  <2>3. Given' = Given /\ Finished' = Finished
    BY <2>1, <2>2
  <2>4. Account'
    BY <1>0, <2>1, <2>3, AccountKept
  <2> QED  BY <1>0, <1>1, <2>4 DEF SocketInv
<1>6. ASSUME UNCHANGED <<cur, raced, buffer, out, alive>>, running' => running,
             pc'["housekeeping"] # "idle" <=> pc["housekeeping"] # "idle",
             pc'["socket"] = "clear" <=> pc["socket"] = "clear"
      PROVE  SocketInv'
  <2>1. Given' = Given /\ Finished' = Finished
    BY <1>6
  <2>2. Account'
    BY <1>0, <1>6, <2>1, AccountKept
  <2> QED  BY <1>0, <1>1, <2>2 DEF SocketInv
<1> HIDE DEF Given, Finished, Sending
<1>7. CASE TestConnected \/ StopBegin \/ stopping
  BY <1>0, <1>6, <1>7 DEF TestConnected, StopBegin, stopping, StopCloseClient, StopCloseSocket, StopJoin,
      conn
<1>8. CASE \/ Select \/ SocketThreadEnds \/ Accept \/ AcceptFails \/ EnterRead \/ ReadData \/ ReadEnd
           \/ CloseClient \/ ForgetClient
  BY <1>0, <1>6, <1>8 DEF Select, SocketThreadEnds, Accept, AcceptFails, EnterRead, ReadData, ReadEnd,
      CloseClient, ForgetClient, conn
<1>9. CASE \E c \in Clients : Connect(c) \/ Talk(c) \/ Leave(c)
  BY <1>0, <1>6, <1>9 DEF Connect, Talk, Leave, conn
<1>10. CASE UNCHANGED vars
  BY <1>6, <1>10 DEF vars, conn
<1> QED
  BY <1>2, <1>3, <1>4, <1>5, <1>7, <1>8, <1>9, <1>10
  DEF Next, send_data, socket_thread, client_thread, Ended

-----------------------------------------------------------------------------

\* The range of every variable (unix-socket.cpp), in whatever order the three
\* threads run.
THEOREM SocketTypeCorrect == Spec => []TypeOK
<1>1. Init => SocketTyped
  BY SocketTypeInit
<1>2. SocketTyped /\ [Next]_vars => SocketTyped'
  BY SocketTypeStep
<1>3. SocketTyped => TypeOK
  BY DEF SocketTyped
<1> QED  BY <1>1, <1>2, <1>3, PTL DEF Spec

\* send_data and client_thread (unix-socket.cpp), which share their members
\* without a lock: what send_data has taken is written to a client or buffered for
\* the next, once and in order, through any number of connections and failed calls of
\* accept, but for the messages it moved when the connection was no longer what it had
\* tested, or when there was none after accept had failed.
THEOREM OnlyRacedIsLost == Spec => []NothingLost
<1>1. Init => SocketInv
  BY SocketInit
<1>2. SocketInv /\ [Next]_vars => SocketInv'
  BY SocketStep
<1>3. SocketInv => NothingLost
  BY DEF SocketInv, Account, Whole, Finished, NothingLost
<1> QED  BY <1>1, <1>2, <1>3, PTL DEF Spec
=============================================================================
