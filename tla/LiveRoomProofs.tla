--------------------------- MODULE LiveRoomProofs ---------------------------
(***************************************************************************)
(* Theorems about LiveRoom, for any number of sockets, requests and        *)
(* messages.  A room is in order because of three kinds of facts: who is   *)
(* where (a user that is connected is a member), whose the media objects   *)
(* are (a producer is on one user's list, a consumer on its owner's), and  *)
(* what a request that waits has read (the history of the chat).           *)
(***************************************************************************)
EXTENDS LiveRoom, FiniteSetTheorems, TLAPS

USE LiveRoomAssumption DEF liveVars, roomVars, mediaVars, chatVars

-----------------------------------------------------------------------------
(***************************************************************************)
(* Types                                                                   *)
(***************************************************************************)
LEMMA RestTyped == Rest \in Call
BY DEF Rest, Call

LEMMA AbsentTyped == Absent \in User
BY DEF Absent, User

LEMMA AppendedTo ==
    ASSUME NEW S, NEW list \in Seq(S), NEW e \in S
    PROVE  /\ Append(list, e) \in Seq(S)
           /\ DOMAIN Append(list, e) = DOMAIN list \cup {Len(list) + 1}
           /\ Append(list, e)[Len(list) + 1] = e
           /\ \A j \in DOMAIN list : Append(list, e)[j] = list[j]
OBVIOUS

LEMMA ElementOf ==
    ASSUME NEW S, NEW list \in Seq(S), NEW k \in DOMAIN list
    PROVE  list[k] \in S
OBVIOUS

\* What a request that begins or ends does to the others.
LEMMA BeginChanges ==
    ASSUME LiveTypeOK, NEW c \in Calls, NEW s \in Sockets, NEW r \in Call, Begin(c, s, r)
    PROVE  /\ \E q \in Call : /\ call' = [call EXCEPT ![c] = q]
                              /\ q.pc = r.pc /\ q.socket = s /\ q.on = r.on /\ q.messages = r.messages
                              /\ q.dir = r.dir /\ q.producer = r.producer
           /\ call' \in [Calls -> Call] /\ requests' \in 0..MaxRequests
<1>1. PICK q : q = [r EXCEPT !.socket = s]
  OBVIOUS
<1>2. q \in Call
  BY <1>1 DEF Call
<1>3. /\ q.pc = r.pc /\ q.socket = s /\ q.on = r.on /\ q.messages = r.messages
      /\ q.dir = r.dir /\ q.producer = r.producer
  BY <1>1 DEF Call
<1>4. call' = [call EXCEPT ![c] = q]
  BY <1>1 DEF Begin
<1>5. call' \in [Calls -> Call]
  BY <1>2, <1>4 DEF LiveTypeOK
<1>6. requests' \in 0..MaxRequests
  BY DEF Begin, LiveTypeOK
<1> QED
  BY <1>2, <1>3, <1>4, <1>5, <1>6

LEMMA BeginType ==
    ASSUME LiveTypeOK, NEW c \in Calls, NEW s \in Sockets, NEW r \in Call, Begin(c, s, r)
    PROVE  LiveTypeOK'
<1>1. call' \in [Calls -> Call] /\ requests' \in 0..MaxRequests
  BY BeginChanges
<1>2. UNCHANGED <<active, conn, members, roomVars, users, mediaVars, heard, gone, chatVars, ghosts>>
  BY DEF Begin
<1> QED
  BY <1>1, <1>2 DEF LiveTypeOK

LEMMA FinishType ==
    ASSUME LiveTypeOK, NEW c \in Calls, Finish(c)
    PROVE  call' \in [Calls -> Call]
BY RestTyped DEF Finish, LiveTypeOK

LEMMA GotoType ==
    ASSUME LiveTypeOK, NEW c \in Calls,
           NEW pc \in {"idle", "find", "router", "enter", "transport", "produce", "consume", "history",
                       "join", "store", "emit"},
           Goto(c, pc)
    PROVE  /\ call' \in [Calls -> Call]
           /\ \E q \in Call : /\ call' = [call EXCEPT ![c] = q]
                              /\ q.pc = pc /\ q.socket = call[c].socket /\ q.messages = call[c].messages
<1>1. PICK q : q = [call[c] EXCEPT !.pc = pc]
  OBVIOUS
<1>c. call[c] \in Call
  BY DEF LiveTypeOK
<1>2. q \in Call
  BY <1>1, <1>c DEF Call
<1>3. q.pc = pc /\ q.socket = call[c].socket /\ q.messages = call[c].messages
  BY <1>1, <1>c DEF Call
<1>4. call' = [call EXCEPT ![c] = q]
  BY <1>1 DEF Goto
<1>5. call' \in [Calls -> Call]
  BY <1>2, <1>4 DEF LiveTypeOK
<1> QED
  BY <1>2, <1>3, <1>4, <1>5

\* Taking producers off the lists touches nothing else of the users.
LEMMA WithoutProducersType ==
    ASSUME NEW us \in [Sockets -> User], NEW P
    PROVE  /\ WithoutProducers(us, P) \in [Sockets -> User]
           /\ \A s \in Sockets :
                 LET u == WithoutProducers(us, P)[s]
                 IN  /\ u.producers = us[s].producers \ P
                     /\ u.in = us[s].in /\ u.speaks = us[s].speaks
                     /\ u.send = us[s].send /\ u.recv = us[s].recv
                     /\ u.consumers = us[s].consumers
<1>1. ASSUME NEW s \in Sockets
      PROVE  LET u == WithoutProducers(us, P)[s]
             IN  /\ u \in User
                 /\ u.producers = us[s].producers \ P
                 /\ u.in = us[s].in /\ u.speaks = us[s].speaks
                 /\ u.send = us[s].send /\ u.recv = us[s].recv
                 /\ u.consumers = us[s].consumers
  <2>1. PICK u : u = [us[s] EXCEPT !.producers = us[s].producers \ P]
    OBVIOUS
  <2>2. us[s] \in User
    OBVIOUS
  <2>3. u \in User
    BY <2>1, <2>2 DEF User
  <2>4. /\ u.producers = us[s].producers \ P
        /\ u.in = us[s].in /\ u.speaks = us[s].speaks
        /\ u.send = us[s].send /\ u.recv = us[s].recv
        /\ u.consumers = us[s].consumers
    BY <2>1, <2>2 DEF User
  <2>5. WithoutProducers(us, P)[s] = u
    BY <2>1 DEF WithoutProducers
  <2> QED
    BY <2>3, <2>4, <2>5
<1>2. WithoutProducers(us, P) \in [Sockets -> User]
  BY <1>1 DEF WithoutProducers
<1> QED
  BY <1>1, <1>2

\* What closing does, as sets: the closed ones are gone from the open ones,
\* and only producers that closed are told.
LEMMA CloseMediaType ==
    ASSUME LiveTypeOK, NEW T, NEW P \in SUBSET openP, NEW C, CloseMedia(T, P, C)
    PROVE  /\ openP' = openP \ (P \cup OnTransports(T))
           /\ openC' \subseteq openC
           /\ gone' \in [Sockets -> SUBSET Nat]
           /\ \A s \in Sockets : /\ gone[s] \subseteq gone'[s]
                                 /\ gone'[s] \subseteq gone[s] \cup P \cup OnTransports(T)
<1>1. \A s \in Sockets : gone'[s] = gone[s] \cup Announced(T, P, C, s)
  BY DEF CloseMedia
<1>2. \A s \in Sockets : Announced(T, P, C, s) \subseteq P \cup OnTransports(T)
  BY DEF Announced
<1>3. P \cup OnTransports(T) \subseteq Nat
  BY DEF OnTransports, LiveTypeOK
<1>4. gone' = [s \in Sockets |-> gone'[s]]
  BY DEF CloseMedia
<1>5. gone' \in [Sockets -> SUBSET Nat]
  BY <1>1, <1>2, <1>3, <1>4 DEF LiveTypeOK
<1>6. openP' = openP \ (P \cup OnTransports(T)) /\ openC' \subseteq openC
  BY DEF CloseMedia
<1> QED
  BY <1>1, <1>2, <1>5, <1>6

\* The requests that wait for something before they change anything: all but
\* a chat message arrive alike.
Arrives(c) ==
    \E s \in Sockets, r \in Call :
        r.pc \in {"find", "produce", "history", "transport", "consume"} /\ Begin(c, s, r)

LEMMA RequestsArrive ==
    ASSUME LiveTypeOK, NEW c \in Calls, NEW s \in Sockets,
           \/ GetCapabilities(c, s) \/ Produce(c, s) \/ Join(c, s)
           \/ \E dir \in {"send", "recv"} : CreateTransport(c, s, dir)
           \/ \E p \in heard[s] \ gone[s] : Consume(c, s, p)
    PROVE  Arrives(c)
<1>0. Rest \in Call
  BY RestTyped
<1>u. users[s].send \in Nat /\ users[s].recv \in Nat /\ router \in Nat /\ openP \subseteq Nat
  BY DEF LiveTypeOK, User
<1>1. CASE GetCapabilities(c, s)
  <2>1. PICK r : r = [Rest EXCEPT !.pc = "find"]
    OBVIOUS
  <2>2. r \in Call /\ r.pc = "find"
    BY <1>0, <2>1 DEF Call
  <2>3. Begin(c, s, r)
    BY <1>1, <2>1 DEF GetCapabilities
  <2> QED
    BY <2>2, <2>3 DEF Arrives
<1>2. CASE Produce(c, s)
  <2>1. PICK r : r = [Rest EXCEPT !.pc = "produce", !.on = users[s].send]
    OBVIOUS
  <2>2. r \in Call /\ r.pc = "produce"
    BY <1>0, <1>u, <2>1 DEF Call
  <2>3. Begin(c, s, r)
    BY <1>2, <2>1 DEF Produce
  <2> QED
    BY <2>2, <2>3 DEF Arrives
<1>3. CASE Join(c, s)
  <2>1. PICK r : r = [Rest EXCEPT !.pc = "history"]
    OBVIOUS
  <2>2. r \in Call /\ r.pc = "history"
    BY <1>0, <2>1 DEF Call
  <2>3. Begin(c, s, r)
    BY <1>3, <2>1 DEF Join
  <2> QED
    BY <2>2, <2>3 DEF Arrives
<1>4. ASSUME NEW dir \in {"send", "recv"}, CreateTransport(c, s, dir)
      PROVE  Arrives(c)
  <2>1. PICK r : r = [Rest EXCEPT !.pc = "transport", !.dir = dir, !.on = router]
    OBVIOUS
  <2>2. r \in Call /\ r.pc = "transport"
    BY <1>0, <1>u, <2>1 DEF Call
  <2>3. Begin(c, s, r)
    BY <1>4, <2>1 DEF CreateTransport
  <2> QED
    BY <2>2, <2>3 DEF Arrives
<1>5. ASSUME NEW p \in heard[s] \ gone[s], Consume(c, s, p)
      PROVE  Arrives(c)
  <2>1. PICK r : r = [Rest EXCEPT !.pc = "consume", !.on = users[s].recv, !.producer = p]
    OBVIOUS
  <2>2. p \in Nat
    BY <1>5, <1>u DEF Consume
  <2>3. r \in Call /\ r.pc = "consume"
    BY <1>0, <1>u, <2>1, <2>2 DEF Call
  <2>4. Begin(c, s, r)
    BY <1>5, <2>1 DEF Consume
  <2> QED
    BY <2>3, <2>4 DEF Arrives
<1> QED
  BY <1>1, <1>2, <1>3, <1>4, <1>5

\* What each step that makes or closes media objects does to users, lists and
\* open objects, in terms the proofs below need.
LEMMA SetTransportChanges ==
    ASSUME LiveTypeOK, NEW c \in Calls, SetTransport(c)
    PROVE  \E T \in SUBSET openT :
              /\ CloseMedia(T, {}, {})
              /\ openT' = (openT \ T) \cup {Len(transports) + 1}
              /\ transports' = Append(transports, call[c].on)
              /\ users' \in [Sockets -> User]
              /\ \A s \in Sockets : /\ users'[s].in = users[s].in
                                    /\ users'[s].producers = users[s].producers \ OnTransports(T)
                                    /\ users'[s].consumers = users[s].consumers
<1> DEFINE s == call[c].socket
<1>s. s \in Sockets /\ call[c].dir \in {"send", "recv"} /\ users[s] \in User
  BY DEF LiveTypeOK, Call
<1>1. CASE ~users[s].in
  <2>1. CloseMedia({}, {}, {}) /\ openT' = (openT \ {}) \cup {Len(transports) + 1} /\ users' = users
        /\ transports' = Append(transports, call[c].on)
    BY <1>1 DEF SetTransport
  <2>2. users' \in [Sockets -> User]
    BY <2>1 DEF LiveTypeOK
  <2>3. OnTransports({}) = {}
    BY DEF OnTransports
  <2> QED
    BY <2>1, <2>2, <2>3
<1>2. CASE users[s].in
  <2>1. PICK T : T = {users[s][call[c].dir]} \cap openT
    OBVIOUS
  <2>2. PICK fewer : fewer = WithoutProducers(users, OnTransports(T))
    OBVIOUS
  <2>3. /\ CloseMedia(T, {}, {}) /\ openT' = (openT \ T) \cup {Len(transports) + 1}
        /\ transports' = Append(transports, call[c].on)
        /\ users' = [fewer EXCEPT ![s][call[c].dir] = Len(transports) + 1]
    BY <1>2, <2>1, <2>2 DEF SetTransport
  <2>4. /\ fewer \in [Sockets -> User]
        /\ \A u \in Sockets : /\ fewer[u].producers = users[u].producers \ OnTransports(T)
                              /\ fewer[u].consumers = users[u].consumers
                              /\ fewer[u].in = users[u].in
    <3>1. users \in [Sockets -> User]
      BY DEF LiveTypeOK
    <3> QED
      BY <2>2, <3>1, WithoutProducersType
  <2>5. Len(transports) + 1 \in Nat
    BY DEF LiveTypeOK
  <2>6. PICK q : q = [fewer[s] EXCEPT ![call[c].dir] = Len(transports) + 1]
    OBVIOUS
  <2>7. q \in User /\ q.in = fewer[s].in /\ q.producers = fewer[s].producers
        /\ q.consumers = fewer[s].consumers
    <3>1. CASE call[c].dir = "send"
      <4>1. q = [fewer[s] EXCEPT !.send = Len(transports) + 1]
        BY <2>6, <3>1
      <4> QED
        BY <4>1, <2>4, <2>5, <1>s DEF User
    <3>2. CASE call[c].dir = "recv"
      <4>1. q = [fewer[s] EXCEPT !.recv = Len(transports) + 1]
        BY <2>6, <3>2
      <4> QED
        BY <4>1, <2>4, <2>5, <1>s DEF User
    <3> QED
      BY <3>1, <3>2, <1>s
  <2>8. users' = [fewer EXCEPT ![s] = q]
    BY <2>3, <2>6
  <2>9. users' \in [Sockets -> User]
    BY <2>4, <2>7, <2>8, <1>s
  <2>10. \A u \in Sockets : /\ users'[u].in = users[u].in
                            /\ users'[u].producers = users[u].producers \ OnTransports(T)
                            /\ users'[u].consumers = users[u].consumers
    BY <2>4, <2>7, <2>8, <1>s
  <2> QED
    BY <2>1, <2>3, <2>9, <2>10
<1> QED
  BY <1>1, <1>2

LEMMA DisconnectChanges ==
    ASSUME LiveTypeOK, NEW s \in Sockets, Disconnect(s)
    PROVE  LET leaves == s \in members /\ router # 0
           IN  \E T \in SUBSET openT, P \in SUBSET openP, C \in SUBSET openC :
                  /\ CloseMedia(T, P, C)
                  /\ openT' = openT \ T
                  /\ users' \in [Sockets -> User]
                  /\ P \subseteq users[s].producers /\ C \subseteq users[s].consumers
                  /\ leaves => users[s].producers \cap openP \subseteq P
                  /\ leaves => ~users'[s].in /\ users'[s].producers = {} /\ users'[s].consumers = {}
                  /\ ~leaves => P = {} /\ C = {}
                  /\ \A u \in Sockets : u # s \/ ~leaves =>
                        /\ users'[u].in = users[u].in
                        /\ users'[u].producers = users[u].producers \ OnTransports(T)
                        /\ users'[u].consumers = users[u].consumers
<1>1. PICK leaves \in BOOLEAN : leaves = (s \in members /\ router # 0)
  OBVIOUS
<1>2. PICK rest : rest = IF leaves THEN [users EXCEPT ![s] = Absent] ELSE users
  OBVIOUS
<1>3. PICK T : T = IF leaves /\ Emptied(rest)
                   THEN { t \in openT : transports[t] = router }
                            \cup (IF leaves THEN {users[s].send, users[s].recv} \cap openT ELSE {})
                   ELSE IF leaves THEN {users[s].send, users[s].recv} \cap openT ELSE {}
  OBVIOUS
<1>4. PICK P : P = IF leaves THEN users[s].producers \cap openP ELSE {}
  OBVIOUS
<1>5. PICK C : C = IF leaves THEN users[s].consumers \cap openC ELSE {}
  OBVIOUS
<1>6. /\ CloseMedia(T, P, C) /\ openT' = openT \ T
      /\ users' = WithoutProducers(rest, OnTransports(T))
  BY <1>1, <1>2, <1>3, <1>4, <1>5 DEF Disconnect
<1>7. /\ T \subseteq openT /\ P \subseteq openP /\ C \subseteq openC
      /\ P \subseteq users[s].producers /\ C \subseteq users[s].consumers
  BY <1>3, <1>4, <1>5
<1>8. /\ rest \in [Sockets -> User]
      /\ \A u \in Sockets : u # s \/ ~leaves => rest[u] = users[u]
      /\ leaves => rest[s] = Absent
  BY <1>2, AbsentTyped DEF LiveTypeOK
<1>9. /\ users' \in [Sockets -> User]
      /\ \A u \in Sockets : /\ users'[u].in = rest[u].in
                            /\ users'[u].producers = rest[u].producers \ OnTransports(T)
                            /\ users'[u].consumers = rest[u].consumers
  BY <1>6, <1>8, WithoutProducersType
<1>10. leaves => ~users'[s].in /\ users'[s].producers = {} /\ users'[s].consumers = {}
  BY <1>8, <1>9 DEF Absent
<1>11. \A u \in Sockets : u # s \/ ~leaves =>
          /\ users'[u].in = users[u].in
          /\ users'[u].producers = users[u].producers \ OnTransports(T)
          /\ users'[u].consumers = users[u].consumers
  BY <1>8, <1>9
<1>12. leaves => users[s].producers \cap openP \subseteq P
  BY <1>4
<1>13. ~leaves => P = {} /\ C = {}
  BY <1>4, <1>5
<1> QED
  BY <1>1, <1>6, <1>7, <1>9, <1>10, <1>11, <1>12, <1>13

-----------------------------------------------------------------------------
LEMMA LiveInitType == LiveInit => LiveTypeOK
<1> SUFFICES ASSUME LiveInit PROVE LiveTypeOK
  OBVIOUS
<1>1. call \in [Calls -> Call] /\ requests \in 0..MaxRequests
  BY RestTyped DEF LiveInit
<1>2. users \in [Sockets -> User]
  <2>1. CASE users = [s \in Sockets |-> Absent]
    BY <2>1, AbsentTyped
  <2>2. ASSUME NEW h \in Hosts,
               users = [s \in Sockets |-> IF s = h
                            THEN [Absent EXCEPT !.in = TRUE, !.speaks = TRUE, !.send = 1] ELSE Absent]
        PROVE  users \in [Sockets -> User]
    <3>1. [Absent EXCEPT !.in = TRUE, !.speaks = TRUE, !.send = 1] \in User
      BY DEF Absent, User
    <3> QED
      BY <2>2, <3>1, AbsentTyped
  <2> QED
    BY <2>1, <2>2 DEF LiveInit
<1>3. made \in Nat /\ router \in 0..made /\ openR \subseteq 1..made /\ lost \subseteq 1..made
  BY DEF LiveInit
<1>4. transports \in Seq(Nat) /\ openT \subseteq DOMAIN transports
  <2>1. <<>> \in Seq(Nat) /\ <<1>> \in Seq(Nat) /\ 1 \in DOMAIN <<1>>
    OBVIOUS
  <2> QED
    BY <2>1 DEF LiveInit
<1>5. /\ producers \in Seq(Nat) /\ openP \subseteq DOMAIN producers
      /\ consumers \in Seq([socket : Sockets, producer : Nat, transport : Nat])
      /\ openC \subseteq DOMAIN consumers
  BY DEF LiveInit
<1>6. /\ active \in BOOLEAN /\ conn \subseteq Sockets /\ members \subseteq conn
      /\ heard \in [Sockets -> SUBSET Nat] /\ gone \in [Sockets -> SUBSET Nat]
      /\ sent \in Nat /\ stored \subseteq 1..sent /\ told \subseteq 1..sent /\ chatting \subseteq Sockets
      /\ seen \in [Sockets -> SUBSET Nat] /\ window \in [Sockets -> SUBSET Nat]
      /\ past \in [Sockets -> SUBSET Nat]
      /\ ghosts \subseteq Sockets
  BY DEF LiveInit
<1> QED
  BY <1>1, <1>2, <1>3, <1>4, <1>5, <1>6 DEF LiveTypeOK

LEMMA FindRoomType ==
    ASSUME LiveTypeOK, NEW c \in Calls, FindRoom(c)
    PROVE  LiveTypeOK'
<1>1. call' \in [Calls -> Call]
  BY FinishType, GotoType DEF FindRoom
<1>2. members' \subseteq conn
  BY DEF FindRoom, JoinSocket, Joined, LiveTypeOK
<1> QED
  BY <1>1, <1>2 DEF FindRoom, LiveTypeOK

LEMMA CreateRouterType ==
    ASSUME LiveTypeOK, NEW c \in Calls, CreateRouter(c)
    PROVE  LiveTypeOK'
<1>1. call' \in [Calls -> Call]
  BY GotoType DEF CreateRouter
<1>2. members' \subseteq conn
  BY DEF CreateRouter, JoinSocket, Joined, LiveTypeOK
<1>3. made' \in Nat /\ router' \in 0..made' /\ openR' \subseteq 1..made' /\ lost' \subseteq 1..made'
  BY DEF CreateRouter, LiveTypeOK
<1> QED
  BY <1>1, <1>2, <1>3 DEF CreateRouter, LiveTypeOK

\* Entering leaves a user with nothing, in the room if there is one.
LEMMA EnterRoomChanges ==
    ASSUME LiveTypeOK, NEW c \in Calls, EnterRoom(c)
    PROVE  LET s == call[c].socket
           IN  /\ users' \in [Sockets -> User]
               /\ \A u \in Sockets : u # s \/ router = 0 => users'[u] = users[u]
               /\ router # 0 => users'[s].in /\ users'[s].producers = {} /\ users'[s].consumers = {}
               /\ heard' \in [Sockets -> SUBSET Nat]
               /\ \A u \in Sockets : heard[u] \subseteq heard'[u]
               /\ Listed' \subseteq heard'[s]
<1>s. call[c].socket \in Sockets
  BY DEF LiveTypeOK, Call
<1>b. PICK b \in BOOLEAN : b = (call[c].socket \in Hosts)
  <2>1. (call[c].socket \in Hosts) \in BOOLEAN
    OBVIOUS
  <2> QED
    BY <2>1, Zenon
<1>1. PICK q : q = [Absent EXCEPT !.in = TRUE, !.speaks = b]
  OBVIOUS
<1>2. q \in User /\ q.in /\ q.producers = {} /\ q.consumers = {}
  BY <1>1 DEF Absent, User
<1>3. users' = IF router = 0 THEN users ELSE [users EXCEPT ![call[c].socket] = q]
  BY <1>b, <1>1 DEF EnterRoom
<1>4. users' \in [Sockets -> User]
  BY <1>2, <1>3, <1>s DEF LiveTypeOK
<1>5. Listed' \subseteq Nat
  BY <1>4 DEF Listed, User
<1>6. heard' = [heard EXCEPT ![call[c].socket] = @ \cup Listed']
  BY DEF EnterRoom, Listed
<1>7. /\ heard' \in [Sockets -> SUBSET Nat]
      /\ \A u \in Sockets : heard[u] \subseteq heard'[u]
      /\ Listed' \subseteq heard'[call[c].socket]
  BY <1>5, <1>6, <1>s DEF LiveTypeOK
<1>8. \A u \in Sockets : u # call[c].socket \/ router = 0 => users'[u] = users[u]
  BY <1>3, <1>s DEF LiveTypeOK
<1>9. router # 0 => users'[call[c].socket] = q
  BY <1>3, <1>s DEF LiveTypeOK
<1>10. router # 0 => /\ users'[call[c].socket].in
                     /\ users'[call[c].socket].producers = {}
                     /\ users'[call[c].socket].consumers = {}
  BY <1>2, <1>9
<1> QED
  BY <1>4, <1>7, <1>8, <1>10

LEMMA EnterRoomType ==
    ASSUME LiveTypeOK, NEW c \in Calls, EnterRoom(c)
    PROVE  LiveTypeOK'
<1>1. call' \in [Calls -> Call]
  BY FinishType DEF EnterRoom
<1>2. users' \in [Sockets -> User] /\ heard' \in [Sockets -> SUBSET Nat]
  BY EnterRoomChanges
<1> QED
  BY <1>1, <1>2 DEF EnterRoom, LiveTypeOK

LEMMA SetTransportType ==
    ASSUME LiveTypeOK, NEW c \in Calls, SetTransport(c)
    PROVE  LiveTypeOK'
<1>1. call' \in [Calls -> Call]
  BY FinishType DEF SetTransport
<1>2. PICK T \in SUBSET openT :
         /\ CloseMedia(T, {}, {})
         /\ openT' = (openT \ T) \cup {Len(transports) + 1}
         /\ transports' = Append(transports, call[c].on)
         /\ users' \in [Sockets -> User]
  BY SetTransportChanges
<1>3. openP' \subseteq openP /\ openC' \subseteq openC /\ gone' \in [Sockets -> SUBSET Nat]
  BY <1>2, CloseMediaType
<1>4. transports' \in Seq(Nat) /\ openT' \subseteq DOMAIN transports'
  <2>1. call[c].on \in Nat
    BY DEF LiveTypeOK, Call
  <2>2. transports' \in Seq(Nat) /\ DOMAIN transports' = DOMAIN transports \cup {Len(transports) + 1}
    BY <1>2, <2>1 DEF LiveTypeOK
  <2> QED
    BY <1>2, <2>2 DEF LiveTypeOK
<1> QED
  BY <1>1, <1>2, <1>3, <1>4 DEF SetTransport, LiveTypeOK

LEMMA AddProducerChanges ==
    ASSUME LiveTypeOK, NEW c \in Calls, AddProducer(c)
    PROVE  LET s == call[c].socket
               p == Len(producers) + 1
           IN  /\ producers' = Append(producers, call[c].on) /\ call[c].on \in openT
               /\ producers' \in Seq(Nat) /\ DOMAIN producers' = DOMAIN producers \cup {p}
               /\ p \notin DOMAIN producers
               /\ openP' = openP \cup {p}
               /\ users' \in [Sockets -> User]
               /\ \A u \in Sockets :
                     /\ users'[u].in = users[u].in /\ users'[u].consumers = users[u].consumers
                     /\ users[u].producers \subseteq users'[u].producers
                     /\ users'[u].producers \subseteq
                           users[u].producers \cup (IF u = s THEN {p} ELSE {})
               /\ heard' \in [Sockets -> SUBSET Nat]
               /\ \A u \in Sockets : heard[u] \subseteq heard'[u]
               /\ \A u \in members : p \in heard'[u]
<1>s. call[c].socket \in Sockets /\ call[c].on \in Nat
  BY DEF LiveTypeOK, Call
<1>1. PICK p : p = Len(producers) + 1
  OBVIOUS
<1>2. p \in Nat /\ p \notin DOMAIN producers
  BY <1>1 DEF LiveTypeOK
<1>3. /\ producers' = Append(producers, call[c].on) /\ call[c].on \in openT
      /\ openP' = openP \cup {p}
  BY <1>1 DEF AddProducer
<1>4. producers' \in Seq(Nat) /\ DOMAIN producers' = DOMAIN producers \cup {p}
  BY <1>1, <1>3, <1>s DEF LiveTypeOK
<1>5. PICK q : q = [users[call[c].socket] EXCEPT !.producers = users[call[c].socket].producers \cup {p}]
  OBVIOUS
<1>6. users[call[c].socket] \in User
  BY <1>s DEF LiveTypeOK
<1>7. /\ q \in User /\ q.in = users[call[c].socket].in /\ q.consumers = users[call[c].socket].consumers
      /\ q.producers = users[call[c].socket].producers \cup {p}
  BY <1>2, <1>5, <1>6 DEF User
<1>8. users' = users \/ users' = [users EXCEPT ![call[c].socket] = q]
  BY <1>1, <1>5 DEF AddProducer
<1>9. /\ users' \in [Sockets -> User]
      /\ \A u \in Sockets : users'[u] = users[u] \/ (u = call[c].socket /\ users'[u] = q)
  BY <1>7, <1>8, <1>s DEF LiveTypeOK
<1>10. \A u \in Sockets :
          /\ users'[u].in = users[u].in /\ users'[u].consumers = users[u].consumers
          /\ users[u].producers \subseteq users'[u].producers
          /\ users'[u].producers \subseteq
                users[u].producers \cup (IF u = call[c].socket THEN {p} ELSE {})
  BY <1>7, <1>9
<1>11. heard' = [m \in Sockets |-> heard[m] \cup (IF m \in members THEN {p} ELSE {})]
  BY <1>1 DEF AddProducer
<1>12. /\ heard' \in [Sockets -> SUBSET Nat]
       /\ \A u \in Sockets : heard[u] \subseteq heard'[u]
       /\ \A u \in members : p \in heard'[u]
  BY <1>2, <1>11 DEF LiveTypeOK
<1> QED
  BY <1>1, <1>2, <1>3, <1>4, <1>9, <1>10, <1>12

LEMMA AddProducerType ==
    ASSUME LiveTypeOK, NEW c \in Calls, AddProducer(c)
    PROVE  LiveTypeOK'
<1>1. call' \in [Calls -> Call]
  BY FinishType DEF AddProducer
<1>2. /\ producers' \in Seq(Nat) /\ openP' \subseteq DOMAIN producers'
      /\ users' \in [Sockets -> User] /\ heard' \in [Sockets -> SUBSET Nat]
  BY AddProducerChanges DEF LiveTypeOK
<1> QED
  BY <1>1, <1>2 DEF AddProducer, LiveTypeOK

LEMMA AddConsumerChanges ==
    ASSUME LiveTypeOK, NEW c \in Calls, AddConsumer(c)
    PROVE  LET s == call[c].socket
               k == Len(consumers) + 1
               row == [socket |-> s, producer |-> call[c].producer, transport |-> call[c].on]
           IN  /\ consumers' = Append(consumers, row)
               /\ call[c].on \in openT /\ call[c].producer \in openP
               /\ consumers' \in Seq([socket : Sockets, producer : Nat, transport : Nat])
               /\ DOMAIN consumers' = DOMAIN consumers \cup {k} /\ k \notin DOMAIN consumers
               /\ consumers'[k] = row
               /\ \A j \in DOMAIN consumers : consumers'[j] = consumers[j]
               /\ openC' = openC \cup {k}
               /\ users' \in [Sockets -> User]
               /\ \A u \in Sockets :
                     /\ users'[u].in = users[u].in /\ users'[u].producers = users[u].producers
                     /\ users'[u].consumers \subseteq
                           users[u].consumers \cup (IF u = s THEN {k} ELSE {})
<1>s. call[c].socket \in Sockets /\ call[c].on \in Nat /\ call[c].producer \in Nat
  BY DEF LiveTypeOK, Call
<1>1. PICK k : k = Len(consumers) + 1
  OBVIOUS
<1>2. PICK row : row = [socket |-> call[c].socket, producer |-> call[c].producer, transport |-> call[c].on]
  OBVIOUS
<1>3. k \in Nat /\ k \notin DOMAIN consumers
  BY <1>1 DEF LiveTypeOK
<1>4. /\ consumers' = Append(consumers, row) /\ openC' = openC \cup {k}
      /\ call[c].on \in openT /\ call[c].producer \in openP
  BY <1>1, <1>2 DEF AddConsumer
<1>5. /\ consumers' \in Seq([socket : Sockets, producer : Nat, transport : Nat])
      /\ DOMAIN consumers' = DOMAIN consumers \cup {k}
      /\ consumers'[k] = row
      /\ \A j \in DOMAIN consumers : consumers'[j] = consumers[j]
  <2>1. row \in [socket : Sockets, producer : Nat, transport : Nat]
    BY <1>2, <1>s
  <2>2. consumers \in Seq([socket : Sockets, producer : Nat, transport : Nat])
    BY DEF LiveTypeOK
  <2> QED
    BY <1>1, <1>4, <2>1, <2>2, AppendedTo
<1>6. PICK q : q = [users[call[c].socket] EXCEPT !.consumers = users[call[c].socket].consumers \cup {k}]
  OBVIOUS
<1>7. users[call[c].socket] \in User
  BY <1>s DEF LiveTypeOK
<1>8. /\ q \in User /\ q.in = users[call[c].socket].in /\ q.producers = users[call[c].socket].producers
      /\ q.consumers = users[call[c].socket].consumers \cup {k}
  BY <1>3, <1>6, <1>7 DEF User
<1>9. users' = users \/ users' = [users EXCEPT ![call[c].socket] = q]
  BY <1>1, <1>6 DEF AddConsumer
<1>10. /\ users' \in [Sockets -> User]
       /\ \A u \in Sockets : users'[u] = users[u] \/ (u = call[c].socket /\ users'[u] = q)
  <2>1. users \in [Sockets -> User]
    BY DEF LiveTypeOK
  <2>2. CASE users' = users
    BY <2>1, <2>2
  <2>3. CASE users' = [users EXCEPT ![call[c].socket] = q]
    BY <1>8, <1>s, <2>1, <2>3
  <2> QED
    BY <1>9, <2>2, <2>3
<1>11. \A u \in Sockets :
          /\ users'[u].in = users[u].in /\ users'[u].producers = users[u].producers
          /\ users'[u].consumers \subseteq
                users[u].consumers \cup (IF u = call[c].socket THEN {k} ELSE {})
  BY <1>8, <1>10
<1> QED
  BY <1>1, <1>2, <1>3, <1>4, <1>5, <1>10, <1>11

LEMMA AddConsumerType ==
    ASSUME LiveTypeOK, NEW c \in Calls, AddConsumer(c)
    PROVE  LiveTypeOK'
<1>1. call' \in [Calls -> Call]
  BY FinishType DEF AddConsumer
<1>2. /\ consumers' \in Seq([socket : Sockets, producer : Nat, transport : Nat])
      /\ openC' \subseteq DOMAIN consumers'
      /\ users' \in [Sockets -> User]
  BY AddConsumerChanges DEF LiveTypeOK
<1> QED
  BY <1>1, <1>2 DEF AddConsumer, LiveTypeOK

LEMMA RejectedType ==
    ASSUME LiveTypeOK, NEW c \in Calls, Rejected(c)
    PROVE  LiveTypeOK'
BY FinishType DEF Rejected, LiveTypeOK

LEMMA DisconnectType ==
    ASSUME LiveTypeOK, NEW s \in Sockets, Disconnect(s)
    PROVE  LiveTypeOK'
<1>1. PICK T \in SUBSET openT, P \in SUBSET openP, C \in SUBSET openC :
         CloseMedia(T, P, C) /\ openT' = openT \ T /\ users' \in [Sockets -> User]
  BY DisconnectChanges
<1>2. openP' \subseteq openP /\ openC' \subseteq openC /\ gone' \in [Sockets -> SUBSET Nat]
  BY <1>1, CloseMediaType
<1>3. router' \in 0..made /\ openR' \subseteq 1..made
  BY DEF Disconnect, LiveTypeOK
<1>4. conn' \subseteq Sockets /\ members' \subseteq conn' /\ ghosts' \subseteq Sockets
  BY DEF Disconnect, LiveTypeOK
<1> QED
  BY <1>1, <1>2, <1>3, <1>4 DEF Disconnect, LiveTypeOK

\* A joining client is given some of the messages there are.
LEMMA ReadHistoryChanges ==
    ASSUME LiveTypeOK, NEW c \in Calls, ReadHistory(c)
    PROVE  \E q \in Call : /\ call' = [call EXCEPT ![c] = q]
                           /\ q.pc = "join" /\ q.socket = call[c].socket /\ q.messages = Oldest(stored)
<1>1. PICK q : q = [call[c] EXCEPT !.pc = "join", !.messages = Oldest(stored)]
  OBVIOUS
<1>2. Oldest(stored) \subseteq Nat
  <2>1. Oldest(stored) \subseteq stored
    BY DEF Oldest
  <2>2. stored \subseteq Nat
    BY DEF LiveTypeOK
  <2> QED
    BY <2>1, <2>2
<1>3. call[c] \in Call
  BY DEF LiveTypeOK
<1>4. q \in Call /\ q.pc = "join" /\ q.socket = call[c].socket /\ q.messages = Oldest(stored)
  BY <1>1, <1>2, <1>3 DEF Call
<1>5. call' = [call EXCEPT ![c] = q]
  BY <1>1 DEF ReadHistory
<1> QED
  BY <1>4, <1>5

LEMMA SendChatChanges ==
    ASSUME LiveTypeOK, NEW c \in Calls, NEW s \in Sockets, SendChat(c, s)
    PROVE  \E q \in Call : /\ call' = [call EXCEPT ![c] = q]
                           /\ q.pc = "store" /\ q.socket = s /\ q.messages = {sent + 1}
<1>1. PICK q : q = [Rest EXCEPT !.pc = "store", !.socket = s, !.messages = {sent + 1}]
  OBVIOUS
<1>2. {sent + 1} \subseteq Nat
  BY DEF LiveTypeOK
<1>3. q \in Call /\ q.pc = "store" /\ q.socket = s /\ q.messages = {sent + 1}
  BY <1>1, <1>2, RestTyped DEF Call
<1>4. call' = [call EXCEPT ![c] = q]
  BY <1>1 DEF SendChat
<1> QED
  BY <1>3, <1>4

\* A message is known to be one of those sent before it is stored.
MessagesSent == \A c \in Calls : call[c].pc \in {"store", "emit"} => call[c].messages \subseteq 1..sent

LEMMA ChatTypes ==
    ASSUME LiveTypeOK, MessagesSent, NEW c \in Calls,
           \/ ReadHistory(c) \/ JoinChat(c) \/ StoreMessage(c) \/ EmitMessage(c)
           \/ \E s \in Sockets : SendChat(c, s)
    PROVE  LiveTypeOK'
<1>c. call[c] \in Call
  BY DEF LiveTypeOK
<1>1. CASE ReadHistory(c)
  <2>1. call' \in [Calls -> Call]
    BY <1>1, ReadHistoryChanges DEF LiveTypeOK
  <2> QED
    BY <1>1, <2>1 DEF ReadHistory, LiveTypeOK
<1>2. CASE JoinChat(c)
  <2>1. call' \in [Calls -> Call]
    BY <1>2, FinishType DEF JoinChat
  <2>2. /\ members' \subseteq conn /\ chatting' \subseteq Sockets
        /\ seen' \in [Sockets -> SUBSET Nat] /\ past' \in [Sockets -> SUBSET Nat]
    BY <1>2, <1>c DEF JoinChat, Joined, LiveTypeOK, Call
  <2> QED
    BY <1>2, <2>1, <2>2 DEF JoinChat, LiveTypeOK
<1>3. CASE StoreMessage(c)
  <2>1. call' \in [Calls -> Call]
    BY <1>3, GotoType DEF StoreMessage
  <2>2. stored' \subseteq 1..sent
    BY <1>3 DEF StoreMessage, MessagesSent, LiveTypeOK
  <2> QED
    BY <1>3, <2>1, <2>2 DEF StoreMessage, LiveTypeOK
<1>4. CASE EmitMessage(c)
  <2>1. call' \in [Calls -> Call]
    BY <1>4, FinishType DEF EmitMessage
  <2>2. told' \subseteq 1..sent
    BY <1>4 DEF EmitMessage, MessagesSent, LiveTypeOK
  <2>3. seen' \in [Sockets -> SUBSET Nat] /\ window' \in [Sockets -> SUBSET Nat]
    BY <1>4, <1>c DEF EmitMessage, LiveTypeOK, Call
  <2> QED
    BY <1>4, <2>1, <2>2, <2>3 DEF EmitMessage, LiveTypeOK
<1>5. ASSUME NEW s \in Sockets, SendChat(c, s)
      PROVE  LiveTypeOK'
  <2>0. PICK q \in Call : call' = [call EXCEPT ![c] = q]
    BY <1>5, SendChatChanges
  <2>1. call' \in [Calls -> Call]
    BY <2>0 DEF LiveTypeOK
  <2>2. requests' = requests + 1 /\ requests < MaxRequests /\ sent' = sent + 1
    BY <1>5 DEF SendChat
  <2>3. requests' \in 0..MaxRequests
    BY <2>2 DEF LiveTypeOK
  <2>4. sent \in Nat /\ stored \subseteq 1..sent /\ told \subseteq 1..sent
    BY DEF LiveTypeOK
  <2>5. sent' \in Nat /\ 1..sent \subseteq 1..sent'
    BY <2>2, <2>4
  <2>6. stored \subseteq 1..sent' /\ told \subseteq 1..sent'
    BY <2>4, <2>5
  <2> QED
    BY <1>5, <2>1, <2>3, <2>5, <2>6 DEF SendChat, LiveTypeOK
<1> QED
  BY <1>1, <1>2, <1>3, <1>4, <1>5

\* Every step of a request is one of these, and no other request moves.
Stays(c) == \A d \in Calls \ {c} : call'[d] = call[d]

LEMMA RestsAfterwards ==
    ASSUME LiveTypeOK, NEW c \in Calls, Finish(c)
    PROVE  Stays(c) /\ call'[c].pc = "idle"
BY DEF Finish, LiveTypeOK, Stays, Rest

LEMMA MessagesSentStep ==
    ASSUME LiveTypeOK, MessagesSent, [LiveNext]_liveVars
    PROVE  MessagesSent'
<1>1. ASSUME NEW c \in Calls, Finish(c), sent' = sent PROVE MessagesSent'
  BY <1>1, RestsAfterwards DEF MessagesSent, Stays
<1>2. ASSUME NEW c \in Calls, NEW q \in Call, call' = [call EXCEPT ![c] = q], sent' = sent,
             q.pc \in {"store", "emit"} => q.messages \subseteq 1..sent
      PROVE  MessagesSent'
  BY <1>2 DEF MessagesSent, LiveTypeOK
<1>3. ASSUME NEW c \in Calls, NEW pc \in {"router", "enter"}, Goto(c, pc), sent' = sent
      PROVE  MessagesSent'
  <2>1. PICK q \in Call : call' = [call EXCEPT ![c] = q] /\ q.pc = pc
    BY <1>3, GotoType
  <2> QED
    BY <1>2, <1>3, <2>1
<1>4. ASSUME NEW c \in Calls, Arrives(c) PROVE MessagesSent'
  <2>1. PICK s \in Sockets, r \in Call :
           r.pc \in {"find", "produce", "history", "transport", "consume"} /\ Begin(c, s, r)
    BY <1>4 DEF Arrives
  <2>2. PICK q \in Call : call' = [call EXCEPT ![c] = q] /\ q.pc = r.pc
    BY <2>1, BeginChanges
  <2>3. sent' = sent
    BY <2>1 DEF Begin
  <2> QED
    BY <1>2, <2>1, <2>2, <2>3
<1>5. ASSUME NEW c \in Calls, NEW s \in Sockets, SendChat(c, s) PROVE MessagesSent'
  <2>1. PICK q \in Call : call' = [call EXCEPT ![c] = q] /\ q.messages = {sent + 1}
    BY <1>5, SendChatChanges
  <2>2. sent' = sent + 1 /\ sent \in Nat
    BY <1>5 DEF SendChat, LiveTypeOK
  <2>3. {sent + 1} \subseteq 1..sent' /\ 1..sent \subseteq 1..sent'
    BY <2>2
  <2> QED
    BY <2>1, <2>3 DEF MessagesSent, LiveTypeOK
<1>6. ASSUME NEW c \in Calls, FindRoom(c) \/ CreateRouter(c) PROVE MessagesSent'
  BY <1>6, <1>1, <1>3 DEF FindRoom, CreateRouter
<1>7. ASSUME NEW c \in Calls,
             \/ EnterRoom(c) \/ SetTransport(c) \/ AddProducer(c) \/ AddConsumer(c) \/ Rejected(c)
             \/ JoinChat(c) \/ EmitMessage(c)
      PROVE  MessagesSent'
  BY <1>1, <1>7 DEF EnterRoom, SetTransport, AddProducer, AddConsumer, Rejected, JoinChat, EmitMessage
<1>8. ASSUME NEW c \in Calls, ReadHistory(c) PROVE MessagesSent'
  <2>1. PICK q \in Call : call' = [call EXCEPT ![c] = q] /\ q.pc = "join"
    BY <1>8, ReadHistoryChanges
  <2>2. sent' = sent
    BY <1>8 DEF ReadHistory
  <2> QED
    BY <1>2, <2>1, <2>2
<1>9. ASSUME NEW c \in Calls, StoreMessage(c) PROVE MessagesSent'
  <2>1. Goto(c, "emit") /\ sent' = sent /\ call[c].pc = "store"
    BY <1>9 DEF StoreMessage
  <2>2. PICK q \in Call : call' = [call EXCEPT ![c] = q] /\ q.messages = call[c].messages
    BY <2>1, GotoType
  <2> QED
    BY <1>2, <2>1, <2>2 DEF MessagesSent
<1>10. ASSUME NEW s \in Sockets, Disconnect(s) PROVE MessagesSent'
  BY <1>10 DEF Disconnect, MessagesSent
<1>11. CASE Deactivate \/ UNCHANGED liveVars
  BY <1>11 DEF Deactivate, MessagesSent
<1> QED
  BY <1>4, <1>5, <1>6, <1>7, <1>8, <1>9, <1>10, <1>11, RequestsArrive DEF LiveNext

LEMMA LiveTypeStep ==
    ASSUME LiveTypeOK, MessagesSent, [LiveNext]_liveVars
    PROVE  LiveTypeOK'
<1>1. ASSUME NEW c \in Calls, Arrives(c) PROVE LiveTypeOK'
  BY <1>1, BeginType DEF Arrives
<1>2. CASE Deactivate \/ UNCHANGED liveVars
  BY <1>2 DEF Deactivate, LiveTypeOK
<1> QED
  BY <1>1, <1>2, RequestsArrive, FindRoomType, CreateRouterType, EnterRoomType, SetTransportType,
     AddProducerType, AddConsumerType, RejectedType, ChatTypes, DisconnectType DEF LiveNext

\* Every variable of LiveRoom stays in its type, whatever requests, departures
\* and closings cross.
THEOREM LiveTypeCorrect == LiveSpec => []LiveTypeOK
<1>1. LiveInit => LiveTypeOK /\ MessagesSent
  BY LiveInitType DEF LiveInit, MessagesSent, Rest
<1>2. LiveTypeOK /\ MessagesSent /\ [LiveNext]_liveVars => (LiveTypeOK /\ MessagesSent)'
  BY LiveTypeStep, MessagesSentStep
<1> QED
  BY <1>1, <1>2, PTL DEF LiveSpec

-----------------------------------------------------------------------------
(***************************************************************************)
(* Who is where                                                            *)
(***************************************************************************)
\* A connected user, or one in the chat, is in the socket room, and whoever
\* is about to enter has joined it; a request outlives its socket only as that
\* of a ghost.
PlaceInv ==
    /\ \A s \in Sockets : users[s].in /\ s \in conn => s \in members
    /\ chatting \cap conn \subseteq members
    /\ \A c \in Calls : call[c].pc # "idle" => call[c].socket \in conn \cup ghosts
    /\ \A c \in Calls : call[c].pc = "enter" /\ call[c].socket \in conn => call[c].socket \in members

PlacesOK == LiveTypeOK /\ MessagesSent /\ PlaceInv /\ RoomsDisposed

\* A step that neither moves anybody nor lets anybody in.
LEMMA NobodyMoves ==
    ASSUME PlacesOK, NEW c \in Calls, Stays(c), call[c].pc # "enter", call'[c].pc # "enter",
           UNCHANGED <<conn, members, ghosts, chatting, router, openR, lost>>,
           \A s \in Sockets : users'[s].in = users[s].in,
           call'[c].pc # "idle" => call'[c].socket \in conn \cup ghosts
    PROVE  PlaceInv' /\ RoomsDisposed'
<1>1. \A s \in Sockets : users'[s].in <=> users[s].in
  OBVIOUS
<1>2. \A d \in Calls : d # c => call'[d] = call[d]
  BY DEF Stays
<1>3. \A s \in Sockets : users[s].in => router # 0 /\ (s \in conn \/ s \in ghosts)
  BY DEF PlacesOK, RoomsDisposed
<1>4. router # 0 => (\E s \in Sockets : users[s].in) \/ \E d \in Calls : call[d].pc = "enter"
  BY DEF PlacesOK, RoomsDisposed
<1>5. PlaceInv'
  BY <1>1, <1>2 DEF PlaceInv, PlacesOK
<1>6. router' # 0 => (\E s \in Sockets : users'[s].in) \/ \E d \in Calls : call'[d].pc = "enter"
  BY <1>1, <1>2, <1>4
<1>7. \A s \in Sockets : users'[s].in => router' # 0 /\ (s \in conn' \/ s \in ghosts')
  BY <1>1, <1>3
<1> QED
  BY <1>5, <1>6, <1>7 DEF RoomsDisposed, PlacesOK

LEMMA ArrivesPlaces ==
    ASSUME PlacesOK, NEW c \in Calls, Arrives(c) \/ \E s \in Sockets : SendChat(c, s)
    PROVE  PlaceInv' /\ RoomsDisposed'
<1>1. \E q \in Call : /\ call' = [call EXCEPT ![c] = q]
                      /\ q.pc # "enter" /\ q.socket \in conn /\ call[c].pc = "idle"
                      /\ UNCHANGED <<conn, members, ghosts, chatting, router, openR, lost, users>>
  <2>1. CASE Arrives(c)
    <3>1. PICK s \in Sockets, r \in Call :
             r.pc \in {"find", "produce", "history", "transport", "consume"} /\ Begin(c, s, r)
      BY <2>1 DEF Arrives
    <3>2. PICK q \in Call : call' = [call EXCEPT ![c] = q] /\ q.pc = r.pc /\ q.socket = s
      BY <3>1, BeginChanges DEF PlacesOK
    <3>3. /\ s \in conn /\ call[c].pc = "idle"
          /\ UNCHANGED <<conn, members, ghosts, chatting, router, openR, lost, users>>
      BY <3>1 DEF Begin
    <3> QED
      BY <3>1, <3>2, <3>3
  <2>2. ASSUME NEW s \in Sockets, SendChat(c, s)
        PROVE  \E q \in Call : /\ call' = [call EXCEPT ![c] = q]
                      /\ q.pc # "enter" /\ q.socket \in conn /\ call[c].pc = "idle"
                      /\ UNCHANGED <<conn, members, ghosts, chatting, router, openR, lost, users>>
    <3>1. PICK q \in Call : call' = [call EXCEPT ![c] = q] /\ q.pc = "store" /\ q.socket = s
      BY <2>2, SendChatChanges DEF PlacesOK
    <3>2. /\ s \in conn /\ call[c].pc = "idle"
          /\ UNCHANGED <<conn, members, ghosts, chatting, router, openR, lost, users>>
      BY <2>2 DEF SendChat
    <3> QED
      BY <3>1, <3>2
  <2> QED
    BY <2>1, <2>2
<1>2. Stays(c) /\ call'[c].pc # "enter" /\ call'[c].socket \in conn /\ call[c].pc = "idle"
      /\ UNCHANGED <<conn, members, ghosts, chatting, router, openR, lost, users>>
  BY <1>1 DEF Stays, PlacesOK, LiveTypeOK
<1> QED
  BY <1>2, NobodyMoves

LEMMA StayPlaces ==
    ASSUME PlacesOK, NEW c \in Calls,
           \/ SetTransport(c) \/ AddProducer(c) \/ AddConsumer(c) \/ Rejected(c)
           \/ ReadHistory(c) \/ StoreMessage(c) \/ EmitMessage(c)
    PROVE  PlaceInv' /\ RoomsDisposed'
<1>0. LiveTypeOK /\ (call[c].pc # "idle" => call[c].socket \in conn \cup ghosts)
  BY DEF PlacesOK, PlaceInv
<1>1. /\ call[c].pc \notin {"idle", "enter"}
      /\ UNCHANGED <<conn, members, ghosts, chatting, router, openR, lost>>
  BY DEF SetTransport, AddProducer, AddConsumer, Rejected, ReadHistory, StoreMessage, EmitMessage
<1>2. \A s \in Sockets : users'[s].in = users[s].in
  <2>1. CASE SetTransport(c)
    BY <1>0, <2>1, SetTransportChanges
  <2>2. CASE AddProducer(c)
    BY <1>0, <2>2, AddProducerChanges
  <2>3. CASE AddConsumer(c)
    BY <1>0, <2>3, AddConsumerChanges
  <2>4. CASE Rejected(c) \/ ReadHistory(c) \/ StoreMessage(c) \/ EmitMessage(c)
    BY <2>4 DEF Rejected, ReadHistory, StoreMessage, EmitMessage
  <2> QED
    BY <2>1, <2>2, <2>3, <2>4
<1>3. Stays(c) /\ (call'[c].pc # "idle" => call'[c].pc # "enter" /\ call'[c].socket = call[c].socket)
  <2>1. ASSUME Finish(c) PROVE Stays(c) /\ call'[c].pc = "idle"
    BY <1>0, <2>1, RestsAfterwards
  <2>2. ASSUME NEW q \in Call, call' = [call EXCEPT ![c] = q], q.pc # "enter", q.socket = call[c].socket
        PROVE  Stays(c) /\ call'[c].pc # "enter" /\ call'[c].socket = call[c].socket
    BY <1>0, <2>2 DEF Stays, LiveTypeOK
  <2>3. CASE StoreMessage(c)
    <3>1. Goto(c, "emit")
      BY <2>3 DEF StoreMessage
    <3> QED
      BY <1>0, <2>2, <3>1, GotoType
  <2>4. CASE ReadHistory(c)
    BY <1>0, <2>2, <2>4, ReadHistoryChanges
  <2>5. CASE SetTransport(c) \/ AddProducer(c) \/ AddConsumer(c) \/ Rejected(c) \/ EmitMessage(c)
    BY <2>1, <2>5 DEF SetTransport, AddProducer, AddConsumer, Rejected, EmitMessage
  <2> QED
    BY <2>3, <2>4, <2>5
<1>4. call'[c].pc # "enter" /\ (call'[c].pc # "idle" => call'[c].socket \in conn \cup ghosts)
  BY <1>0, <1>1, <1>3
<1> QED
  BY <1>1, <1>2, <1>3, <1>4, NobodyMoves

\* A socket that joins the socket room stays where it was otherwise.
LEMMA JoiningPlaces ==
    ASSUME PlacesOK, NEW c \in Calls, FindRoom(c) \/ CreateRouter(c)
    PROVE  PlaceInv' /\ RoomsDisposed'
<1>0. LiveTypeOK /\ PlaceInv /\ RoomsDisposed
  BY DEF PlacesOK
<1>s. call[c].socket \in Sockets /\ made \in Nat /\ made + 1 # 0 /\ 0 \notin openR
  BY <1>0 DEF LiveTypeOK, Call
<1>1. CASE Finish(c) /\ FindRoom(c)
  <2>1. Stays(c) /\ call'[c].pc = "idle"
    BY <1>0, <1>1, RestsAfterwards
  <2>2. /\ call[c].pc = "find" /\ members \subseteq members'
        /\ UNCHANGED <<conn, ghosts, chatting, router, openR, lost, users>>
    BY <1>1 DEF FindRoom, JoinSocket, Joined
  <2>3. PlaceInv'
    BY <1>0, <2>1, <2>2 DEF PlaceInv, Stays
  <2>4. router' # 0 => \/ \E s \in Sockets : users'[s].in
                       \/ \E d \in Calls : call'[d].pc = "enter"
    BY <1>0, <2>1, <2>2 DEF RoomsDisposed, Stays
  <2> QED
    BY <1>0, <2>2, <2>3, <2>4 DEF RoomsDisposed
<1>2. CASE Goto(c, "router") /\ FindRoom(c)
  <2>1. PICK q \in Call : call' = [call EXCEPT ![c] = q] /\ q.pc = "router" /\ q.socket = call[c].socket
    BY <1>0, <1>2, GotoType
  <2>2. /\ call[c].pc = "find" /\ members \subseteq members'
        /\ UNCHANGED <<conn, ghosts, chatting, router, openR, lost, users>>
    BY <1>2 DEF FindRoom, JoinSocket, Joined
  <2>3. Stays(c) /\ call'[c] = q
    BY <1>0, <2>1 DEF LiveTypeOK, Stays
  <2>4. PlaceInv'
    BY <1>0, <2>1, <2>2, <2>3 DEF PlaceInv, Stays
  <2>5. router' # 0 => \/ \E s \in Sockets : users'[s].in
                       \/ \E d \in Calls : call'[d].pc = "enter"
    BY <1>0, <2>1, <2>2, <2>3 DEF RoomsDisposed, Stays
  <2> QED
    BY <1>0, <2>2, <2>4, <2>5 DEF RoomsDisposed
<1>3. CASE Goto(c, "enter") /\ JoinSocket(call[c].socket)
  <2>1. PICK q \in Call : call' = [call EXCEPT ![c] = q] /\ q.pc = "enter" /\ q.socket = call[c].socket
    BY <1>0, <1>3, GotoType
  <2>2. /\ call[c].pc # "idle" /\ UNCHANGED <<conn, ghosts, chatting, users>>
        /\ router # 0 => router' = router
        /\ router' \in openR' /\ openR' \subseteq {router'} \cup lost'
        /\ router' # 0
    <3>1. CASE FindRoom(c)
      <4>1. call[c].pc = "find" /\ UNCHANGED <<conn, ghosts, chatting, users, roomVars>>
        BY <3>1 DEF FindRoom
      <4>2. Goto(c, IF router = 0 THEN "router" ELSE "enter") \/ Finish(c)
        BY <3>1 DEF FindRoom
      <4>3. router # 0
        <5>1. call'[c].pc = "enter"
          BY <1>0, <2>1 DEF LiveTypeOK
        <5>2. ~Finish(c)
          BY <1>0, <5>1, RestsAfterwards
        <5>3. ~Goto(c, "router")
          BY <1>0, <5>1, GotoType DEF LiveTypeOK
        <5> QED
          BY <4>2, <5>2, <5>3
      <4> QED
        BY <1>0, <4>1, <4>3 DEF RoomsDisposed
    <3>2. CASE CreateRouter(c)
      <4>1. /\ call[c].pc = "router" /\ UNCHANGED <<conn, ghosts, chatting, users>>
            /\ openR' = openR \cup {made + 1}
            /\ router' = IF router = 0 THEN made + 1 ELSE router
            /\ lost' = IF router = 0 THEN lost ELSE lost \cup {made + 1}
        BY <3>2 DEF CreateRouter
      <4> QED
        BY <1>0, <1>s, <4>1 DEF RoomsDisposed
    <3> QED
      BY <3>1, <3>2
  <2>3. Stays(c) /\ call'[c] = q
    BY <1>0, <2>1 DEF LiveTypeOK, Stays
  <2>4. members \subseteq members' /\ (call[c].socket \in conn => call[c].socket \in members')
    BY <1>3 DEF JoinSocket, Joined
  <2>5. PlaceInv'
    BY <1>0, <2>1, <2>2, <2>3, <2>4 DEF PlaceInv, Stays
  <2> QED
    BY <1>0, <2>1, <2>2, <2>3, <2>5 DEF RoomsDisposed
<1> QED
  BY <1>1, <1>2, <1>3 DEF FindRoom, CreateRouter

LEMMA EnterRoomPlaces ==
    ASSUME PlacesOK, NEW c \in Calls, EnterRoom(c)
    PROVE  PlaceInv' /\ RoomsDisposed'
<1>0. LiveTypeOK /\ PlaceInv /\ RoomsDisposed
  BY DEF PlacesOK
<1>s. call[c].socket \in Sockets
  BY <1>0 DEF LiveTypeOK, Call
<1>1. Stays(c) /\ call'[c].pc = "idle"
  BY <1>0, RestsAfterwards DEF EnterRoom
<1>2. /\ \A u \in Sockets : u # call[c].socket \/ router = 0 => users'[u] = users[u]
      /\ router # 0 => users'[call[c].socket].in
  BY <1>0, EnterRoomChanges
<1>3. /\ call[c].pc = "enter"
      /\ UNCHANGED <<conn, members, ghosts, chatting, router, openR, lost>>
  BY DEF EnterRoom
<1>4. /\ call[c].socket \in conn => call[c].socket \in members
      /\ call[c].socket \in conn \cup ghosts
  BY <1>0, <1>3 DEF PlaceInv
<1>5. PlaceInv'
  BY <1>0, <1>1, <1>2, <1>3, <1>4 DEF PlaceInv, Stays
<1>6. \A u \in Sockets : users'[u].in => router' # 0 /\ (u \in conn' \/ u \in ghosts')
  BY <1>0, <1>2, <1>3, <1>4 DEF RoomsDisposed
<1>7. router' # 0 => \E u \in Sockets : users'[u].in
  BY <1>2, <1>3, <1>s
<1>8. openR' \subseteq {router'} \cup lost' /\ (router' # 0 => router' \in openR')
  BY <1>0, <1>3 DEF RoomsDisposed
<1> QED
  BY <1>5, <1>6, <1>7, <1>8 DEF RoomsDisposed

LEMMA JoinChatPlaces ==
    ASSUME PlacesOK, NEW c \in Calls, JoinChat(c)
    PROVE  PlaceInv' /\ RoomsDisposed'
<1>0. LiveTypeOK /\ PlaceInv /\ RoomsDisposed
  BY DEF PlacesOK
<1>1. Stays(c) /\ call'[c].pc = "idle"
  BY <1>0, RestsAfterwards DEF JoinChat
<1>2. /\ call[c].pc = "join" /\ members' = members \cup ({call[c].socket} \cap conn)
      /\ chatting' = chatting \cup {call[c].socket}
      /\ UNCHANGED <<conn, ghosts, router, openR, lost, users>>
  BY DEF JoinChat, Joined
<1>3. PlaceInv'
  BY <1>0, <1>1, <1>2 DEF PlaceInv, Stays
<1>4. router' # 0 => \/ \E s \in Sockets : users'[s].in
                     \/ \E d \in Calls : call'[d].pc = "enter"
  BY <1>0, <1>1, <1>2 DEF RoomsDisposed, Stays
<1>5. \A s \in Sockets : users'[s].in => router' # 0 /\ (s \in conn' \/ s \in ghosts')
  BY <1>0, <1>2 DEF RoomsDisposed
<1>6. openR' \subseteq {router'} \cup lost' /\ (router' # 0 => router' \in openR')
  BY <1>0, <1>2 DEF RoomsDisposed
<1> QED
  BY <1>3, <1>4, <1>5, <1>6 DEF RoomsDisposed

\* The last user to leave takes the router along.
LEMMA DisconnectPlaces ==
    ASSUME PlacesOK, NEW s \in Sockets, Disconnect(s)
    PROVE  PlaceInv' /\ RoomsDisposed'
<1>0. LiveTypeOK /\ PlaceInv /\ RoomsDisposed
  BY DEF PlacesOK
<1>1. PICK leaves \in BOOLEAN : leaves <=> (s \in members /\ router # 0)
  OBVIOUS
<1>2. PICK rest : rest = IF leaves THEN [users EXCEPT ![s] = Absent] ELSE users
  OBVIOUS
<1>3. /\ s \in conn /\ conn' = conn \ {s} /\ members' = members \ {s}
      /\ router' = IF leaves /\ Emptied(rest) THEN 0 ELSE router
      /\ openR' = IF leaves /\ Emptied(rest) THEN openR \ {router} ELSE openR
      /\ ghosts' = IF \E c \in Calls : call[c].pc # "idle" /\ call[c].socket = s
                   THEN ghosts \cup {s} ELSE ghosts
      /\ UNCHANGED <<call, chatting, lost>>
  BY <1>1, <1>2 DEF Disconnect
<1>4. /\ leaves => ~users'[s].in
      /\ \A u \in Sockets : u # s \/ ~leaves => users'[u].in = users[u].in
  BY <1>0, <1>1, DisconnectChanges
<1>5. \A u \in Sockets : rest[u].in <=> users'[u].in
  BY <1>0, <1>2, <1>4 DEF Absent, LiveTypeOK
<1>6. Emptied(rest) <=> \A u \in Sockets : ~users'[u].in
  BY <1>5 DEF Emptied
<1>7. ghosts \subseteq ghosts'
  BY <1>3
<1>8. \A u \in Sockets : users'[u].in => users[u].in
  BY <1>4
<1>9. \A u \in Sockets : users'[u].in => u # s \/ s \in ghosts'
  <2>1. ASSUME users'[s].in PROVE s \in ghosts'
    <3>1. ~leaves /\ users[s].in
      BY <1>4, <2>1
    <3>2. router # 0 /\ s \in members
      BY <1>0, <1>3, <3>1 DEF PlaceInv, RoomsDisposed
    <3> QED
      BY <1>1, <3>1, <3>2
  <2> QED
    BY <2>1
<1>10. PlaceInv'
  BY <1>0, <1>3, <1>7, <1>8 DEF PlaceInv
<1>11. \A u \in Sockets : users'[u].in => router' # 0 /\ (u \in conn' \/ u \in ghosts')
  BY <1>0, <1>3, <1>6, <1>7, <1>8, <1>9 DEF RoomsDisposed
<1>12. router' # 0 => \/ \E u \in Sockets : users'[u].in
                      \/ \E d \in Calls : call'[d].pc = "enter"
  <2>1. CASE leaves
    BY <1>3, <1>6, <2>1
  <2>2. CASE ~leaves
    BY <1>0, <1>3, <1>4, <2>2 DEF RoomsDisposed
  <2> QED
    BY <2>1, <2>2
<1>13. openR' \subseteq {router'} \cup lost' /\ (router' # 0 => router' \in openR')
  BY <1>0, <1>3 DEF RoomsDisposed
<1> QED
  BY <1>10, <1>11, <1>12, <1>13 DEF RoomsDisposed

LEMMA PlacesInit == LiveInit => PlaceInv /\ RoomsDisposed
<1> SUFFICES ASSUME LiveInit PROVE PlaceInv /\ RoomsDisposed
  OBVIOUS
<1>0. /\ conn = Sockets /\ lost = {} /\ chatting = {} /\ \A c \in Calls : call[c].pc = "idle"
  BY DEF LiveInit, Rest
<1>1. CASE members = {} /\ router = 0 /\ openR = {} /\ users = [s \in Sockets |-> Absent]
  <2>1. \A s \in Sockets : ~users[s].in
    BY <1>1 DEF Absent
  <2> QED
    BY <1>0, <1>1, <2>1 DEF PlaceInv, RoomsDisposed
<1>2. ASSUME router = 1, openR = {1}, NEW h \in Hosts, members = {h},
             users = [s \in Sockets |-> IF s = h
                         THEN [Absent EXCEPT !.in = TRUE, !.speaks = TRUE, !.send = 1] ELSE Absent]
      PROVE  PlaceInv /\ RoomsDisposed
  <2>1. \A s \in Sockets : users[s].in <=> s = h
    BY <1>2 DEF Absent
  <2> QED
    BY <1>0, <1>2, <2>1 DEF PlaceInv, RoomsDisposed
<1> QED
  BY <1>1, <1>2 DEF LiveInit

LEMMA PlacesStep ==
    ASSUME PlacesOK, [LiveNext]_liveVars
    PROVE  PlacesOK'
<1>0. LiveTypeOK /\ MessagesSent /\ PlaceInv /\ RoomsDisposed
  BY DEF PlacesOK
<1>1. LiveTypeOK' /\ MessagesSent'
  BY <1>0, LiveTypeStep, MessagesSentStep
<1>2. CASE Deactivate \/ UNCHANGED liveVars
  BY <1>0, <1>1, <1>2 DEF Deactivate, PlaceInv, RoomsDisposed, PlacesOK
<1>3. ASSUME NEW c \in Calls, NEW s \in Sockets,
             \/ GetCapabilities(c, s) \/ Produce(c, s) \/ Join(c, s) \/ SendChat(c, s)
             \/ \E dir \in {"send", "recv"} : CreateTransport(c, s, dir)
             \/ \E p \in heard[s] \ gone[s] : Consume(c, s, p)
      PROVE  PlacesOK'
  BY <1>0, <1>1, <1>3, RequestsArrive, ArrivesPlaces DEF PlacesOK
<1>4. ASSUME NEW c \in Calls,
             \/ FindRoom(c) \/ CreateRouter(c) \/ EnterRoom(c)
             \/ SetTransport(c) \/ AddProducer(c) \/ AddConsumer(c) \/ Rejected(c)
             \/ ReadHistory(c) \/ JoinChat(c) \/ StoreMessage(c) \/ EmitMessage(c)
      PROVE  PlacesOK'
  BY <1>1, <1>4, JoiningPlaces, EnterRoomPlaces, StayPlaces, JoinChatPlaces DEF PlacesOK
<1>5. ASSUME NEW s \in Sockets, Disconnect(s) PROVE PlacesOK'
  BY <1>1, <1>5, DisconnectPlaces DEF PlacesOK
<1> QED
  BY <1>2, <1>3, <1>4, <1>5 DEF LiveNext

\* However arrivals and departures cross, a room has an open router and
\* somebody in it or about to enter, and every other open router was made when
\* there was one already.
THEOREM RoomsAreDisposed == LiveSpec => []RoomsDisposed
<1>1. LiveInit => PlacesOK
  BY LiveInitType, PlacesInit DEF PlacesOK, LiveInit, MessagesSent, Rest
<1>2. PlacesOK /\ [LiveNext]_liveVars => PlacesOK'
  BY PlacesStep
<1>3. PlacesOK => RoomsDisposed
  BY DEF PlacesOK
<1> QED
  BY <1>1, <1>2, <1>3, PTL DEF LiveSpec

-----------------------------------------------------------------------------
(***************************************************************************)
(* Whose the streams are                                                   *)
(***************************************************************************)
\* A producer is listed by one user while it is open, and what a socket was
\* told closed has closed.
ListedInv ==
    /\ Listed \subseteq openP
    /\ \A s, u \in Sockets : s # u => users[s].producers \cap users[u].producers = {}
    /\ \A s \in Sockets : gone[s] \subseteq DOMAIN producers \ openP
    /\ \A s \in conn : users[s].in => Listed \subseteq heard[s]

\* A consumer is on the list of its owner alone.  As long as its transport is
\* open and its owner connected, it is open with its producer, and has told of
\* the producer's end when that closed.
WatchInv ==
    /\ \A s \in Sockets : \A k \in users[s].consumers :
          k \in DOMAIN consumers /\ consumers[k].socket = s
    /\ \A k \in DOMAIN consumers : /\ consumers[k].producer \in DOMAIN producers
                                   /\ consumers[k].transport \in DOMAIN transports
    /\ \A k \in DOMAIN consumers :
          consumers[k].socket \in conn /\ consumers[k].transport \in openT
             => /\ consumers[k].producer \in openP => k \in openC
                /\ consumers[k].producer \notin openP => consumers[k].producer \in gone[consumers[k].socket]

StreamsOK == PlacesOK /\ ListedInv /\ WatchInv

LEMMA StreamsAreKnown == StreamsOK => StreamsKnown
<1> SUFFICES ASSUME StreamsOK PROVE StreamsKnown
  OBVIOUS
<1>1. ListedInv /\ WatchInv /\ conn \subseteq Sockets
  BY DEF StreamsOK, PlacesOK, LiveTypeOK
<1>2. \A s \in conn : users[s].in => Listed \subseteq heard[s] \ gone[s]
  BY <1>1 DEF ListedInv
<1> QED
  BY <1>1, <1>2 DEF StreamsKnown, ListedInv, WatchInv

\* Steps that leave the streams alone.
LEMMA StreamsStay ==
    ASSUME StreamsOK, conn' = conn, UNCHANGED <<users, mediaVars, heard, gone>>
    PROVE  ListedInv' /\ WatchInv'
<1>0. ListedInv /\ WatchInv
  BY DEF StreamsOK
<1>1. Listed' = Listed
  BY DEF Listed
<1>2. ListedInv'
  BY <1>0, <1>1 DEF ListedInv
<1>3. WatchInv'
  BY <1>0 DEF WatchInv
<1> QED
  BY <1>2, <1>3

\* Whatever closes, with the transports T: the producers P and consumers C
\* closed first are those of a socket that is leaving.
LEMMA ClosingStreams ==
    ASSUME StreamsOK, NEW T \in SUBSET openT, NEW P \in SUBSET openP, NEW C \in SUBSET openC,
           CloseMedia(T, P, C), conn' \subseteq conn,
           \A t \in openT' : t \in DOMAIN transports => t \in openT \ T,
           DOMAIN transports \subseteq DOMAIN transports',
           UNCHANGED <<producers, consumers, heard>>,
           \A u \in Sockets : /\ u \in conn' /\ users'[u].in => users[u].in
                              /\ users'[u].producers \subseteq users[u].producers \ (P \cup OnTransports(T))
                              /\ users'[u].consumers \subseteq users[u].consumers,
           \A k \in C : consumers[k].socket \notin conn'
    PROVE  ListedInv' /\ WatchInv'
<1>0. LiveTypeOK /\ ListedInv /\ WatchInv
  BY DEF StreamsOK, PlacesOK
<1>c. conn \subseteq Sockets /\ openP \subseteq DOMAIN producers /\ openC \subseteq DOMAIN consumers
  BY <1>0 DEF LiveTypeOK
<1>k. ASSUME NEW k \in DOMAIN consumers PROVE consumers[k].socket \in Sockets
  <2>1. consumers \in Seq([socket : Sockets, producer : Nat, transport : Nat])
    BY <1>0 DEF LiveTypeOK
  <2>2. consumers[k] \in [socket : Sockets, producer : Nat, transport : Nat]
    BY <1>k, <2>1, ElementOf
  <2> QED
    BY <2>2
<1> DEFINE closing == P \cup OnTransports(T)
<1>1. /\ openP' = openP \ closing
      /\ \A s \in Sockets : gone[s] \subseteq gone'[s] /\ gone'[s] \subseteq gone[s] \cup closing
  BY <1>0, CloseMediaType
<1>2. closing \subseteq openP
  BY DEF OnTransports
<1>3. \A s \in Sockets : gone'[s] = gone[s] \cup Announced(T, P, C, s)
  BY DEF CloseMedia
<1>4. openC' = openC \ (C \cup { k \in openC : \/ consumers[k].transport \in T
                                               \/ consumers[k].producer \in closing })
  BY DEF CloseMedia
<1>5. Listed' \subseteq Listed /\ Listed' \subseteq openP'
  BY <1>0, <1>1 DEF Listed, ListedInv
<1>6. ListedInv'
  <2>1. \A s, u \in Sockets : s # u => users'[s].producers \cap users'[u].producers = {}
    BY <1>0 DEF ListedInv
  <2>2. \A s \in Sockets : gone'[s] \subseteq DOMAIN producers \ openP'
    BY <1>0, <1>1, <1>2, <1>c DEF ListedInv
  <2>3. \A s \in conn' : users'[s].in => Listed' \subseteq heard'[s]
    BY <1>0, <1>5, <1>c DEF ListedInv
  <2> QED
    BY <1>5, <2>1, <2>2, <2>3 DEF ListedInv
<1>7. ASSUME NEW k \in DOMAIN consumers, consumers[k].socket \in conn', consumers[k].transport \in openT'
      PROVE  /\ consumers[k].producer \in openP' => k \in openC'
             /\ consumers[k].producer \notin openP' => consumers[k].producer \in gone'[consumers[k].socket]
  <2>1. /\ consumers[k].socket \in conn /\ consumers[k].transport \in openT
        /\ consumers[k].transport \notin T /\ k \notin C
    BY <1>0, <1>7 DEF WatchInv
  <2>2. /\ consumers[k].producer \in openP => k \in openC
        /\ consumers[k].producer \notin openP => consumers[k].producer \in gone[consumers[k].socket]
    BY <1>0, <2>1 DEF WatchInv
  <2>3. ASSUME consumers[k].producer \in openP' PROVE k \in openC'
    BY <1>1, <1>4, <2>1, <2>2, <2>3
  <2>4. ASSUME consumers[k].producer \notin openP'
        PROVE  consumers[k].producer \in gone'[consumers[k].socket]
    <3>1. CASE consumers[k].producer \notin openP
      BY <1>1, <1>k, <2>2, <3>1
    <3>2. CASE consumers[k].producer \in openP
      <4>1. k \in openC \ C /\ consumers[k].producer \in closing
        BY <1>1, <2>1, <2>2, <2>4, <3>2
      <4>2. consumers[k].producer \in Announced(T, P, C, consumers[k].socket)
        BY <2>1, <4>1 DEF Announced
      <4> QED
        BY <1>3, <1>k, <4>2
    <3> QED
      BY <3>1, <3>2
  <2> QED
    BY <2>3, <2>4
<1>8. WatchInv'
  <2>1. \A s \in Sockets : \A k \in users'[s].consumers : k \in DOMAIN consumers' /\ consumers'[k].socket = s
    BY <1>0 DEF WatchInv
  <2>2. \A k \in DOMAIN consumers' : /\ consumers'[k].producer \in DOMAIN producers'
                                     /\ consumers'[k].transport \in DOMAIN transports'
    BY <1>0 DEF WatchInv
  <2> QED
    BY <1>7, <2>1, <2>2 DEF WatchInv
<1> QED
  BY <1>6, <1>8

LEMMA SetTransportStreams ==
    ASSUME StreamsOK, NEW c \in Calls, SetTransport(c)
    PROVE  ListedInv' /\ WatchInv'
<1>0. LiveTypeOK
  BY DEF StreamsOK, PlacesOK
<1>1. PICK T \in SUBSET openT :
         /\ CloseMedia(T, {}, {})
         /\ openT' = (openT \ T) \cup {Len(transports) + 1}
         /\ transports' = Append(transports, call[c].on)
         /\ users' \in [Sockets -> User]
         /\ \A s \in Sockets : /\ users'[s].in = users[s].in
                               /\ users'[s].producers = users[s].producers \ OnTransports(T)
                               /\ users'[s].consumers = users[s].consumers
  BY <1>0, SetTransportChanges
<1>p. PICK P \in SUBSET openP : P = {}
  OBVIOUS
<1>q. PICK C \in SUBSET openC : C = {}
  OBVIOUS
<1>2. \A t \in openT' : t \in DOMAIN transports => t \in openT \ T
  <2>1. Len(transports) + 1 \notin DOMAIN transports
    BY <1>0 DEF LiveTypeOK
  <2> QED
    BY <1>1, <2>1
<1>3. DOMAIN transports \subseteq DOMAIN transports'
  <2>1. call[c].on \in Nat /\ transports \in Seq(Nat)
    BY <1>0 DEF LiveTypeOK, Call
  <2> QED
    BY <1>1, <2>1, AppendedTo
<1>4. conn' = conn /\ UNCHANGED <<producers, consumers, heard>>
  BY DEF SetTransport
<1>5. \A u \in Sockets : /\ u \in conn' /\ users'[u].in => users[u].in
                         /\ users'[u].producers \subseteq users[u].producers \ (P \cup OnTransports(T))
                         /\ users'[u].consumers \subseteq users[u].consumers
  BY <1>1, <1>p
<1>6. CloseMedia(T, P, C) /\ \A k \in C : consumers[k].socket \notin conn'
  BY <1>1, <1>p, <1>q
<1>7. conn' \subseteq conn
  BY <1>4
<1> QED
  BY <1>2, <1>3, <1>4, <1>5, <1>6, <1>7, ClosingStreams

LEMMA DisconnectStreams ==
    ASSUME StreamsOK, NEW s \in Sockets, Disconnect(s)
    PROVE  ListedInv' /\ WatchInv'
<1>0. LiveTypeOK /\ ListedInv /\ WatchInv
  BY DEF StreamsOK, PlacesOK
<1> DEFINE leaves == s \in members /\ router # 0
<1>2. PICK T \in SUBSET openT, P \in SUBSET openP, C \in SUBSET openC :
         /\ CloseMedia(T, P, C)
         /\ openT' = openT \ T
         /\ users' \in [Sockets -> User]
         /\ P \subseteq users[s].producers /\ C \subseteq users[s].consumers
         /\ leaves => users[s].producers \cap openP \subseteq P
         /\ leaves => ~users'[s].in /\ users'[s].producers = {} /\ users'[s].consumers = {}
         /\ ~leaves => P = {} /\ C = {}
         /\ \A u \in Sockets : u # s \/ ~leaves =>
               /\ users'[u].in = users[u].in
               /\ users'[u].producers = users[u].producers \ OnTransports(T)
               /\ users'[u].consumers = users[u].consumers
  BY <1>0, DisconnectChanges, Zenon
<1>3. conn' = conn \ {s} /\ UNCHANGED <<producers, consumers, heard, transports>>
  BY DEF Disconnect
<1>4. \A u \in Sockets : /\ u \in conn' /\ users'[u].in => users[u].in
                         /\ users'[u].producers \subseteq users[u].producers \ (P \cup OnTransports(T))
                         /\ users'[u].consumers \subseteq users[u].consumers
  <2>1. ASSUME NEW u \in Sockets
        PROVE  users'[u].producers \subseteq users[u].producers \ (P \cup OnTransports(T))
    <3>1. CASE u = s /\ leaves
      BY <1>2, <3>1
    <3>2. CASE u # s
      <4>1. users[u].producers \cap users[s].producers = {}
        BY <1>0, <3>2 DEF ListedInv
      <4> QED
        BY <1>2, <3>2, <4>1
    <3>3. CASE ~leaves
      BY <1>2, <3>3
    <3> QED
      BY <3>1, <3>2, <3>3
  <2>2. \A u \in Sockets : u # s \/ ~leaves \/ (u = s /\ leaves)
    OBVIOUS
  <2> QED
    BY <1>2, <2>1, <2>2
<1>5. \A k \in C : consumers[k].socket \notin conn'
  BY <1>0, <1>2, <1>3 DEF WatchInv
<1> QED
  BY <1>2, <1>3, <1>4, <1>5, ClosingStreams

LEMMA EnterRoomStreams ==
    ASSUME StreamsOK, NEW c \in Calls, EnterRoom(c)
    PROVE  ListedInv' /\ WatchInv'
<1>0. LiveTypeOK /\ ListedInv /\ WatchInv
  BY DEF StreamsOK, PlacesOK
<1>s. call[c].socket \in Sockets /\ conn \subseteq Sockets
  BY <1>0 DEF LiveTypeOK, Call
<1>1. /\ \A u \in Sockets : u # call[c].socket \/ router = 0 => users'[u] = users[u]
      /\ router # 0 => users'[call[c].socket].producers = {} /\ users'[call[c].socket].consumers = {}
      /\ \A u \in Sockets : heard[u] \subseteq heard'[u]
      /\ Listed' \subseteq heard'[call[c].socket]
  BY <1>0, EnterRoomChanges
<1>2. UNCHANGED <<conn, mediaVars, gone>>
  BY DEF EnterRoom
<1>3. \A u \in Sockets : /\ users'[u].producers \subseteq users[u].producers
                         /\ users'[u].consumers \subseteq users[u].consumers
  BY <1>1
<1>4. Listed' \subseteq Listed
  BY <1>3 DEF Listed
<1>5. \A s \in conn' : users'[s].in => Listed' \subseteq heard'[s]
  BY <1>0, <1>1, <1>2, <1>4, <1>s DEF ListedInv
<1>6. ListedInv'
  BY <1>0, <1>2, <1>3, <1>4, <1>5 DEF ListedInv
<1>7. WatchInv'
  BY <1>0, <1>2, <1>3 DEF WatchInv
<1> QED
  BY <1>6, <1>7

LEMMA AddProducerStreams ==
    ASSUME StreamsOK, NEW c \in Calls, AddProducer(c)
    PROVE  ListedInv' /\ WatchInv'
<1>0. LiveTypeOK /\ PlaceInv /\ ListedInv /\ WatchInv
  BY DEF StreamsOK, PlacesOK
<1>1. PICK p : p = Len(producers) + 1
  OBVIOUS
<1>2. /\ DOMAIN producers' = DOMAIN producers \cup {p} /\ p \notin DOMAIN producers
      /\ openP' = openP \cup {p}
      /\ \A u \in Sockets :
            /\ users'[u].in = users[u].in /\ users'[u].consumers = users[u].consumers
            /\ users'[u].producers \subseteq
                  users[u].producers \cup (IF u = call[c].socket THEN {p} ELSE {})
      /\ \A u \in Sockets : heard[u] \subseteq heard'[u]
      /\ \A u \in members : p \in heard'[u]
  BY <1>0, <1>1, AddProducerChanges
<1>3. UNCHANGED <<conn, members, transports, openT, consumers, openC, gone>>
  BY DEF AddProducer
<1>c. conn \subseteq Sockets /\ openP \subseteq DOMAIN producers
  BY <1>0 DEF LiveTypeOK
<1>4. Listed' \subseteq Listed \cup {p} /\ Listed \subseteq DOMAIN producers
  BY <1>0, <1>2, <1>c DEF Listed, ListedInv
<1>5. \A u \in Sockets : p \notin users[u].producers
  BY <1>2, <1>4 DEF Listed
<1>6. \A s, u \in Sockets : s # u => users'[s].producers \cap users'[u].producers = {}
  BY <1>0, <1>2, <1>5 DEF ListedInv
<1>7. \A s \in conn' : users'[s].in => Listed' \subseteq heard'[s]
  <2>1. ASSUME NEW s \in conn, users'[s].in PROVE Listed' \subseteq heard'[s]
    <3>1. users[s].in /\ s \in Sockets
      BY <1>2, <1>c, <2>1
    <3>2. s \in members /\ Listed \subseteq heard[s]
      BY <1>0, <3>1 DEF PlaceInv, ListedInv
    <3> QED
      BY <1>2, <1>4, <3>1, <3>2
  <2> QED
    BY <1>3, <2>1
<1>8. \A s \in Sockets : gone'[s] \subseteq DOMAIN producers' \ openP'
  BY <1>0, <1>2, <1>3 DEF ListedInv
<1>9. ListedInv'
  <2>1. Listed' \subseteq openP'
    BY <1>0, <1>2, <1>4 DEF ListedInv
  <2> QED
    BY <1>6, <1>7, <1>8, <2>1 DEF ListedInv
<1>10. WatchInv'
  BY <1>0, <1>2, <1>3 DEF WatchInv
<1> QED
  BY <1>9, <1>10

LEMMA AddConsumerStreams ==
    ASSUME StreamsOK, NEW c \in Calls, AddConsumer(c)
    PROVE  ListedInv' /\ WatchInv'
<1>0. LiveTypeOK /\ ListedInv /\ WatchInv
  BY DEF StreamsOK, PlacesOK
<1>1. PICK k : k = Len(consumers) + 1
  OBVIOUS
<1>2. PICK row : row = [socket |-> call[c].socket, producer |-> call[c].producer, transport |-> call[c].on]
  OBVIOUS
<1>3. /\ call[c].on \in openT /\ call[c].producer \in openP
      /\ DOMAIN consumers' = DOMAIN consumers \cup {k} /\ k \notin DOMAIN consumers
      /\ consumers'[k] = row
      /\ \A j \in DOMAIN consumers : consumers'[j] = consumers[j]
      /\ openC' = openC \cup {k}
      /\ \A u \in Sockets :
            /\ users'[u].in = users[u].in /\ users'[u].producers = users[u].producers
            /\ users'[u].consumers \subseteq
                  users[u].consumers \cup (IF u = call[c].socket THEN {k} ELSE {})
  BY <1>0, <1>1, <1>2, AddConsumerChanges
<1>4. UNCHANGED <<conn, transports, openT, producers, openP, heard, gone>>
  BY DEF AddConsumer
<1>5. row.socket = call[c].socket /\ row.producer = call[c].producer /\ row.transport = call[c].on
  BY <1>2
<1>6. openP \subseteq DOMAIN producers /\ openT \subseteq DOMAIN transports
  BY <1>0 DEF LiveTypeOK
<1>7. Listed' = Listed
  BY <1>3 DEF Listed
<1>8. ListedInv'
  <2>1. \A s \in conn' : users'[s].in => Listed' \subseteq heard'[s]
    <3>1. conn \subseteq Sockets
      BY <1>0 DEF LiveTypeOK
    <3> QED
      BY <1>0, <1>3, <1>4, <1>7, <3>1 DEF ListedInv
  <2>2. \A s, u \in Sockets : s # u => users'[s].producers \cap users'[u].producers = {}
    BY <1>0, <1>3 DEF ListedInv
  <2> QED
    BY <1>0, <1>4, <1>7, <2>1, <2>2 DEF ListedInv
<1>9. WatchInv'
  <2>1. \A s \in Sockets : \A j \in users'[s].consumers : j \in DOMAIN consumers' /\ consumers'[j].socket = s
    BY <1>0, <1>3, <1>5 DEF WatchInv
  <2>2. \A j \in DOMAIN consumers' : /\ consumers'[j].producer \in DOMAIN producers'
                                     /\ consumers'[j].transport \in DOMAIN transports'
    BY <1>0, <1>3, <1>4, <1>5, <1>6 DEF WatchInv
  <2>3. ASSUME NEW j \in DOMAIN consumers',
               consumers'[j].socket \in conn', consumers'[j].transport \in openT'
        PROVE  /\ consumers'[j].producer \in openP' => j \in openC'
               /\ consumers'[j].producer \notin openP' => consumers'[j].producer \in gone'[consumers'[j].socket]
    <3>1. CASE j = k
      BY <1>3, <1>4, <1>5, <3>1
    <3>2. CASE j \in DOMAIN consumers
      <4>1. consumers'[j] = consumers[j]
        BY <1>3, <3>2
      <4> QED
        BY <1>0, <1>3, <1>4, <2>3, <3>2, <4>1 DEF WatchInv
    <3> QED
      BY <1>3, <3>1, <3>2
  <2> QED
    BY <2>1, <2>2, <2>3 DEF WatchInv
<1> QED
  BY <1>8, <1>9

LEMMA StreamsStep ==
    ASSUME StreamsOK, [LiveNext]_liveVars
    PROVE  StreamsOK'
<1>1. PlacesOK' /\ LiveTypeOK
  BY PlacesStep DEF StreamsOK, PlacesOK
<1>2. ASSUME NEW c \in Calls,
             \/ Arrives(c) \/ (\E s \in Sockets : SendChat(c, s)) \/ FindRoom(c) \/ CreateRouter(c)
             \/ Rejected(c) \/ ReadHistory(c) \/ JoinChat(c) \/ StoreMessage(c) \/ EmitMessage(c)
      PROVE  conn' = conn /\ UNCHANGED <<users, mediaVars, heard, gone>>
  BY <1>2 DEF Arrives, Begin, SendChat, FindRoom, CreateRouter, Rejected, ReadHistory, JoinChat,
     StoreMessage, EmitMessage
<1>3. CASE Deactivate \/ UNCHANGED liveVars
  BY <1>1, <1>3, StreamsStay DEF Deactivate, StreamsOK
<1>4. ASSUME NEW c \in Calls, NEW s \in Sockets,
             \/ GetCapabilities(c, s) \/ Produce(c, s) \/ Join(c, s) \/ SendChat(c, s)
             \/ \E dir \in {"send", "recv"} : CreateTransport(c, s, dir)
             \/ \E p \in heard[s] \ gone[s] : Consume(c, s, p)
      PROVE  StreamsOK'
  BY <1>1, <1>2, <1>4, RequestsArrive, StreamsStay DEF StreamsOK
<1>5. ASSUME NEW c \in Calls,
             \/ FindRoom(c) \/ CreateRouter(c) \/ Rejected(c)
             \/ ReadHistory(c) \/ JoinChat(c) \/ StoreMessage(c) \/ EmitMessage(c)
      PROVE  StreamsOK'
  BY <1>1, <1>2, <1>5, StreamsStay DEF StreamsOK
<1>6. ASSUME NEW c \in Calls,
             EnterRoom(c) \/ SetTransport(c) \/ AddProducer(c) \/ AddConsumer(c)
      PROVE  StreamsOK'
  BY <1>1, <1>6, EnterRoomStreams, SetTransportStreams, AddProducerStreams, AddConsumerStreams
     DEF StreamsOK
<1>7. ASSUME NEW s \in Sockets, Disconnect(s) PROVE StreamsOK'
  BY <1>1, <1>7, DisconnectStreams DEF StreamsOK
<1> QED
  BY <1>3, <1>4, <1>5, <1>6, <1>7 DEF LiveNext

\* However arrivals, departures and replaced transports cross, a user of the
\* room knows each producer it lists, each of these is open, and whoever
\* watched one that closed has been told.
THEOREM StreamsStayKnown == LiveSpec => []StreamsKnown
<1>1. LiveInit => StreamsOK
  <2> SUFFICES ASSUME LiveInit PROVE StreamsOK
    OBVIOUS
  <2>1. PlacesOK
    BY LiveInitType, PlacesInit DEF PlacesOK, LiveInit, MessagesSent, Rest
  <2>2. \A s \in Sockets : users[s].producers = {} /\ users[s].consumers = {} /\ gone[s] = {}
    <3>1. CASE users = [s \in Sockets |-> Absent]
      BY <3>1 DEF LiveInit, Absent
    <3>2. ASSUME NEW h \in Hosts,
                 users = [s \in Sockets |-> IF s = h
                             THEN [Absent EXCEPT !.in = TRUE, !.speaks = TRUE, !.send = 1] ELSE Absent]
          PROVE  \A s \in Sockets : users[s].producers = {} /\ users[s].consumers = {} /\ gone[s] = {}
      BY <3>2 DEF LiveInit, Absent
    <3> QED
      BY <3>1, <3>2 DEF LiveInit
  <2>3. Listed = {} /\ openP = {} /\ consumers = <<>>
    BY <2>2 DEF Listed, LiveInit
  <2>4. ListedInv
    BY <2>2, <2>3 DEF ListedInv
  <2>5. WatchInv
    BY <2>2, <2>3 DEF WatchInv
  <2> QED
    BY <2>1, <2>4, <2>5 DEF StreamsOK
<1>2. StreamsOK /\ [LiveNext]_liveVars => StreamsOK'
  BY StreamsStep
<1> QED
  BY <1>1, <1>2, StreamsAreKnown, PTL DEF LiveSpec

-----------------------------------------------------------------------------
(***************************************************************************)
(* Who has seen what of the chat                                           *)
(***************************************************************************)
\* Among more messages fewer of the old ones are the oldest.
LEMMA OldestShrinks ==
    ASSUME NEW B, IsFiniteSet(B), NEW A \in SUBSET B
    PROVE  A \cap Oldest(B) \subseteq Oldest(A)
<1> SUFFICES ASSUME NEW m \in A, m \in Oldest(B) PROVE m \in Oldest(A)
  OBVIOUS
<1>1. PICK L : L = { n \in B : n < m }
  OBVIOUS
<1>2. PICK K : K = { n \in A : n < m }
  OBVIOUS
<1>3. K \subseteq L /\ L \subseteq B
  BY <1>1, <1>2
<1>4. IsFiniteSet(L)
  BY <1>3, FS_Subset
<1>5. Cardinality(K) <= Cardinality(L) /\ IsFiniteSet(K)
  BY <1>3, <1>4, FS_Subset
<1>6. Cardinality(K) \in Nat /\ Cardinality(L) \in Nat
  BY <1>4, <1>5, FS_CardinalityType
<1>7. Cardinality(L) < ChatLimit
  BY <1>1 DEF Oldest
<1>8. Cardinality(K) < ChatLimit
  BY <1>5, <1>6, <1>7
<1> QED
  BY <1>2, <1>8 DEF Oldest

\* What has been told was stored before; a client that is joining has read the
\* oldest messages, or was joining when the others were told; and one that has
\* joined has got those and all that was told since.
ChatInv ==
    /\ told \subseteq stored
    /\ \A c \in Calls : call[c].pc = "emit" => call[c].messages \subseteq stored
    /\ \A c \in Calls : call[c].pc = "join" =>
          told \cap Oldest(stored) \subseteq call[c].messages \cup window[call[c].socket]
    /\ \A s \in members \cap chatting : told \cap Oldest(stored) \subseteq seen[s] \cup window[s]
    /\ \A s \in members \cap chatting : told \ past[s] \subseteq seen[s]

ChatOK == PlacesOK /\ ChatInv

LEMMA ChatFacts ==
    ASSUME ChatOK
    PROVE  /\ LiveTypeOK /\ ChatInv /\ MessagesSent
           /\ stored \cup told = stored
           /\ chatting \cap conn \subseteq members
           /\ members \subseteq Sockets
<1>1. LiveTypeOK /\ ChatInv /\ MessagesSent /\ PlaceInv
  BY DEF ChatOK, PlacesOK
<1>2. stored \cup told = stored
  BY <1>1 DEF ChatInv
<1> QED
  BY <1>1, <1>2 DEF PlaceInv, LiveTypeOK

\* A step that nothing is told or read in.
LEMMA NothingSaid ==
    ASSUME ChatOK, PlacesOK',
           UNCHANGED <<stored, told, chatting, seen, window, past>>,
           \A c \in Calls : call'[c] = call[c] \/ call'[c].pc \notin {"emit", "join"},
           conn' \subseteq conn
    PROVE  ChatInv'
<1>1. members' \subseteq conn'
  BY DEF PlacesOK, LiveTypeOK
<1>2. members' \cap chatting \subseteq members \cap chatting
  BY <1>1, ChatFacts
<1>3. Oldest(stored)' = Oldest(stored)
  OBVIOUS
<1> QED
  BY <1>2, <1>3, ChatFacts DEF ChatInv

LEMMA QuietChat ==
    ASSUME ChatOK, PlacesOK', NEW c \in Calls,
           \/ Arrives(c) \/ (\E s \in Sockets : SendChat(c, s)) \/ FindRoom(c) \/ CreateRouter(c)
           \/ EnterRoom(c) \/ SetTransport(c) \/ AddProducer(c) \/ AddConsumer(c) \/ Rejected(c)
    PROVE  ChatInv'
<1>0. LiveTypeOK
  BY ChatFacts
<1>1. conn' = conn /\ UNCHANGED <<stored, told, chatting, seen, window, past>>
  BY DEF Arrives, Begin, SendChat, FindRoom, CreateRouter, EnterRoom, SetTransport, AddProducer,
     AddConsumer, Rejected
<1>2. ASSUME NEW q \in Call, call' = [call EXCEPT ![c] = q], q.pc \notin {"emit", "join"}
      PROVE  \A d \in Calls : call'[d] = call[d] \/ call'[d].pc \notin {"emit", "join"}
  BY <1>0, <1>2 DEF LiveTypeOK
<1>3. ASSUME Finish(c)
      PROVE  \A d \in Calls : call'[d] = call[d] \/ call'[d].pc \notin {"emit", "join"}
  BY <1>0, <1>3, RestsAfterwards DEF Stays
<1>4. ASSUME NEW pc \in {"router", "enter"}, Goto(c, pc)
      PROVE  \A d \in Calls : call'[d] = call[d] \/ call'[d].pc \notin {"emit", "join"}
  <2>1. PICK q \in Call : call' = [call EXCEPT ![c] = q] /\ q.pc = pc
    BY <1>0, <1>4, GotoType
  <2> QED
    BY <1>2, <2>1
<1>5. CASE Arrives(c)
  <2>1. PICK s \in Sockets, r \in Call :
           r.pc \in {"find", "produce", "history", "transport", "consume"} /\ Begin(c, s, r)
    BY <1>5 DEF Arrives
  <2>2. PICK q \in Call : call' = [call EXCEPT ![c] = q] /\ q.pc = r.pc
    BY <1>0, <2>1, BeginChanges
  <2>3. \A d \in Calls : call'[d] = call[d] \/ call'[d].pc \notin {"emit", "join"}
    BY <1>2, <2>1, <2>2
  <2> QED
    BY <1>1, <2>3, NothingSaid
<1>6. ASSUME NEW s \in Sockets, SendChat(c, s) PROVE ChatInv'
  <2>1. PICK q \in Call : call' = [call EXCEPT ![c] = q] /\ q.pc = "store"
    BY <1>0, <1>6, SendChatChanges
  <2>2. \A d \in Calls : call'[d] = call[d] \/ call'[d].pc \notin {"emit", "join"}
    BY <1>2, <2>1
  <2> QED
    BY <1>1, <2>2, NothingSaid
<1>7. CASE FindRoom(c) \/ CreateRouter(c)
  <2>1. \A d \in Calls : call'[d] = call[d] \/ call'[d].pc \notin {"emit", "join"}
    BY <1>3, <1>4, <1>7 DEF FindRoom, CreateRouter
  <2> QED
    BY <1>1, <2>1, NothingSaid
<1>8. CASE EnterRoom(c) \/ SetTransport(c) \/ AddProducer(c) \/ AddConsumer(c) \/ Rejected(c)
  <2>1. \A d \in Calls : call'[d] = call[d] \/ call'[d].pc \notin {"emit", "join"}
    BY <1>3, <1>8 DEF EnterRoom, SetTransport, AddProducer, AddConsumer, Rejected
  <2> QED
    BY <1>1, <2>1, NothingSaid
<1> QED
  BY <1>5, <1>6, <1>7, <1>8

LEMMA ReadHistoryChat ==
    ASSUME ChatOK, PlacesOK', NEW c \in Calls, ReadHistory(c)
    PROVE  ChatInv'
<1>1. PICK q \in Call : /\ call' = [call EXCEPT ![c] = q]
                        /\ q.pc = "join" /\ q.messages = Oldest(stored)
  BY ReadHistoryChanges, ChatFacts
<1>2. UNCHANGED <<conn, members, stored, told, chatting, seen, window, past>>
  BY DEF ReadHistory
<1>3. \A d \in Calls : call'[d] = IF d = c THEN q ELSE call[d]
  BY <1>1, ChatFacts DEF LiveTypeOK
<1>4. \A d \in Calls : call'[d].pc = "emit" => call'[d].messages \subseteq stored
  BY <1>1, <1>3, ChatFacts DEF ChatInv
<1>5. \A d \in Calls : call'[d].pc = "join" =>
         told \cap Oldest(stored) \subseteq call'[d].messages \cup window[call'[d].socket]
  BY <1>1, <1>3, ChatFacts DEF ChatInv
<1>6. Oldest(stored)' = Oldest(stored)
  BY <1>2
<1> QED
  BY <1>2, <1>4, <1>5, <1>6, ChatFacts DEF ChatInv

LEMMA JoinChatSeen ==
    ASSUME ChatOK, PlacesOK', NEW c \in Calls, JoinChat(c)
    PROVE  ChatInv'
<1>0. LiveTypeOK /\ ChatInv
  BY ChatFacts
<1>s. call[c].socket \in Sockets
  BY <1>0 DEF LiveTypeOK, Call
<1>1. Stays(c) /\ call'[c].pc = "idle"
  BY <1>0, RestsAfterwards DEF JoinChat
<1>2. /\ call[c].pc = "join" /\ members' = members \cup ({call[c].socket} \cap conn)
      /\ chatting' = chatting \cup {call[c].socket}
      /\ seen' = [seen EXCEPT ![call[c].socket] = @ \cup call[c].messages]
      /\ past' = IF call[c].socket \in chatting THEN past ELSE [past EXCEPT ![call[c].socket] = told]
      /\ UNCHANGED <<conn, stored, told, window>>
  BY DEF JoinChat, Joined
<1>3. Oldest(stored)' = Oldest(stored)
  BY <1>2
<1>4. /\ \A d \in Calls : call'[d].pc = "emit" => call'[d].messages \subseteq stored
      /\ \A d \in Calls : call'[d].pc = "join" =>
            told \cap Oldest(stored) \subseteq call'[d].messages \cup window[call'[d].socket]
  BY <1>0, <1>1 DEF ChatInv, Stays
<1>5. \A s \in Sockets : seen[s] \subseteq seen'[s]
  BY <1>0, <1>2 DEF LiveTypeOK
<1>6. told \cap Oldest(stored) \subseteq seen'[call[c].socket] \cup window[call[c].socket]
  <2>1. call[c].messages \subseteq seen'[call[c].socket]
    BY <1>0, <1>2, <1>s DEF LiveTypeOK
  <2> QED
    BY <1>0, <1>2, <2>1 DEF ChatInv
<1>m. members' \cap chatting \subseteq members
  BY <1>2, ChatFacts
<1>7. \A s \in members' \cap chatting' : s = call[c].socket \/ s \in members \cap chatting
  BY <1>2
<1>8. \A s \in members' \cap chatting' : told \cap Oldest(stored) \subseteq seen'[s] \cup window[s]
  BY <1>0, <1>5, <1>6, <1>7, ChatFacts DEF ChatInv
<1>9. ASSUME NEW s \in members' \cap chatting'
      PROVE  told \ past'[s] \subseteq seen'[s]
  <2>1. s \in Sockets /\ call[c].socket \in Sockets /\ past \in [Sockets -> SUBSET Nat]
    BY <1>s, <1>7, ChatFacts DEF LiveTypeOK
  <2>2. CASE s \in chatting
    <3>1. s \in members /\ past'[s] = past[s]
      BY <1>2, <2>1, <2>2, <1>m
    <3> QED
      BY <1>0, <1>5, <2>1, <2>2, <3>1 DEF ChatInv
  <2>3. CASE s \notin chatting
    BY <1>2, <1>7, <2>1, <2>3
  <2> QED
    BY <2>2, <2>3
<1> QED
  BY <1>0, <1>2, <1>3, <1>4, <1>8, <1>9 DEF ChatInv

LEMMA StoreMessageChat ==
    ASSUME ChatOK, PlacesOK', NEW c \in Calls, StoreMessage(c)
    PROVE  ChatInv'
<1>0. LiveTypeOK /\ ChatInv
  BY ChatFacts
<1>1. Goto(c, "emit") /\ stored' = stored \cup call[c].messages
      /\ UNCHANGED <<conn, members, told, chatting, seen, window, past>>
  BY DEF StoreMessage
<1>2. PICK q \in Call : /\ call' = [call EXCEPT ![c] = q]
                        /\ q.pc = "emit" /\ q.messages = call[c].messages
  BY <1>0, <1>1, GotoType
<1>3. \A d \in Calls : call'[d] = IF d = c THEN q ELSE call[d]
  BY <1>0, <1>2 DEF LiveTypeOK
<1>4. IsFiniteSet(stored')
  <2>1. stored' \subseteq 1..sent'
    BY DEF PlacesOK, LiveTypeOK
  <2>2. sent' \in Int /\ 1 \in Int
    BY DEF PlacesOK, LiveTypeOK
  <2>3. IsFiniteSet(1..sent')
    BY <2>2, FS_Interval
  <2> QED
    BY <2>1, <2>3, FS_Subset
<1>5. told \cap Oldest(stored') \subseteq told \cap Oldest(stored)
  <2>1. stored \cap Oldest(stored') \subseteq Oldest(stored)
    BY <1>1, <1>4, OldestShrinks
  <2> QED
    BY <1>0, <2>1 DEF ChatInv
<1>6. told \subseteq stored'
  BY <1>0, <1>1 DEF ChatInv
<1>7. \A d \in Calls : call'[d].pc = "emit" => call'[d].messages \subseteq stored'
  BY <1>0, <1>1, <1>2, <1>3 DEF ChatInv
<1>8. \A d \in Calls : call'[d].pc = "join" =>
         told \cap Oldest(stored') \subseteq call'[d].messages \cup window[call'[d].socket]
  BY <1>0, <1>2, <1>3, <1>5 DEF ChatInv
<1>9. Oldest(stored)' = Oldest(stored')
  BY DEF Oldest
<1>10. \A s \in members \cap chatting : told \cap Oldest(stored') \subseteq seen[s] \cup window[s]
  BY <1>0, <1>5 DEF ChatInv
<1> QED
  BY <1>0, <1>1, <1>6, <1>7, <1>8, <1>9, <1>10 DEF ChatInv

LEMMA EmitMessageChat ==
    ASSUME ChatOK, PlacesOK', NEW c \in Calls, EmitMessage(c)
    PROVE  ChatInv'
<1>0. LiveTypeOK /\ ChatInv
  BY ChatFacts
<1>1. Stays(c) /\ call'[c].pc = "idle"
  BY <1>0, RestsAfterwards DEF EmitMessage
<1>2. PICK M : M = call[c].messages
  OBVIOUS
<1>3. PICK joining : joining = { call[d].socket : d \in { d \in Calls : call[d].pc = "join" } }
  OBVIOUS
<1>4. /\ call[c].pc = "emit" /\ told' = told \cup M
      /\ seen' = [s \in Sockets |-> seen[s] \cup (IF s \in members THEN M ELSE {})]
      /\ window' = [s \in Sockets |-> window[s] \cup (IF s \in joining THEN M ELSE {})]
      /\ UNCHANGED <<conn, members, stored, chatting, past>>
  BY <1>2, <1>3 DEF EmitMessage
<1>5. M \subseteq stored
  BY <1>0, <1>2, <1>4 DEF ChatInv
<1>6. told' \subseteq stored
  BY <1>0, <1>4, <1>5 DEF ChatInv
<1>7. Oldest(stored)' = Oldest(stored)
  BY <1>4
<1>8. \A d \in Calls : call'[d].pc = "join" =>
         told' \cap Oldest(stored) \subseteq call'[d].messages \cup window'[call'[d].socket]
  <2>1. ASSUME NEW d \in Calls, call'[d].pc = "join"
        PROVE  told' \cap Oldest(stored) \subseteq call'[d].messages \cup window'[call'[d].socket]
    <3>1. call'[d] = call[d] /\ call[d].pc = "join"
      BY <1>1, <2>1 DEF Stays
    <3>2. call[d].socket \in Sockets /\ call[d].socket \in joining
      BY <1>0, <1>3, <3>1 DEF LiveTypeOK, Call
    <3>3. window'[call[d].socket] = window[call[d].socket] \cup M
      BY <1>4, <3>2
    <3>4. told \cap Oldest(stored) \subseteq call[d].messages \cup window[call[d].socket]
      BY <1>0, <3>1 DEF ChatInv
    <3> QED
      BY <1>4, <3>1, <3>3, <3>4
  <2> QED
    BY <2>1
<1>9. \A d \in Calls : call'[d].pc = "emit" => call'[d].messages \subseteq stored
  BY <1>0, <1>1 DEF ChatInv, Stays
<1>10. ASSUME NEW s \in members \cap chatting
       PROVE  /\ told' \cap Oldest(stored) \subseteq seen'[s] \cup window'[s]
              /\ told' \ past[s] \subseteq seen'[s]
  <2>1. /\ s \in Sockets /\ told \cap Oldest(stored) \subseteq seen[s] \cup window[s]
        /\ told \ past[s] \subseteq seen[s]
    BY <1>0, ChatFacts DEF ChatInv
  <2>2. seen'[s] = seen[s] \cup M /\ window[s] \subseteq window'[s]
    BY <1>4, <2>1
  <2> QED
    BY <1>4, <2>1, <2>2
<1> QED
  BY <1>4, <1>6, <1>7, <1>8, <1>9, <1>10 DEF ChatInv

LEMMA ChatStep ==
    ASSUME ChatOK, [LiveNext]_liveVars
    PROVE  ChatOK'
<1>1. PlacesOK' /\ LiveTypeOK
  BY PlacesStep DEF ChatOK, PlacesOK
<1>2. CASE UNCHANGED liveVars
  BY <1>1, <1>2, NothingSaid DEF ChatOK
<1>3. CASE Deactivate
  BY <1>1, <1>3, NothingSaid DEF Deactivate, ChatOK
<1>4. ASSUME NEW c \in Calls, NEW s \in Sockets,
             \/ GetCapabilities(c, s) \/ Produce(c, s) \/ Join(c, s) \/ SendChat(c, s)
             \/ \E dir \in {"send", "recv"} : CreateTransport(c, s, dir)
             \/ \E p \in heard[s] \ gone[s] : Consume(c, s, p)
      PROVE  ChatOK'
  BY <1>1, <1>4, RequestsArrive, QuietChat DEF ChatOK
<1>5. ASSUME NEW c \in Calls,
             \/ FindRoom(c) \/ CreateRouter(c) \/ EnterRoom(c)
             \/ SetTransport(c) \/ AddProducer(c) \/ AddConsumer(c) \/ Rejected(c)
      PROVE  ChatOK'
  BY <1>1, <1>5, QuietChat DEF ChatOK
<1>6. ASSUME NEW c \in Calls, ReadHistory(c) \/ JoinChat(c) \/ StoreMessage(c) \/ EmitMessage(c)
      PROVE  ChatOK'
  BY <1>1, <1>6, ReadHistoryChat, JoinChatSeen, StoreMessageChat, EmitMessageChat DEF ChatOK
<1>7. ASSUME NEW s \in Sockets, Disconnect(s) PROVE ChatOK'
  <2>1. conn' \subseteq conn /\ UNCHANGED <<call, stored, told, chatting, seen, window, past>>
    BY <1>7 DEF Disconnect
  <2> QED
    BY <1>1, <2>1, NothingSaid DEF ChatOK
<1> QED
  BY <1>2, <1>3, <1>4, <1>5, <1>6, <1>7 DEF LiveNext

\* However sending and joining cross, somebody in the chat lacks no message
\* the room was sent but those sent while they were joining, and of those sent
\* before they joined the ones that are not among the oldest.
THEOREM ChatIsSeen == LiveSpec => []ChatSeen
<1>1. LiveInit => ChatOK
  <2> SUFFICES ASSUME LiveInit PROVE ChatOK
    OBVIOUS
  <2>1. PlacesOK
    BY LiveInitType, PlacesInit DEF PlacesOK, LiveInit, MessagesSent, Rest
  <2>2. ChatInv
    BY DEF LiveInit, Rest, ChatInv
  <2> QED
    BY <2>1, <2>2 DEF ChatOK
<1>2. ChatOK /\ [LiveNext]_liveVars => ChatOK'
  BY ChatStep
<1>3. ChatOK => ChatSeen
  BY ChatFacts DEF ChatInv, ChatSeen
<1> QED
  BY <1>1, <1>2, <1>3, PTL DEF LiveSpec
=============================================================================
