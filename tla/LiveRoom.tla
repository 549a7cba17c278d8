------------------------------ MODULE LiveRoom ------------------------------
(***************************************************************************)
(* The socket room of a live auction: who is in it, the chat, and the      *)
(* mediasoup objects (a router, transports, producers, consumers) behind   *)
(* the video, as AuctionHandler and LiveAuctionRoomManager keep them.      *)
(* Handlers of one process interleave where they await; a socket may       *)
(* disconnect while a handler of its is waiting.  Mediasoup itself is      *)
(* external: closing a router closes its transports, closing a transport   *)
(* its producers and consumers, closing a producer its consumers, and what *)
(* is asked of something closed is rejected.  Connecting a transport and   *)
(* resuming a consumer change nothing that is modelled.                    *)
(*                                                                         *)
(* ghosts, lost, chatting, window and past are history variables.          *)
(***************************************************************************)
EXTENDS Integers, Sequences, FiniteSets

CONSTANTS
    Sockets,        \* the sockets, each connected from the start
    Hosts,          \* those of the seller and of administrators
    Calls,          \* requests that may be in flight at a time
    MaxRequests,    \* bound: requests in all
    ChatLimit       \* messages a joining client is given

ASSUME LiveRoomAssumption ==
    /\ Hosts \subseteq Sockets /\ Sockets # {}
    /\ MaxRequests \in Nat /\ ChatLimit \in Nat \ {0}

VARIABLES
    active,         \* whether the auction is ACTIVE
    conn,           \* the sockets that are connected
    members,        \* those of them in the socket.io room
    router,         \* the router of the live room, 0 without one
    made, openR,    \* how many routers there have been; those open
    users,          \* the live room's users by socket
    transports, openT,  \* the router of each transport; those open
    producers, openP,   \* the transport of each producer; those open
    consumers, openC,   \* owner, producer and transport of each; those open
    heard, gone,    \* producers each socket was told of, and told closed
    sent, stored, told, \* chat messages: how many, in the order of createdAt;
                    \* those stored; those sent to the room
    chatting, seen, \* sockets that have joined the chat; messages each has
    window,         \* messages sent while a socket was joining
    past,           \* messages sent before a socket joined the chat
    call, requests, \* the requests: where each stands, how many there were
    ghosts,         \* sockets that left while a handler of theirs waited
    lost            \* routers made when there was one already

mediaVars == <<transports, openT, producers, openP, consumers, openC>>
chatVars == <<sent, stored, told, chatting, seen, window, past>>
roomVars == <<router, made, openR, lost>>
liveVars == <<active, conn, members, roomVars, users, mediaVars, heard, gone, chatVars,
              call, requests, ghosts>>

\* IAuctionRoomUser
User == [in : BOOLEAN, speaks : BOOLEAN, send : Nat, recv : Nat, producers : SUBSET Nat, consumers : SUBSET Nat]
Absent == [in |-> FALSE, speaks |-> FALSE, send |-> 0, recv |-> 0, producers |-> {}, consumers |-> {}]

Call == [pc : {"idle", "find", "router", "enter", "transport", "produce", "consume", "history", "join",
               "store", "emit"},
         socket : Sockets, dir : {"send", "recv"}, on : Nat, producer : Nat, messages : SUBSET Nat]
Rest == [pc |-> "idle", socket |-> CHOOSE s \in Sockets : TRUE, dir |-> "send", on |-> 0,
         producer |-> 0, messages |-> {}]

LiveTypeOK ==
    /\ active \in BOOLEAN /\ conn \subseteq Sockets /\ members \subseteq conn
    /\ made \in Nat /\ router \in 0..made /\ openR \subseteq 1..made /\ lost \subseteq 1..made
    /\ users \in [Sockets -> User]
    /\ transports \in Seq(Nat) /\ openT \subseteq DOMAIN transports
    /\ producers \in Seq(Nat) /\ openP \subseteq DOMAIN producers
    /\ consumers \in Seq([socket : Sockets, producer : Nat, transport : Nat])
    /\ openC \subseteq DOMAIN consumers
    /\ heard \in [Sockets -> SUBSET Nat] /\ gone \in [Sockets -> SUBSET Nat]
    /\ sent \in Nat /\ stored \subseteq 1..sent /\ told \subseteq 1..sent /\ chatting \subseteq Sockets
    /\ seen \in [Sockets -> SUBSET Nat] /\ window \in [Sockets -> SUBSET Nat]
    /\ past \in [Sockets -> SUBSET Nat]
    /\ call \in [Calls -> Call] /\ requests \in 0..MaxRequests
    /\ ghosts \subseteq Sockets

\* No room yet, or a room in which one host is about to produce.
LiveInit ==
    /\ active = TRUE /\ conn = Sockets /\ lost = {}
    /\ \/ /\ members = {} /\ router = 0 /\ made = 0 /\ openR = {}
          /\ users = [s \in Sockets |-> Absent]
          /\ transports = <<>> /\ openT = {}
       \/ /\ router = 1 /\ made = 1 /\ openR = {1}
          /\ transports = <<1>> /\ openT = {1}
          /\ \E h \in Hosts :
                /\ members = {h}
                /\ users = [s \in Sockets |-> IF s = h
                                THEN [Absent EXCEPT !.in = TRUE, !.speaks = TRUE, !.send = 1] ELSE Absent]
    /\ producers = <<>> /\ openP = {}
    /\ consumers = <<>> /\ openC = {}
    /\ heard = [s \in Sockets |-> {}] /\ gone = [s \in Sockets |-> {}]
    /\ sent = 0 /\ stored = {} /\ told = {} /\ chatting = {}
    /\ seen = [s \in Sockets |-> {}] /\ window = [s \in Sockets |-> {}]
    /\ past = [s \in Sockets |-> {}]
    /\ call = [c \in Calls |-> Rest] /\ requests = 0
    /\ ghosts = {}

-----------------------------------------------------------------------------
\* A request of a connected socket arrives.
Begin(c, s, r) ==
    /\ s \in conn /\ call[c].pc = "idle" /\ requests < MaxRequests
    /\ call' = [call EXCEPT ![c] = [r EXCEPT !.socket = s]]
    /\ requests' = requests + 1
    /\ UNCHANGED <<active, conn, members, roomVars, users, mediaVars, heard, gone, chatVars, ghosts>>

Goto(c, pc) == call' = [call EXCEPT ![c].pc = pc]
Finish(c) == call' = [call EXCEPT ![c] = Rest]

\* getProducers
Listed == UNION { users[s].producers : s \in Sockets }

\* The sockets to which an emit to the room goes once socket s has joined.
Joined(s) == members \cup ({s} \cap conn)

-----------------------------------------------------------------------------
(***************************************************************************)
(* What closes with what.  T are the transports that close, P and C the    *)
(* producers and consumers closed before them, by name.                    *)
(***************************************************************************)
OnTransports(T) == { p \in openP : producers[p] \in T }

\* A producer of a transport that closes tells the room and is taken off the
\* list; a consumer of a producer that closes tells its own socket.
Announced(T, P, C, s) ==
    (IF s \in members THEN OnTransports(T) \ P ELSE {})
        \cup { consumers[k].producer : k \in { j \in openC \ C :
                 /\ consumers[j].socket = s /\ s \in conn
                 /\ consumers[j].producer \in P \cup OnTransports(T)
                 /\ consumers[j].transport \notin T } }

CloseMedia(T, P, C) ==
    LET closing == P \cup OnTransports(T)
    IN  /\ openP' = openP \ closing
        /\ openC' = openC \ (C \cup { k \in openC : \/ consumers[k].transport \in T
                                                    \/ consumers[k].producer \in closing })
        /\ gone' = [s \in Sockets |-> gone[s] \cup Announced(T, P, C, s)]

\* removeProducer
WithoutProducers(us, P) == [s \in Sockets |-> [us[s] EXCEPT !.producers = @ \ P]]

-----------------------------------------------------------------------------
(***************************************************************************)
(* Entering the live room: handleLiveAuctionGetCapabilities                *)
(***************************************************************************)
GetCapabilities(c, s) == Begin(c, s, [Rest EXCEPT !.pc = "find"])

\* Faulty variant: the socket is taken to be in the room already.
JoinSocket_Skipped(s) == members' = members

\* socket.join
JoinSocket(s) == members' = Joined(s)

\* The auction has been read; without a room a router is asked for.
FindRoom(c) ==
    /\ call[c].pc = "find"
    /\ IF ~active THEN Finish(c) ELSE Goto(c, IF router = 0 THEN "router" ELSE "enter")
    /\ IF active /\ router # 0 THEN JoinSocket(call[c].socket) ELSE members' = members
    /\ UNCHANGED <<active, conn, roomVars, users, mediaVars, heard, gone, chatVars, requests, ghosts>>

\* createAuctionRoom: a room made meanwhile is kept, with its router.
CreateRouter(c) ==
    /\ call[c].pc = "router"
    /\ made' = made + 1 /\ openR' = openR \cup {made'}
    /\ router' = IF router = 0 THEN made' ELSE router
    /\ lost' = IF router = 0 THEN lost ELSE lost \cup {made'}
    /\ JoinSocket(call[c].socket)
    /\ Goto(c, "enter")
    /\ UNCHANGED <<active, conn, users, mediaVars, heard, gone, chatVars, requests, ghosts>>

\* joinAuctionRoom, if the room is still there, over what there was of this
\* socket; the answer lists the producers.
EnterRoom(c) ==
    LET s == call[c].socket
    IN  /\ call[c].pc = "enter"
        /\ users' = IF router = 0 THEN users
                    ELSE [users EXCEPT ![s] = [Absent EXCEPT !.in = TRUE, !.speaks = s \in Hosts]]
        /\ heard' = [heard EXCEPT ![s] = @ \cup UNION { users'[u].producers : u \in Sockets }]
        /\ Finish(c)
        /\ UNCHANGED <<active, conn, members, roomVars, mediaVars, gone, chatVars, requests, ghosts>>

-----------------------------------------------------------------------------
(***************************************************************************)
(* Transports, producers and consumers                                     *)
(***************************************************************************)
CreateTransport(c, s, dir) ==
    /\ router # 0 /\ users[s].in
    /\ Begin(c, s, [Rest EXCEPT !.pc = "transport", !.dir = dir, !.on = router])

\* setTransport closes the one it replaces; without the user the new one
\* stays open.
SetTransport(c) ==
    LET s == call[c].socket
        t == Len(transports) + 1
        old == IF users[s].in THEN {users[s][call[c].dir]} \cap openT ELSE {}
        fewer == WithoutProducers(users, OnTransports(old))
    IN  /\ call[c].pc = "transport" /\ call[c].on \in openR
        /\ transports' = Append(transports, call[c].on)
        /\ openT' = (openT \ old) \cup {t}
        /\ CloseMedia(old, {}, {})
        /\ users' = IF users[s].in THEN [fewer EXCEPT ![s][call[c].dir] = t] ELSE users
        /\ Finish(c)
        /\ UNCHANGED <<active, conn, members, roomVars, producers, consumers, heard, chatVars,
                       requests, ghosts>>

Produce(c, s) ==
    /\ users[s].in /\ users[s].speaks /\ users[s].send # 0
    /\ Begin(c, s, [Rest EXCEPT !.pc = "produce", !.on = users[s].send])

\* addProducer, and the new producer is announced to the room.
AddProducer(c) ==
    LET s == call[c].socket
        p == Len(producers) + 1
    IN  /\ call[c].pc = "produce" /\ call[c].on \in openT
        /\ producers' = Append(producers, call[c].on)
        /\ openP' = openP \cup {p}
        /\ users' = IF users[s].in THEN [users EXCEPT ![s].producers = @ \cup {p}] ELSE users
        /\ heard' = [m \in Sockets |-> heard[m] \cup (IF m \in members THEN {p} ELSE {})]
        /\ Finish(c)
        /\ UNCHANGED <<active, conn, members, roomVars, transports, openT, consumers, openC, gone,
                       chatVars, requests, ghosts>>

\* router.canConsume, of a producer the client was told of.
Consume(c, s, p) ==
    /\ router # 0 /\ users[s].in /\ users[s].recv # 0
    /\ p \in openP /\ transports[producers[p]] = router
    /\ Begin(c, s, [Rest EXCEPT !.pc = "consume", !.on = users[s].recv, !.producer = p])

AddConsumer(c) ==
    LET s == call[c].socket
        k == Len(consumers) + 1
    IN  /\ call[c].pc = "consume" /\ call[c].on \in openT /\ call[c].producer \in openP
        /\ consumers' = Append(consumers, [socket |-> s, producer |-> call[c].producer, transport |-> call[c].on])
        /\ openC' = openC \cup {k}
        /\ users' = IF users[s].in THEN [users EXCEPT ![s].consumers = @ \cup {k}] ELSE users
        /\ Finish(c)
        /\ UNCHANGED <<active, conn, members, roomVars, transports, openT, producers, openP, heard, gone,
                       chatVars, requests, ghosts>>

\* What was asked of something that has been closed is rejected; a statement
\* of a handler that has done nothing yet may fail.
Rejected(c) ==
    /\ \/ call[c].pc \in {"find", "router", "history", "store"}
       \/ call[c].pc = "transport" /\ call[c].on \notin openR
       \/ call[c].pc = "produce" /\ call[c].on \notin openT
       \/ call[c].pc = "consume" /\ ~(call[c].on \in openT /\ call[c].producer \in openP)
    /\ Finish(c)
    /\ UNCHANGED <<active, conn, members, roomVars, users, mediaVars, heard, gone, chatVars,
                   requests, ghosts>>

-----------------------------------------------------------------------------
(***************************************************************************)
(* The chat                                                                *)
(***************************************************************************)
\* handleJoin
Join(c, s) == Begin(c, s, [Rest EXCEPT !.pc = "history"])

\* The first messages of a set, as many as a joining client is given.
Oldest(messages) == { m \in messages : Cardinality({ n \in messages : n < m }) < ChatLimit }

\* findManyByAuctionId: the oldest messages, as many as are asked for.
ReadHistory(c) ==
    /\ call[c].pc = "history"
    /\ call' = [call EXCEPT ![c].pc = "join", ![c].messages = Oldest(stored)]
    /\ UNCHANGED <<active, conn, members, roomVars, users, mediaVars, heard, gone, chatVars, requests, ghosts>>

\* socket.join, and the client is sent what was read before.
JoinChat(c) ==
    LET s == call[c].socket
    IN  /\ call[c].pc = "join"
        /\ members' = Joined(s)
        /\ chatting' = chatting \cup {s}
        /\ past' = IF s \in chatting THEN past ELSE [past EXCEPT ![s] = told]
        /\ seen' = [seen EXCEPT ![s] = @ \cup call[c].messages]
        /\ Finish(c)
        /\ UNCHANGED <<active, conn, roomVars, users, mediaVars, heard, gone, sent, stored, told, window,
                       requests, ghosts>>

\* handleSendChat; the sender need not have joined.
SendChat(c, s) ==
    /\ s \in conn /\ call[c].pc = "idle" /\ requests < MaxRequests
    /\ call' = [call EXCEPT ![c] = [Rest EXCEPT !.pc = "store", !.socket = s, !.messages = {sent + 1}]]
    /\ requests' = requests + 1 /\ sent' = sent + 1
    /\ UNCHANGED <<active, conn, members, roomVars, users, mediaVars, heard, gone, stored, told, chatting,
                   seen, window, past, ghosts>>

\* Faulty variant: the message is sent on without waiting for it to be stored.
StoreMessage_Later(c) ==
    /\ call[c].pc = "store"
    /\ Goto(c, "emit")
    /\ UNCHANGED <<active, conn, members, roomVars, users, mediaVars, heard, gone, chatVars, requests, ghosts>>

\* SendAuctionChatMessageUsecase
StoreMessage(c) ==
    /\ call[c].pc = "store"
    /\ stored' = stored \cup call[c].messages
    /\ Goto(c, "emit")
    /\ UNCHANGED <<active, conn, members, roomVars, users, mediaVars, heard, gone, sent, told, chatting, seen,
                   window, past, requests, ghosts>>

EmitMessage(c) ==
    LET joining == { call[d].socket : d \in { d \in Calls : call[d].pc = "join" } }
        received(have, to) == [s \in Sockets |-> have[s] \cup (IF s \in to THEN call[c].messages ELSE {})]
    IN  /\ call[c].pc = "emit"
        /\ told' = told \cup call[c].messages
        /\ seen' = received(seen, members)
        /\ window' = received(window, joining)
        /\ Finish(c)
        /\ UNCHANGED <<active, conn, members, roomVars, users, mediaVars, heard, gone, sent, stored, chatting,
                       past, requests, ghosts>>

-----------------------------------------------------------------------------
(***************************************************************************)
(* Leaving                                                                 *)
(***************************************************************************)
\* Faulty variant: an empty room keeps its router.
Emptied_Never(us) == FALSE

\* auctionRoom.users.size === 0
Emptied(us) == \A s \in Sockets : ~us[s].in

\* handleSocketDisconnect: leaveAuctionRoom for the rooms the socket is in,
\* which closes what the user has and, after the last user, the router.
Disconnect(s) ==
    LET leaves == s \in members /\ router # 0
        rest == IF leaves THEN [users EXCEPT ![s] = Absent] ELSE users
        dispose == leaves /\ Emptied(rest)
        own == IF leaves THEN {users[s].send, users[s].recv} \cap openT ELSE {}
        all == IF dispose THEN { t \in openT : transports[t] = router } \cup own ELSE own
    IN  /\ s \in conn
        /\ conn' = conn \ {s} /\ members' = members \ {s}
        /\ openT' = openT \ all
        /\ CloseMedia(all, IF leaves THEN users[s].producers \cap openP ELSE {},
                           IF leaves THEN users[s].consumers \cap openC ELSE {})
        /\ users' = WithoutProducers(rest, OnTransports(all))
        /\ router' = IF dispose THEN 0 ELSE router
        /\ openR' = IF dispose THEN openR \ {router} ELSE openR
        /\ ghosts' = IF \E c \in Calls : call[c].pc # "idle" /\ call[c].socket = s
                     THEN ghosts \cup {s} ELSE ghosts
        /\ UNCHANGED <<active, made, lost, transports, producers, consumers, heard, chatVars, call, requests>>

\* The auction is paused, ends or fails; the live room is not told.
Deactivate ==
    /\ active /\ active' = FALSE
    /\ UNCHANGED <<conn, members, roomVars, users, mediaVars, heard, gone, chatVars, call, requests,
                   ghosts>>

-----------------------------------------------------------------------------
LiveNext ==
    \/ \E c \in Calls :
          \/ \E s \in Sockets :
                \/ GetCapabilities(c, s) \/ Produce(c, s) \/ Join(c, s) \/ SendChat(c, s)
                \/ \E dir \in {"send", "recv"} : CreateTransport(c, s, dir)
                \/ \E p \in heard[s] \ gone[s] : Consume(c, s, p)
          \/ FindRoom(c) \/ CreateRouter(c) \/ EnterRoom(c)
          \/ SetTransport(c) \/ AddProducer(c) \/ AddConsumer(c) \/ Rejected(c)
          \/ ReadHistory(c) \/ JoinChat(c) \/ StoreMessage(c) \/ EmitMessage(c)
    \/ \E s \in Sockets : Disconnect(s)
    \/ Deactivate

LiveSpec == LiveInit /\ [][LiveNext]_liveVars

-----------------------------------------------------------------------------
(***************************************************************************)
(* Properties                                                              *)
(***************************************************************************)
\* However arrivals, departures and replaced transports cross: a user of the
\* room knows each producer it lists, and has not been told that it closed;
\* each is open; and whoever was watching one that closed has been told.
StreamsKnown ==
    /\ Listed \subseteq openP
    /\ \A s \in conn : users[s].in => Listed \subseteq heard[s] \ gone[s]
    /\ \A k \in DOMAIN consumers :
          consumers[k].socket \in conn /\ consumers[k].producer \notin openP
                /\ consumers[k].transport \in openT
             => consumers[k].producer \in gone[consumers[k].socket]

\* A room has an open router and somebody in it or about to enter.  A user
\* who is not connected left while a request was waiting, and a router that
\* is no room's was made when there was a room already.
RoomsDisposed ==
    /\ \A s \in Sockets : users[s].in => router # 0 /\ (s \in conn \/ s \in ghosts)
    /\ router # 0 => \/ \E s \in Sockets : users[s].in
                     \/ \E c \in Calls : call[c].pc = "enter"
    /\ openR \subseteq {router} \cup lost
    /\ router # 0 => router \in openR

\* Somebody in the chat lacks no message the room was sent but those sent
\* while they were joining, and of those sent before they joined the ones that
\* are not among the oldest, which is all the history a client is given.
ChatSeen ==
    \A s \in members \cap chatting :
        told \subseteq seen[s] \cup window[s] \cup (past[s] \ Oldest(stored \cup told))
=============================================================================
