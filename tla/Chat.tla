-------------------------------- MODULE Chat --------------------------------
(***************************************************************************)
(* The chat example: a server and its clients, each with its own threads,  *)
(* on top of what the library does for them.  Of the library this module   *)
(* keeps what an application can observe: slots come and go on either side *)
(* at different times, notices and messages reach the inbox in the order   *)
(* the threads push them, ordered messages of a connection arrive in order *)
(* (ChannelBuffer), the rest in any order, and what is under way when a    *)
(* slot is reset may be lost.  Remote procedures run on the socket thread, *)
(* before anything that waits in the inbox.                                *)
(***************************************************************************)
EXTENDS Integers, Sequences, FiniteSetsExt

CONSTANTS
  Client,       \* the clients
  Server,       \* the server
  MaxSessions,  \* bound on the attempts to connect, of all clients together
  MaxInputs     \* bound on the lines that each client types, /connect apart

ASSUME ServerAssumption == Server \notin Client

Process == Client \cup {Server}

VARIABLES
  link,         \* slots: of the client, of the server, and which connection they belong to
  up,           \* packets under way from a client to the server
  down,         \* packets under way to a client
  held,         \* the message that the server's socket thread is about to push, if any
  inbox,        \* m_inbox of each process
  rpc,          \* m_slots of the server's RpcController
  channels,     \* m_channels of the server: how many there are
  crashed,      \* has an exception ended the server?
  m_users, log, \* the server's users, and what it has broadcast
  m_connected, m_server, received,  \* of each client; what its Tick has read so far
  inputs        \* lines that each client has typed so far

wire == <<up, down>>
server == <<rpc, channels, crashed, m_users, log>>
clients == <<m_connected, m_server, received>>
vars == <<link, wire, held, inbox, server, clients, inputs>>

\* The slots of a connection that does not exist.
NoLink == [client |-> "free", server |-> "free", session |-> 0, accepted |-> 0]

\* The server has called Bind, and goes on with its constructor.
Init ==
  /\ link = [c \in Client |-> NoLink]
  /\ up = [c \in Client |-> <<>>] /\ down = [c \in Client |-> <<>>]
  /\ held = <<>> /\ inbox = [p \in Process |-> <<>>]
  /\ rpc = [identifier \in {} |-> <<>>] /\ channels = 1 /\ crashed = FALSE
  /\ m_users = <<>> /\ log = <<>>
  /\ m_connected = [c \in Client |-> FALSE] /\ m_server = [c \in Client |-> FALSE]
  /\ received = [c \in Client |-> <<>>]
  /\ inputs = [c \in Client |-> 0]

\* A sequence without one of its elements.
Erase(s, k) == SubSeq(s, 1, k - 1) \o SubSeq(s, k + 1, Len(s))

\* EnqueueLoopback, and the push of HandleIncomingPacket.
Post(p, message) == inbox' = [inbox EXCEPT ![p] = Append(@, message)]

\* Peer::Receive: the packet that has waited longest.
Receive(p) == Head(inbox[p])
DequeueIncoming(p) == [inbox EXCEPT ![p] = Tail(@)]

-----------------------------------------------------------------------------
(***************************************************************************)
(* RpcController.                                                          *)
(***************************************************************************)

Slot(slots, identifier, fn) ==
  [i \in DOMAIN slots \cup {identifier} |->
     IF i # identifier THEN slots[i]
     ELSE Append(IF i \in DOMAIN slots THEN slots[i] ELSE <<>>, fn)]

\* The callbacks that are invoked, in their order.
Signal(slots, identifier) == IF identifier \in DOMAIN slots THEN slots[identifier] ELSE <<>>

-----------------------------------------------------------------------------
(***************************************************************************)
(* The server: ChatServer.                                                 *)
(***************************************************************************)

\* The rest of the constructor.
RpcRegisterSlot ==
  /\ rpc = [identifier \in {} |-> <<>>] /\ ~ crashed
  /\ rpc' = Slot(rpc, "ExampleRPC", "ExampleRPC")
  /\ UNCHANGED <<link, wire, held, inbox, channels, crashed, m_users, log, clients, inputs>>

MakeChannel ==
  /\ rpc # [identifier \in {} |-> <<>>] /\ channels = 1 /\ ~ crashed
  /\ channels' = 2
  /\ UNCHANGED <<link, wire, held, inbox, rpc, crashed, m_users, log, clients, inputs>>

\* Peer::Send needs a slot with that id, established or not.  What it sends is
\* lost if the client no longer has the slot of that connection.
Reaches(c) ==
  /\ link[c].server # "free" /\ link[c].accepted = link[c].session
  /\ link[c].client \in {"greeted", "up", "closing"}

\* What a client is told over its connection; the n-th entry of the log, if it is one.
Told(c, kind, n) == [kind |-> kind, n |-> n, session |-> link[c].session]

\* Mutant of SendToSpecific: without the channel a packet may overtake others.
SendToSpecificUnordered(queues, c, packets) ==
  IF Reaches(c) THEN [queues EXCEPT ![c] = packets \o @] ELSE queues

\* One call for each of the packets.
SendToSpecific(queues, c, packets) ==
  IF Reaches(c) THEN [queues EXCEPT ![c] = @ \o packets] ELSE queues

Ids(users) == {users[k].id : k \in DOMAIN users}

\* What the users are sent when an entry joins the log.
Broadcast(users) ==
  [c \in Client |->
     IF c \in Ids(users) THEN SendToSpecific(down, c, <<Told(c, "log", Len(log) + 1)>>)[c]
     ELSE down[c]]

Entry(kind, nick, recv) == [kind |-> kind, nick |-> nick, on |-> recv]

\* find_if over the users: where the first with that id is, 0 if there is none.
FindUser(c) ==
  LET found == {k \in DOMAIN m_users : m_users[k].id = c}
  IN IF found = {} THEN 0 ELSE Min(found)

\* Mutant of GetUserByPeerID: the search ends at the last user, found or not.
GetUserByPeerIDLast(c) == Len(m_users)

GetUserByPeerID(c) == FindUser(c)

\* The newcomer gets a nick of the connection's own.
UserJoins(recv) ==
  LET c == recv.from
      nick == <<c, recv.session, 0>>
  IN
  /\ recv.kind = "incoming"
  /\ log' = Append(log, Entry("joined", nick, recv))
  /\ down' = SendToSpecific(Broadcast(m_users), c, <<Told(c, "welcome", Len(log) + 1)>>)
  /\ m_users' = Append(m_users, [id |-> c, nick |-> nick])

\* Mutant of Left: the last of the users is taken from the list.
LeftLast(it) == Erase(m_users, Len(m_users))

Left(it) == Erase(m_users, it)

\* The user who leaves is told, too, if there is a slot with the id again.
UserLeaves(recv) ==
  LET it == FindUser(recv.from) IN
  /\ recv.kind \in {"lost", "disconnected"}
  /\ log' = IF it = 0 THEN log ELSE Append(log, Entry("left", m_users[it].nick, recv))
  /\ down' = IF it = 0 THEN down ELSE Broadcast(m_users)
  /\ m_users' = IF it = 0 THEN m_users ELSE Left(it)

\* HandleChatMessage of the k-th user: a plain message, /nick, and what is
\* answered in private, /list and a /nick without a name.
HandleChatMessage(k, recv) ==
  \/ /\ recv.kind = "text"
     /\ log' = Append(log, Entry("said", m_users[k].nick, recv))
     /\ down' = Broadcast(m_users)
     /\ UNCHANGED m_users
  \/ /\ recv.kind = "nick"
     /\ log' = Append(log, Entry("renamed", m_users[k].nick, recv))
     /\ down' = Broadcast(m_users)
     /\ m_users' = [m_users EXCEPT ![k].nick = <<@[1], @[2], recv.id>>]
  \/ /\ recv.kind = "list"
     /\ down' = SendToSpecific(down, m_users[k].id, <<Told(m_users[k].id, "note", 0)>>)
     /\ UNCHANGED <<m_users, log>>

\* Mutant of UserSpeaks: the first of the users counts as not found.
UserSpeaksNotFirst(recv) ==
  /\ recv.kind \in {"text", "nick", "list"}
  /\ LET k == GetUserByPeerID(recv.from) IN
       IF k > 1 THEN HandleChatMessage(k, recv) ELSE UNCHANGED <<down, m_users, log>>

\* Packets of who is not, or no longer, a user are discarded.
UserSpeaks(recv) ==
  /\ recv.kind \in {"text", "nick", "list"}
  /\ LET k == GetUserByPeerID(recv.from) IN
       \/ k # 0 /\ HandleChatMessage(k, recv)
       \/ k = 0 /\ UNCHANGED <<down, m_users, log>>

\* One turn of the loop in Tick.
ServerTick ==
  /\ channels = 2 /\ ~ crashed /\ inbox[Server] # <<>>
  /\ inbox' = DequeueIncoming(Server)
  /\ LET recv == Receive(Server) IN UserJoins(recv) \/ UserLeaves(recv) \/ UserSpeaks(recv)
  /\ UNCHANGED <<link, up, held, rpc, channels, crashed, clients, inputs>>

-----------------------------------------------------------------------------
(***************************************************************************)
(* A client: ChatClient.                                                   *)
(***************************************************************************)

Sessions == MapThenSumSet(LAMBDA c : link[c].session, Client)

\* Connect.  Only a free slot leads to an attempt.
ClientConnect(c) ==
  /\ ~ m_connected[c] /\ link[c].client = "free" /\ Sessions < MaxSessions
  /\ link' = [link EXCEPT ![c].client = "connecting", ![c].session = @ + 1]
  /\ UNCHANGED <<wire, held, inbox, server, clients, inputs>>

\* Does Peer::Send find a slot for m_server?  Before the server's id is known
\* to both the application and the slot, it may or may not.
Finds(c) ==
  CASE link[c].client = "up" /\ m_server[c] -> {TRUE}
    [] link[c].client \in {"connecting", "greeted", "up"} -> BOOLEAN
    [] OTHER -> {FALSE}

\* HandleInput for what is sent to the server: a message on the channel, or a
\* signal that is not.
ClientSends(c) ==
  /\ link[c].client # "gone" /\ inputs[c] < MaxInputs[c]
  /\ \E kind \in {"text", "nick", "list", "rpc"}, found \in Finds(c) :
       up' = IF found
             THEN [up EXCEPT ![c] =
                     Append(@, [kind |-> kind, session |-> link[c].session, id |-> inputs[c] + 1])]
             ELSE up
  /\ inputs' = [inputs EXCEPT ![c] = @ + 1]
  /\ UNCHANGED <<link, down, held, inbox, server, clients>>

Request(c) == [kind |-> "disconnect", session |-> link[c].session, id |-> 0]

\* /disconnect: Peer::Disconnect sends a request.
ClientDisconnects(c) ==
  /\ m_connected[c] /\ link[c].client = "up" /\ inputs[c] < MaxInputs[c]
  /\ link' = [link EXCEPT ![c].client = "closing"]
  /\ up' = [up EXCEPT ![c] = Append(@, Request(c))]
  /\ inputs' = [inputs EXCEPT ![c] = @ + 1]
  /\ UNCHANGED <<down, held, inbox, server, clients>>

\* /exit: Stop, without time to linger, resets the slot; the server is not told.
ClientExits(c) ==
  /\ link[c].client # "gone" /\ inputs[c] < MaxInputs[c]
  /\ link' = [link EXCEPT ![c].client = "gone"]
  /\ down' = [down EXCEPT ![c] = <<>>]
  /\ inbox' = [inbox EXCEPT ![c] = <<>>]
  /\ inputs' = [inputs EXCEPT ![c] = @ + 1]
  /\ UNCHANGED <<up, held, server, clients>>

\* The loop of Tick: it goes on until nothing waits.  Messages are printed; the
\* last notice tells if there is a connection.
ClientTick(c) ==
  LET notices == {k \in DOMAIN inbox[c] : inbox[c][k].kind \in {"success", "off"}} IN
  /\ inbox[c] # <<>>
  /\ inbox' = [inbox EXCEPT ![c] = <<>>]
  /\ received' = [received EXCEPT ![c] = @ \o inbox[c]]
  /\ m_server' = [m_server EXCEPT ![c] = @ \/ \E k \in notices : inbox[c][k].kind = "success"]
  /\ m_connected' = [m_connected EXCEPT ![c] =
                        IF notices = {} THEN @ ELSE inbox[c][Max(notices)].kind = "success"]
  /\ UNCHANGED <<link, wire, held, server, inputs>>

-----------------------------------------------------------------------------
(***************************************************************************)
(* The library under both.  Each of these steps is one of the socket       *)
(* thread, which does one thing at a time, unless it is said to be one of  *)
(* the worker.                                                             *)
(***************************************************************************)

\* The first two handshake messages: the server takes a slot, the client learns
\* its id.  Packets of former connections no longer have a recipient.
Greet(c) ==
  /\ link[c].client = "connecting" /\ link[c].server = "free" /\ held = <<>> /\ ~ crashed
  /\ link' = [link EXCEPT ![c].client = "greeted", ![c].server = "pending",
                          ![c].accepted = link[c].session]
  /\ up' = [up EXCEPT ![c] = SelectSeq(@, LAMBDA m : m.session = link[c].session)]
  /\ UNCHANGED <<down, held, inbox, server, clients, inputs>>

\* The client has checked the server's answer and is done, the server is not yet.
Establish(c) ==
  /\ link[c].client = "greeted" /\ link[c].server = "pending" /\ ~ crashed
  /\ link' = [link EXCEPT ![c].client = "up", ![c].server = "awaited"]
  /\ Post(c, Told(c, "success", 0))
  /\ UNCHANGED <<wire, held, server, clients, inputs>>

Accept(c) ==
  /\ link[c].server = "awaited" /\ held = <<>> /\ ~ crashed
  /\ link' = [link EXCEPT ![c].server = "up"]
  /\ Post(Server, [kind |-> "incoming", from |-> c, session |-> link[c].accepted])
  /\ UNCHANGED <<wire, held, server, clients, inputs>>

\* A slot is reset, and with it goes what was under way to it.
ClientResets(c) ==
  /\ link' = [link EXCEPT ![c].client = "free"]
  /\ down' = [down EXCEPT ![c] = <<>>]

Without(c, session) == [up EXCEPT ![c] = SelectSeq(@, LAMBDA m : m.session # session)]

ServerResets(c) ==
  /\ ~ crashed
  /\ link' = [link EXCEPT ![c].server = "free"]
  /\ up' = Without(c, link[c].accepted)

\* An attempt fails, before anything is sent but the handshake.  The notice
\* of it changes nothing at the client; the server posts none.
ClientFails(c) ==
  /\ link[c].client \in {"connecting", "greeted"}
  /\ ClientResets(c)
  /\ up' = Without(c, link[c].session)
  /\ UNCHANGED <<held, inbox, server, clients, inputs>>

ServerForgets(c) ==
  /\ link[c].server \in {"pending", "awaited"}
  /\ ServerResets(c)
  /\ down' = [down EXCEPT ![c] = <<>>]
  /\ UNCHANGED <<held, inbox, server, clients, inputs>>

\* The worker resets the slot of a connection: lost, or closed at the
\* client's own wish.
ClientDrops(c) ==
  /\ link[c].client \in {"up", "closing"}
  /\ ClientResets(c)
  /\ Post(c, Told(c, "off", 0))
  /\ UNCHANGED <<up, held, server, clients, inputs>>

ServerDrops(c) ==
  /\ link[c].server = "up"
  /\ ServerResets(c)
  /\ Post(Server, [kind |-> "lost", from |-> c, session |-> link[c].accepted])
  /\ UNCHANGED <<down, held, server, clients, inputs>>

IsOrdered(m) == m.kind \in {"text", "nick", "list"}

\* The packets that the server may get next: those of the connection that its
\* slot belongs to, and on the channel only the first of them.
Takeable(c) ==
  {i \in DOMAIN up[c] :
     /\ up[c][i].session = link[c].accepted
     /\ IsOrdered(up[c][i]) => \A j \in 1 .. i - 1 :
          up[c][j].session = link[c].accepted => ~ IsOrdered(up[c][j])}

MayTake(c, i) ==
  link[c].server = "up" /\ held = <<>> /\ ~ crashed /\ i \in Takeable(c)

\* A message on a channel that the server has not made yet throws; otherwise
\* the socket thread is about to push it.
TakeMessage(c) ==
  \E i \in DOMAIN up[c] :
    /\ MayTake(c, i) /\ IsOrdered(up[c][i])
    /\ up' = [up EXCEPT ![c] = Erase(@, i)]
    /\ crashed' = (channels = 1)
    /\ held' = IF channels = 1 THEN held ELSE <<[kind |-> up[c][i].kind, from |-> c,
                                                     session |-> up[c][i].session, id |-> up[c][i].id]>>
    /\ UNCHANGED <<link, down, inbox, rpc, channels, m_users, log, clients, inputs>>

\* Every callback of the signal is run, and answers: ExampleRPC.
TakeSignal(c) ==
  \E i \in DOMAIN up[c] :
    /\ MayTake(c, i) /\ up[c][i].kind = "rpc"
    /\ up' = [up EXCEPT ![c] = Erase(@, i)]
    /\ down' = SendToSpecific(down, c,
                 [k \in DOMAIN Signal(rpc, "ExampleRPC") |-> Told(c, "note", 0)])
    /\ UNCHANGED <<link, held, inbox, server, clients, inputs>>

\* What follows the request on the channel is dropped with the slot.
TakeDisconnect(c) ==
  \E i \in DOMAIN up[c] :
    /\ MayTake(c, i) /\ up[c][i].kind = "disconnect"
    /\ ServerResets(c)
    /\ Post(Server, [kind |-> "disconnected", from |-> c, session |-> link[c].accepted])
    /\ UNCHANGED <<down, held, server, clients, inputs>>

HandleIncomingPacket ==
  /\ held # <<>>
  /\ Post(Server, Head(held))
  /\ held' = <<>>
  /\ UNCHANGED <<link, wire, server, clients, inputs>>

\* A slot sends nothing before its handshake is done.
ClientTakes(c) ==
  /\ down[c] # <<>>
  /\ link[c].client \in {"up", "closing"} /\ link[c].server \notin {"pending", "awaited"}
  /\ Post(c, Head(down[c]))
  /\ down' = [down EXCEPT ![c] = Tail(@)]
  /\ UNCHANGED <<link, up, held, server, clients, inputs>>

-----------------------------------------------------------------------------
Next ==
  \/ RpcRegisterSlot \/ MakeChannel \/ ServerTick \/ HandleIncomingPacket
  \/ \E c \in Client :
       \/ ClientConnect(c) \/ ClientSends(c) \/ ClientDisconnects(c) \/ ClientExits(c)
       \/ ClientTick(c) \/ Greet(c) \/ Establish(c) \/ Accept(c)
       \/ ClientFails(c) \/ ServerForgets(c) \/ ClientDrops(c) \/ ServerDrops(c)
       \/ TakeMessage(c) \/ TakeSignal(c) \/ TakeDisconnect(c) \/ ClientTakes(c)

Spec == Init /\ [][Next]_vars

\* The threads of every process go on.  Whether connections are made, whether they
\* last, and whether what is sent on them arrives, is left open.
FairSpec ==
  /\ Spec
  /\ WF_vars(RpcRegisterSlot) /\ WF_vars(MakeChannel) /\ WF_vars(ServerTick)
  /\ WF_vars(HandleIncomingPacket)
  /\ \A c \in Client : WF_vars(ClientTick(c))

-----------------------------------------------------------------------------
(***************************************************************************)
(* Properties.                                                             *)
(***************************************************************************)

IsJoin(m) == m.kind = "incoming"
IsLeave(m) == m.kind \in {"lost", "disconnected"}

\* The notices of joining that the users stem from.
Joining(users) ==
  [k \in DOMAIN users |->
     [kind |-> "incoming", from |-> users[k].id, session |-> users[k].nick[2]]]

\* What made the list of users, and then what waits in the inbox.
History == Joining(m_users) \o inbox[Server]

\* The positions in a history from which a client is a user, and remains one when
\* all of it has been read.
Stays(q, c) ==
  {k \in DOMAIN q :
     /\ IsJoin(q[k]) /\ q[k].from = c
     /\ \A j \in DOMAIN q : j > k /\ IsLeave(q[j]) => q[j].from # c}

\* The server's list of users is right as soon as the notices have been read:
\* it has everyone whose connection is established, once, however connections
\* end and are made again while notices wait (ChatServer::Tick).
UsersFollowNotices ==
  /\ \A c \in Client :
       IF link[c].server = "up" THEN \E k \in DOMAIN History : Stays(History, c) = {k}
       ELSE Stays(History, c) = {}
  /\ \A j, k \in DOMAIN m_users : m_users[j].id = m_users[k].id => j = k

\* What was said is broadcast under the nick of who said it: the nick of the
\* connection over which it came, never that of another user or of a later
\* connection of the same client (ChatServer::Tick, GetUserByPeerID).
SaidByNick ==
  \A n \in DOMAIN log : log[n].kind \in {"said", "renamed"} =>
    log[n].nick[1] = log[n].on.from /\ log[n].nick[2] = log[n].on.session

\* What is told of the log never goes back.
InOrder(s) ==
  \A i, k \in DOMAIN s : i < k /\ s[i].kind = "log" /\ s[k].kind = "log" => s[i].n < s[k].n

IsWelcome(m, session) == m.kind = "welcome" /\ m.session = session
IsNews(m, session) == m.kind = "log" /\ m.session = session

\* The k-th of the messages is an entry of the log on the connection on which the
\* i-th was a welcome, and there is no other welcome in between.
Since(s, i, k) ==
  /\ i < k /\ s[i].kind = "welcome" /\ IsNews(s[k], s[i].session)
  /\ \A j \in DOMAIN s : i < j /\ j < k => ~ IsWelcome(s[j], s[i].session)

\* From a welcome on nothing of the log is left out within a connection.  A welcome
\* that a former connection has earned may come first, so it is up to the next one.
WithoutGaps(s) ==
  \A i, k \in DOMAIN s :
    Since(s, i, k) =>
      /\ s[i].n < s[k].n
      /\ \A n \in s[i].n + 1 .. s[k].n - 1 :
           \E j \in DOMAIN s : i < j /\ j < k /\ IsNews(s[j], s[i].session) /\ s[j].n = n

\* Everyone sees one conversation: what a client prints of the log never goes
\* back, over all connections, and from the welcome on nothing is left out for
\* as long as the connection lasts (Broadcast on the ordered channel, and the
\* list of users when it is called).
OneConversation == \A c \in Client : InOrder(received[c]) /\ WithoutGaps(received[c])

Together(c) == link[c].client = "up" /\ link[c].server = "up" /\ link[c].accepted = link[c].session

Heard(c, id) ==
  \E i \in DOMAIN received[c] :
    /\ received[c][i].kind = "log"
    /\ LET on == log[received[c][i].n].on IN on.kind = "text" /\ on.from = c /\ on.id = id

\* No message of the connection starves: what is sent on the channel, either way, is
\* received for as long as the connection lasts.
ChannelDelivers(c) == WF_vars(TakeMessage(c)) /\ WF_vars(ClientTakes(c))

\* Who says something on a connection whose messages do not starve hears it said,
\* unless the connection ends or the server does (HandleChatMessage broadcasts to
\* the sender, too).  A reliable packet may starve, as ReliableArrives of Link shows.
SpeakerHears ==
  \A c \in Client : \A id \in 1 .. MaxInputs[c] :
    ChannelDelivers(c) =>
    (\E i \in DOMAIN up[c] : up[c][i].kind = "text" /\ up[c][i].id = id)
      ~> (Heard(c, id) \/ ~ Together(c) \/ crashed)
=============================================================================
