------------------------------ MODULE PeerSlots ------------------------------
(***************************************************************************)
(* The table of RemotePeer slots of one Peer: how slots are reserved,      *)
(* looked up and released by the application, by the PacketQueue worker    *)
(* and by the socket thread.  What a handshake and a connection do inside  *)
(* their slots is the subject of Handshake and Link; here a part of a      *)
(* handshake lets it go on, succeed or fail, and a connection may be lost  *)
(* at any time.  Slot 0, which Bind reserves for out-of-band datagrams, is *)
(* left out.                                                               *)
(*                                                                         *)
(* A slot is ended in several steps, between which the other threads go    *)
(* on: what it holds is tested, reported, and reset.  Only the last of     *)
(* them takes the lock of the slot, which the worker has throughout.       *)
(***************************************************************************)
EXTENDS Integers, FiniteSets, FiniteSetsExt, Functions

CONSTANTS
  Slots,        \* m_remotesMax - 1, the slots besides slot 0
  Incoming,     \* GetMaximumIncomingPeers
  Remote,       \* the other peers, as pairs of an address and a PeerID
  MaxPosted     \* bound on the calls of Connect whose callbacks are outstanding

ASSUME SlotsAssumption == Slots \in Nat /\ Incoming \in 0 .. Slots

Index == 1 .. Slots
Addr == {r[1] : r \in Remote}
ID == {r[2] : r \in Remote}
Thread == {"app", "worker", "socket"}

CONSTANT None   \* neither an address nor an id
ASSUME NoneAssumption == None \notin Addr \cup ID

VARIABLES
  slot,      \* m_remotes
  lookup,    \* m_remoteLookup: from id to slot
  worker,    \* is PacketQueue::ThreadWorker still running?
  pending,   \* is a read of the socket under way?
  posted,    \* callbacks of Socket::Connect, as pairs of a slot and an address
  phase,     \* whether the peer runs, is in Stop, has stopped or crashed
  doing,     \* for each thread, the slot that it is at and what is to be done there
  told,      \* history: connections reported to the application less those
             \* reported as ended, for each slot
  mixed      \* history: slots at which threads have met since nobody was there, or
             \* that Stop cuts off

vars == <<slot, lookup, worker, pending, posted, phase, doing, told, mixed>>

\* RemotePeer after Reset.
FreeSlot ==
  [use |-> "free", addr |-> None, id |-> None, origin |-> "INVALID",
   result |-> "IN_PROGRESS", disconnecting |-> FALSE]

\* A thread that is at no slot.
Idle == [step |-> "idle", slot |-> 0, last |-> FALSE]

Init ==
  /\ slot = [i \in Index |-> FreeSlot]
  /\ lookup = [x \in {} |-> 0]
  /\ worker = TRUE /\ pending = FALSE
  /\ posted = {}
  /\ phase = "running"
  /\ doing = [t \in Thread |-> Idle]
  /\ told = [i \in Index |-> 0]
  /\ mixed = {}

Active(i) == slot[i].use = "active"

\* IsConnected.
Connected(i) == Active(i) /\ slot[i].result = "OK"

\* GetRemoteByID: the quick lookup, then the first active slot with that id.
\* The result is a set of at most one slot.
Found(id) ==
  IF id \in DOMAIN lookup THEN {lookup[id]}
  ELSE {i \in Index : /\ Active(i) /\ slot[i].id = id
                      /\ \A k \in 1 .. i - 1 : ~ (Active(k) /\ slot[k].id = id)}

\* What GetRemoteByID leaves in the quick lookup.
Cached(id) ==
  [x \in DOMAIN lookup \cup {y \in {id} : Found(y) # {}} |->
     IF x = id THEN Max(Found(id)) ELSE lookup[x]]

\* GetRemoteByAddress, as a set of at most one slot.
FoundAt(addr) ==
  {i \in Index : /\ Active(i) /\ slot[i].addr = addr
                 /\ \A k \in 1 .. i - 1 : ~ (Active(k) /\ slot[k].addr = addr)}

-----------------------------------------------------------------------------
(***************************************************************************)
(* The end of a slot, on any thread.                                       *)
(***************************************************************************)

\* Another thread than t is at slot i.
Met(t, i) == \E u \in Thread \ {t} : doing[u].slot = i

\* Thread t is at slot i from now on, until it is idle again.
Enters(t, i, step, last) ==
  /\ doing[t] = Idle
  /\ doing' = [doing EXCEPT ![t] = [step |-> step, slot |-> i, last |-> last]]
  /\ mixed' = IF Met(t, i) THEN mixed \cup {i} ELSE mixed

At(t, step) == phase # "crashed" /\ doing[t].step = step
Goes(t, step) == doing' = [doing EXCEPT ![t].step = step]
Leaves(t) == doing' = [doing EXCEPT ![t] = Idle]

\* The application is told of the connection in slot i, or of its end.  What is told
\* of a slot where threads have met is not counted.
Notice(i, n) == told' = [told EXCEPT ![i] = IF i \in mixed THEN 0 ELSE @ + n]

\* DisconnectImmediate tests if there is a handshake, and if it has succeeded.
DisconnectImmediate(t, i, last) ==
  /\ slot[i].use # "free"
  /\ Enters(t, i, IF Connected(i) THEN "established" ELSE "attempt", last)

\* Mutant of OnDisconnect: no notification if the disconnect is expected.
OnDisconnectSilent(t) ==
  LET i == doing[t].slot IN
  /\ At(t, "established")
  /\ Goes(t, "reset")
  /\ lookup' = Restrict(lookup, DOMAIN lookup \ {slot[i].id})
  /\ Notice(i, IF slot[i].disconnecting THEN 0 ELSE -1)
  /\ UNCHANGED <<slot, worker, pending, posted, phase, mixed>>

\* OnDisconnect removes whoever is in the slot by now from the quick lookup, and
\* reports the end of the connection.
OnDisconnect(t) ==
  LET i == doing[t].slot IN
  /\ At(t, "established")
  /\ Goes(t, "reset")
  /\ lookup' = Restrict(lookup, DOMAIN lookup \ {slot[i].id})
  /\ Notice(i, -1)
  /\ UNCHANGED <<slot, worker, pending, posted, phase, mixed>>

\* Complete with CONNECT_FAILED, from DisconnectImmediate or, when an attempt has
\* expired, from Handshaker::Update: the failure is reported if there is a handler,
\* which is set together with active.  A slot that was reset has no handshaker.
Complete(t) ==
  LET i == doing[t].slot IN
  /\ At(t, "attempt") \/ At(t, "expired")
  /\ \/ /\ slot[i].use = "free"
        /\ phase' = "crashed" /\ UNCHANGED <<slot, doing>>
     \/ /\ slot[i].use # "free"
        /\ slot' = [slot EXCEPT ![i].result = "FAILED"]
        /\ Goes(t, IF At(t, "attempt") /\ Active(i) THEN "drop" ELSE "reset")
        /\ UNCHANGED phase
  /\ UNCHANGED <<lookup, worker, pending, posted, told, mixed>>

\* The worker holds the lock of the slot that it is at.
Unlocked(t, i) == t = "worker" \/ doing["worker"].slot # i

\* RemotePeer::Reset, by the completion handler of a failed attempt ("drop") and at
\* the end of DisconnectImmediate ("reset").  When the last of the threads that have
\* met at the slot leaves it, the history starts anew.
Reset(t) ==
  LET i == doing[t].slot IN
  /\ At(t, "drop") \/ At(t, "reset")
  /\ Unlocked(t, i)
  /\ slot' = [slot EXCEPT ![i] = FreeSlot]
  /\ IF At(t, "drop") THEN Goes(t, "reset") ELSE Leaves(t)
  /\ worker' = (worker /\ ~ (At(t, "reset") /\ doing[t].last))
  /\ Notice(i, 0)
  /\ mixed' = IF At(t, "drop") \/ Met(t, i) \/ doing["app"].step = "sweep"
              THEN mixed ELSE mixed \ {i}
  /\ UNCHANGED <<lookup, pending, posted, phase>>

-----------------------------------------------------------------------------
(***************************************************************************)
(* The application.                                                        *)
(***************************************************************************)

\* Is the io_context of the socket served?
Serving == phase \in {"running", "stopping", "closing"}

\* GetNextAvailableConnectSlot: the first slot that is not reserved.
IsConnectSlot(i) == slot[i].use = "free" /\ \A k \in 1 .. i - 1 : slot[k].use # "free"

\* The application calls a function of a peer that runs.
Calls == phase = "running" /\ doing["app"] = Idle

\* Peer::Connect: a slot is set up; the rest is left to a callback.
Connect ==
  /\ Calls
  /\ \E i \in Index :
       /\ IsConnectSlot(i)
       /\ slot' = [slot EXCEPT ![i] = [@ EXCEPT !.use = "reserved", !.origin = "SELF"]]
       /\ Cardinality(posted) < MaxPosted
       /\ \E a \in Addr : posted' = posted \cup {<<i, a>>}
  /\ UNCHANGED <<lookup, worker, pending, phase, doing, told, mixed>>

\* Disconnect: a request is queued, and the linger time starts.  A lookup that
\* leads to a slot that was reset ends in a null pointer.
Disconnect(id) ==
  /\ Calls
  /\ lookup' = Cached(id)
  /\ \E i \in Found(id) :
       \/ /\ slot[i].use = "free"
          /\ phase' = "crashed" /\ UNCHANGED slot
       \/ /\ slot[i].use # "free"
          /\ slot' = [slot EXCEPT ![i].disconnecting = TRUE] /\ UNCHANGED phase
  /\ UNCHANGED <<worker, pending, posted, doing, told, mixed>>

\* The public DisconnectImmediate, which tolerates a slot that was reset.
Kick(id) ==
  /\ Calls
  /\ lookup' = Cached(id)
  /\ \E i \in Found(id) : DisconnectImmediate("app", i, FALSE)
  /\ UNCHANGED <<slot, worker, pending, posted, phase, told>>

\* Stop with a linger time: every slot is to be gone by the end of it, the
\* connected ones after a request to their peers, which are looked up by id.
StopBegin ==
  /\ Calls
  /\ phase' = "stopping"
  /\ slot' = [i \in Index |-> [slot[i] EXCEPT !.disconnecting = TRUE]]
  /\ lookup' = [x \in DOMAIN lookup \cup {slot[i].id : i \in {k \in Index : Connected(k)}} |->
                  Max(Found(x))]
  /\ UNCHANGED <<worker, pending, posted, doing, told, mixed>>

\* Stop after the linger time: what is left is reset, one slot after the other and
\* without a word.  The quick lookup stays.
StopEnd ==
  /\ phase = "stopping" /\ doing["app"] = Idle
  /\ phase' = "closing"
  /\ doing' = [doing EXCEPT !["app"] = [step |-> "sweep", slot |-> 1, last |-> FALSE]]
  /\ mixed' = Index
  /\ UNCHANGED <<slot, lookup, worker, pending, posted, told>>

StopReset ==
  LET i == doing["app"].slot IN
  /\ At("app", "sweep") /\ i \in Index /\ Unlocked("app", i)
  /\ slot' = [slot EXCEPT ![i] = FreeSlot]
  /\ doing' = [doing EXCEPT !["app"].slot = i + 1]
  /\ UNCHANGED <<lookup, worker, pending, posted, phase, told, mixed>>

\* The end of Stop: the socket thread is stopped and joined.
Unbind ==
  /\ At("app", "sweep") /\ doing["app"].slot \notin Index
  /\ doing["socket"] = Idle
  /\ phase' = "stopped"
  /\ pending' = FALSE
  /\ Leaves("app")
  /\ UNCHANGED <<slot, lookup, worker, posted, told, mixed>>

-----------------------------------------------------------------------------
(***************************************************************************)
(* The worker.                                                             *)
(***************************************************************************)

\* DoReadCycle: somebody's turn starts the first read of the shared socket, and
\* the next one after a failure.  Slot 0 is always active, so there is a turn.
BeginRead ==
  /\ worker /\ doing["worker"] = Idle
  /\ Serving /\ ~ pending
  /\ pending' = TRUE
  /\ UNCHANGED <<slot, lookup, worker, posted, phase, doing, told, mixed>>

\* The turn of a slot ends it.
WorkerEnds(i, last) ==
  /\ worker /\ phase # "crashed"
  /\ Active(i)
  /\ DisconnectImmediate("worker", i, last)
  /\ UNCHANGED <<slot, lookup, worker, pending, posted, phase, told>>

\* Mutant of DisconnectTimeout: it is left to handshakes that are under way.
DisconnectTimeoutUnfinished(i) ==
  ~ Connected(i) /\ slot[i].disconnecting /\ WorkerEnds(i, TRUE)

\* ThreadWorker: the linger time of a slot is over.  The turn does not go on
\* to the next slot, and no other turn follows: the thread returns.
DisconnectTimeout(i) == slot[i].disconnecting /\ WorkerEnds(i, TRUE)

\* A packet has used up its attempts, or a datagram cannot be encrypted.
GiveUp(i) == WorkerEnds(i, FALSE)

\* Handshaker::Update: a handshake has used up its attempts.
Expires(i) ==
  /\ worker /\ phase # "crashed"
  /\ Active(i) /\ slot[i].result = "IN_PROGRESS"
  /\ Enters("worker", i, "expired", FALSE)
  /\ UNCHANGED <<slot, lookup, worker, pending, posted, phase, told>>

-----------------------------------------------------------------------------
(***************************************************************************)
(* The socket thread.                                                      *)
(***************************************************************************)

\* A handler that the socket thread runs.
Handler == Serving /\ doing["socket"] = Idle

\* The callback of Socket::Connect begins the handshake of the slot, if that was
\* not reset in the meantime.
ConnectCallback(i, a) ==
  /\ Handler
  /\ <<i, a>> \in posted
  /\ posted' = posted \ {<<i, a>>}
  /\ \/ /\ slot[i].use = "free"
        /\ phase' = "crashed" /\ UNCHANGED slot
     \/ /\ slot[i].use # "free"
        /\ slot' = [slot EXCEPT ![i] = [@ EXCEPT !.use = "active", !.addr = a]]
        /\ UNCHANGED phase
  /\ UNCHANGED <<lookup, worker, pending, doing, told, mixed>>

\* OnWriteFinished with an error, also for a write that a former user of the
\* slot began.
WriteFailed(i) ==
  /\ Handler
  /\ DisconnectImmediate("socket", i, FALSE)
  /\ UNCHANGED <<slot, lookup, worker, pending, posted, phase, told>>

\* A read fails: whoever sent the last datagram is cut off, and the next read
\* waits for the worker.
ReadFailed(a) ==
  /\ Handler /\ pending
  /\ pending' = FALSE
  /\ \/ \E i \in FoundAt(a) : DisconnectImmediate("socket", i, FALSE)
     \/ FoundAt(a) = {} /\ UNCHANGED <<doing, mixed>>
  /\ UNCHANGED <<slot, lookup, worker, posted, phase, told>>

\* A datagram arrives; the socket begins the next read by itself.
Arrives ==
  /\ Handler /\ pending
  /\ UNCHANGED <<lookup, worker, pending, posted, phase, told>>

\* CONNECT_ATTEMPT from an address that has a slot: ignored when the handshake
\* of the slot is done.
HandshakePart(a) ==
  /\ Arrives
  /\ \E i \in FoundAt(a) :
       /\ slot[i].result = "IN_PROGRESS"
       /\ Enters("socket", i, "handle", FALSE)
  /\ UNCHANGED slot

\* GetNextAvailableIncomingSlot looks at the uppermost slots only.
IsIncomingSlot(i) == i > Slots - Incoming

\* OnNewIncomingPeer: the uppermost free slot is set up and handles the part, or
\* a rejection is sent.  A slot that Stop has marked stays marked.
OnNewIncomingPeer(a) ==
  LET free == {i \in Index : IsIncomingSlot(i) /\ slot[i].use = "free"} IN
  /\ Arrives
  /\ FoundAt(a) = {} /\ free # {}
  /\ slot' = [slot EXCEPT ![Max(free)] =
                 [@ EXCEPT !.use = "active", !.addr = a, !.origin = "REMOTE"]]
  /\ Enters("socket", Max(free), "handle", FALSE)

\* Mutant of Competes: the slot that was found is not compared.
CompetesNever(i, id) == FALSE

\* Another slot is known under this id.
Competes(i, id) == \E k \in Found(id) : k # i

\* What a part of a handshake with the id of its sender makes of a slot.
Identify(s, id, outcome) ==
  [s EXCEPT !.id = id, !.result = IF outcome = "success" THEN "OK" ELSE @]

\* The handshake of slot i goes on, succeeds or fails.  A failure resets the slot and
\* leaves the quick lookup alone.  A slot that was taken for a newcomer has no
\* success with the first part.
Handled(i, id, outcome) ==
  LET fails == Competes(i, id) \/ outcome = "failure" IN
  /\ outcome = "success" => slot[i].origin = "SELF" \/ slot[i].id # None
  /\ lookup' = Cached(id)
  /\ slot' = [slot EXCEPT ![i] = IF fails THEN FreeSlot ELSE Identify(@, id, outcome)]
  /\ Notice(i, IF ~ fails /\ outcome = "success" THEN 1 ELSE 0)

\* HandshakerThreeWay::Handle, once it has the lock of the slot.  If the slot was
\* reset while it waited, it is a function of an object that is no more.
Handle ==
  LET i == doing["socket"].slot IN
  /\ At("socket", "handle") /\ Unlocked("socket", i)
  /\ \/ ~ Active(i) /\ phase' = "crashed" /\ UNCHANGED <<slot, lookup, told>>
     \/ /\ Active(i) /\ UNCHANGED phase
        /\ \E r \in Remote, outcome \in {"progress", "success", "failure"} :
             r[1] = slot[i].addr /\ Handled(i, r[2], outcome)
  /\ Leaves("socket")
  /\ UNCHANGED <<worker, pending, posted, mixed>>

\* OnSystemPacket with DISCONNECT_REQUEST: the other side leaves.  OnDisconnect and
\* Reset follow.
DisconnectRequest(a) ==
  /\ Arrives
  /\ \E i \in FoundAt(a) : Connected(i) /\ Enters("socket", i, "established", FALSE)
  /\ UNCHANGED slot

\* DISCONNECT_ACK, or a datagram that ends the connection of its sender.
DisconnectAck(a) ==
  /\ Arrives
  /\ \E i \in FoundAt(a) : DisconnectImmediate("socket", i, FALSE)
  /\ UNCHANGED slot

-----------------------------------------------------------------------------
\* A thread goes on with what it is at.
AppStep == OnDisconnect("app") \/ Complete("app") \/ Reset("app") \/ StopReset \/ Unbind
WorkerStep == OnDisconnect("worker") \/ Complete("worker") \/ Reset("worker")
SocketStep == OnDisconnect("socket") \/ Complete("socket") \/ Reset("socket") \/ Handle

Next ==
  \/ Connect \/ StopBegin \/ StopEnd \/ BeginRead
  \/ AppStep \/ WorkerStep \/ SocketStep
  \/ \E id \in ID : Disconnect(id) \/ Kick(id)
  \/ \E i \in Index : DisconnectTimeout(i) \/ GiveUp(i) \/ Expires(i) \/ WriteFailed(i)
  \/ \E i \in Index, a \in Addr : ConnectCallback(i, a)
  \/ \E a \in Addr : HandshakePart(a) \/ OnNewIncomingPeer(a)
  \/ \E a \in Addr : DisconnectAck(a) \/ DisconnectRequest(a) \/ ReadFailed(a)

Spec == Init /\ [][Next]_vars

\* The threads go on.  The worker comes by every slot again and again as long as it
\* runs, so that a linger time that is over is noticed.  Nobody has to send
\* anything to this peer.
FairSpec ==
  /\ Spec
  /\ WF_vars(BeginRead) /\ WF_vars(AppStep) /\ WF_vars(WorkerStep) /\ WF_vars(SocketStep)
  /\ \A i \in Index : SF_vars(DisconnectTimeout(i))
  /\ \A i \in Index, a \in Addr : WF_vars(ConnectCallback(i, a))

-----------------------------------------------------------------------------
(***************************************************************************)
(* Properties.                                                             *)
(***************************************************************************)

\* Handle's check for a competitor together with the cache of GetRemoteByID keeps
\* ids apart: an established connection is what its id leads to, although the
\* cache also holds ids whose slots were reset, reused or taken over, and although
\* a slot may be ended by several threads at once.
EstablishedIsFound == \A i \in Index : Connected(i) => Found(slot[i].id) = {i}

\* A thread has reported the end of the connection in slot i, which is about to be
\* reset.
Reported(i) == \E t \in Thread : doing[t].slot = i /\ doing[t].step = "reset"

\* Whatever ends a connection, request, answer, timeout or failure, on whichever
\* thread, the application learns of its beginning and of its end once, as long as
\* the threads come to a slot one after the other.  Nothing makes sure that they do:
\* when two of them are at a slot at once, both may report the same end, or neither.
NoticesPaired ==
  \A i \in Index \ mixed : told[i] = IF Connected(i) /\ ~ Reported(i) THEN 1 ELSE 0

\* A graceful disconnect of a running peer is over at the latest when its linger
\* time is, since the worker's turns watch over it - for as long as there are any:
\* the first disconnect that times out is the end of the worker.
DisconnectEnds ==
  \A i \in Index : phase = "running" /\ Connected(i) /\ slot[i].disconnecting ~>
                     ~ Connected(i) \/ phase # "running" \/ ~ worker

-----------------------------------------------------------------------------
(***************************************************************************)
(* The inductive invariant of PeerSlots_proofs.                            *)
(***************************************************************************)

SlotState ==
  [use : {"free", "reserved", "active"}, addr : Addr \cup {None}, id : ID \cup {None},
   origin : {"INVALID", "SELF", "REMOTE"}, result : {"IN_PROGRESS", "OK", "FAILED"},
   disconnecting : BOOLEAN]

\* A thread at a slot, and Stop between two of its calls of Reset.
Visit ==
  [step : {"established", "attempt", "expired", "drop", "reset", "handle"}, slot : Index,
   last : BOOLEAN]
Sweep == [step : {"sweep"}, slot : Nat, last : {FALSE}]

\* The types of what the lookup and the notices depend on.
TypeOK ==
  /\ slot \in [Index -> SlotState]
  /\ lookup \in [DOMAIN lookup -> Index] /\ DOMAIN lookup \subseteq ID
  /\ doing \in [Thread -> Visit \cup Sweep \cup {Idle}]
  /\ told \in [Index -> Int]
  /\ mixed \subseteq Index

\* A slot has no id before its handshake has begun, and is not established before
\* the other side has told its id.
IdsAreTold ==
  \A i \in Index : /\ ~ Active(i) => slot[i].id = None /\ slot[i].result # "OK"
                   /\ slot[i].result = "OK" => slot[i].id # None

\* Not only established connections are what their ids lead to: so is every slot
\* whose handshake has got as far as the id.
Identified(i) == Active(i) /\ slot[i].id # None
IdsAreFound == \A i \in Index : Identified(i) => Found(slot[i].id) = {i}

\* There is at most one thread at slot i, and what it has found there still holds.
Undisturbed(i) ==
  \A t \in Thread : doing[t].slot = i =>
    /\ \A u \in Thread : doing[u].slot = i => u = t
    /\ doing[t].step = "established" => Connected(i)
    /\ doing[t].step \in {"attempt", "expired", "drop", "handle"} => ~ Connected(i)

SlotsInv ==
  /\ TypeOK /\ IdsAreTold /\ IdsAreFound
  /\ doing["app"].step = "sweep" => mixed = Index
  /\ \A i \in Index \ mixed : Undisturbed(i)
  /\ NoticesPaired
=============================================================================
