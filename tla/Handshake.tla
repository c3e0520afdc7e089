------------------------------ MODULE Handshake ------------------------------
(***************************************************************************)
(* How a connection comes about: the client calls Peer::Connect, and the   *)
(* slots of both peers run HandshakerThreeWay with, when encryption is     *)
(* enabled, EncryptionAuthenticator inside it.  Parts of the handshake     *)
(* travel as out-of-band datagrams, which the network may lose, duplicate  *)
(* and reorder; the only remedy is the timer of Handshaker::Update.  A     *)
(* datagram that is never read was lost.                                   *)
(*                                                                         *)
(* Both peers run this code, so that headers are complete and magic number *)
(* and protocol version agree.  The client accepts no incoming peers.  An  *)
(* ephemeral key pair is named by the number of the Setup that made it,    *)
(* and a session key by the two public keys it is computed from.           *)
(*                                                                         *)
(* The worker of a peer holds the lock of the slot for its whole turn.     *)
(* The socket thread takes it in Handle and in RemotePeer::Reset, but      *)
(* tests the handshake before, and completes a failed one without it.  A   *)
(* socket thread that uses a handshaker which is gone has "crashed".       *)
(***************************************************************************)
EXTENDS Integers, FiniteSets, Sequences

CONSTANTS
  CONNECT_RETRY_COUNT,  \* cfg::CONNECT_RETRY_COUNT
  Pins,                 \* what Connect may be told about the server's identity
  Security,             \* which settings of SetEncryptionEnabled are tried
  MaxConnects,          \* bound on the calls of Connect
  MaxIncoming,          \* bound on the slots the server sets up
  MaxSetups,            \* bound on the two together
  MaxLinks,             \* bound on the datagrams sent over the connection
  MaxCopies,            \* bound on the datagrams that arrive once more
  MaxWire               \* bound on the datagrams that travel at the same time

Side == {"client", "server"}
Other(p) == CHOOSE q \in Side : q # p

ASSUME RetryAssumption == CONNECT_RETRY_COUNT \in Nat \ {0}
ASSUME PinAssumption == Pins \subseteq {"none", "right", "wrong"}
ASSUME SecurityAssumption == Security \subseteq [Side -> BOOLEAN]
ASSUME BoundAssumption ==
  {MaxConnects, MaxIncoming, MaxSetups, MaxLinks, MaxCopies, MaxWire} \subseteq Nat

VARIABLES
  encryption,  \* GetEncryptionEnabled of each peer
  slot,        \* the RemotePeer each side keeps for the other
  setups,      \* number of calls of RemotePeer::Setup
  wire,        \* the datagrams on their way; equal ones count as one
  links,       \* number of datagrams sent with flag_link
  copies,      \* number of datagrams that were duplicated
  worker,      \* where each peer's worker is in its slot's Update
  reader,      \* where each peer's socket thread is
  held,        \* the datagram whose part waits for the lock of the slot
  notices,     \* history: what the client's application was told
  met          \* history: the attempts at whose slot the two threads met

threads == <<worker, reader, held, met>>
vars == <<encryption, slot, setups, wire, links, copies, threads, notices>>

NoKey == <<>>
Problem == {"CONNECT_FAILED", "NO_FREE_SLOTS", "INCOMPATIBLE_SECURITY",
            "INCORRECT_REMOTE_IDENTITY"}

\* A message of the handshake.  `stage' is the state byte of an AUTH_MSG, kx a
\* public key; flag stands for what else it says: encryption is wanted, a
\* challenge will follow, the challenge can be or was solved.
Part(op, stage, kx, flag) == [op |-> op, stage |-> stage, kx |-> kx, flag |-> flag]
NoPart == Part("NOT_STARTED", "NONE", 0, FALSE)
ErrorPart(problem) == Part("ERROR_OCCURRED", problem, 0, FALSE)
Link == Part("LINK", "NONE", 0, FALSE)

\* SendHandshakePart: the datagram is encrypted if a key is established.
Sealed(p, part, key) == [to |-> Other(p), part |-> part, key |-> key]

\* The datagrams that travel once `new' have joined the `old': at the bound the
\* network loses them.
Joined(old, new) == IF Cardinality(old \cup new) <= MaxWire THEN old \cup new ELSE old

NoDatagram == Sealed("client", NoPart, NoKey)

FreeSlot ==
  [result |-> "FREE", expected |-> "NOT_STARTED", stage |-> "KEY_EXCHANGE", kx |-> 0,
   key |-> NoKey, pin |-> "none", last |-> NoPart, attempts |-> 0]

\* RemotePeer::Setup with the constructors of Handshaker and its authenticator.
Fresh(p, pin) ==
  [FreeSlot EXCEPT !.result = "IN_PROGRESS", !.kx = setups[p] + 1, !.pin = pin]

Init ==
  /\ encryption \in Security
  /\ slot = [p \in Side |-> FreeSlot]
  /\ setups = [p \in Side |-> 0]
  /\ wire = {}
  /\ links = 0 /\ copies = 0
  /\ worker = [p \in Side |-> "idle"]
  /\ reader = [p \in Side |-> "idle"]
  /\ held = [p \in Side |-> NoDatagram]
  /\ notices = <<>> /\ met = {}

\* One more slot may be set up.
Bounded == setups["client"] + setups["server"] < MaxSetups

\* The process of p is alive.
Up(p) == reader[p] # "crashed"

(***************************************************************************)
(* Steps of a Handshaker.                                                  *)
(***************************************************************************)

\* The datagram m is read, the slot of p becomes s, the replies leave.  A copy
\* of m may stay behind.
Settle(p, m, s, replies) ==
  /\ slot' = [slot EXCEPT ![p] = s]
  /\ \/ wire' = Joined(wire \ {m}, replies) /\ UNCHANGED copies
     \/ /\ copies < MaxCopies
        /\ copies' = copies + 1
        /\ wire' = Joined(wire, replies)

\* SendHandshakeCompleteNotification reports to the application what became of
\* an attempt of its own.
Report(p, s, result) ==
  notices' = IF p = "server" THEN notices
             ELSE Append(notices, [attempt |-> s.kx, result |-> result, key |-> s.key])

\* Mutant of AfterFailure: the slot is not reset.
AfterFailureKept(s) == [s EXCEPT !.last = NoPart]

\* Complete with a failure ends in RemotePeer::Reset.
AfterFailure(s) == FreeSlot

\* A handshake that Complete has ended and whose slot is still to be reset.
Failed(s) == [s EXCEPT !.result = "FAILED", !.last = NoPart]

\* Complete.  A handshaker that is done sends nothing again.
Succeed(p, m, s, replies) ==
  /\ Settle(p, m, [s EXCEPT !.result = "OK", !.last = NoPart, !.attempts = 0], replies)
  /\ Report(p, s, "OK")
Fail(p, m, s, replies, problem) ==
  /\ Settle(p, m, AfterFailure(s), replies)
  /\ Report(p, s, problem)

\* One thread of p comes to the slot where the other one is at `step'.
Meets(p, step) ==
  met' = IF p = "client" /\ step # "idle" THEN met \cup {slot[p].kx} ELSE met

\* Reply: remember the part for Update and send it, encrypted with `key'.
Reply(p, m, s, part, key) ==
  /\ Settle(p, m, [s EXCEPT !.last = part, !.attempts = 1], {Sealed(p, part, key)})
  /\ UNCHANGED notices

\* Handle: the client's first part arrives at a fresh slot.
HandleInitialClient(p, s, m) ==
  /\ s.expected = "NOT_STARTED" /\ m.part.op = "INITIAL_CLIENT"
  /\ \/ /\ m.part.flag # encryption[p]
        /\ Fail(p, m, s, {Sealed(p, ErrorPart("INCOMPATIBLE_SECURITY"), NoKey)},
                "INCOMPATIBLE_SECURITY")
     \/ /\ m.part.flag = encryption[p]
        /\ Reply(p, m,
             [s EXCEPT !.expected = IF encryption[p] THEN "AUTH_MSG" ELSE "UNENCRYPTED_ACK"],
             Part("INITIAL_SERVER", "NONE", 0, encryption[p]), NoKey)

\* Handle: the server's answer arrives at the client, which starts the key
\* exchange or, without encryption, regards itself as connected.
HandleInitialServer(p, s, m) ==
  /\ s.expected = "INITIAL_SERVER" /\ m.part.op = "INITIAL_SERVER"
  /\ \/ /\ encryption[p]
        /\ Reply(p, m, [s EXCEPT !.expected = "AUTH_MSG"],
                 Part("AUTH_MSG", "KEY_EXCHANGE", s.kx, s.pin # "none"), NoKey)
     \/ /\ ~ encryption[p]
        /\ Succeed(p, m, s, {Sealed(p, Part("UNENCRYPTED_ACK", "NONE", 0, FALSE), NoKey)})

\* Handle: the client's last part arrives at the server.
HandleAck(p, s, m) ==
  /\ s.expected = "UNENCRYPTED_ACK" /\ m.part.op = "UNENCRYPTED_ACK"
  /\ Succeed(p, m, s, {})

\* Handle: the other side reports an error.
HandleError(p, s, m) ==
  /\ m.part.op = "ERROR_OCCURRED"
  /\ Fail(p, m, s, {}, m.part.stage)

\* The reply of an authenticator that has nothing to say: the header of an
\* AUTH_MSG without a state byte.  It is not empty, so it is sent.
Blank == Part("AUTH_MSG", "NONE", 0, FALSE)

\* A missing state byte reads as zero, which is STATE_KEY_EXCHANGE.
InStage(s, part) ==
  (IF part.stage = "NONE" THEN "KEY_EXCHANGE" ELSE part.stage) = s.stage

\* HandleKeyExchange at the server: its key leaves unencrypted, and encryption
\* is established right after.
KeyExchangeServer(p, s, m) ==
  LET key == <<m.part.kx, s.kx>> IN
  /\ p = "server" /\ s.stage = "KEY_EXCHANGE"
  /\ Reply(p, m, [s EXCEPT !.key = key,
                           !.stage = IF m.part.flag THEN "AUTHENTICATION" ELSE "DONE"],
           Part("AUTH_MSG", "KEY_EXCHANGE", s.kx, FALSE), NoKey)

\* HandleKeyExchange at the client: challenge the server, or be done.
KeyExchangeClient(p, s, m) ==
  LET t == [s EXCEPT !.key = <<s.kx, m.part.kx>>] IN
  /\ p = "client" /\ s.stage = "KEY_EXCHANGE"
  /\ \/ /\ s.pin # "none"
        /\ Reply(p, m, [t EXCEPT !.stage = "AUTHENTICATION"],
                 Part("AUTH_MSG", "AUTHENTICATION", 0, s.pin = "right"), t.key)
     \/ /\ s.pin = "none"
        /\ Succeed(p, m, t, {Sealed(p, Part("AUTH_MSG", "DONE", 0, FALSE), t.key)})

\* HandleAuth at the server, which can solve only a challenge made for its own
\* identity.  The reply leaves in either case.
ChallengeIncoming(p, s, m) ==
  LET answer == Part("AUTH_MSG", "AUTHENTICATION", 0, m.part.flag) IN
  /\ p = "server" /\ s.stage = "AUTHENTICATION"
  /\ \/ m.part.flag /\ Reply(p, m, [s EXCEPT !.stage = "DONE"], answer, s.key)
     \/ ~ m.part.flag /\ Fail(p, m, s, {Sealed(p, answer, s.key)}, "INCOMPATIBLE_SECURITY")

\* Mutant of Solved: the response is not compared with the challenge.
SolvedAny(part) == TRUE

\* HandleChallengeResponse: the challenge came back decrypted.
Solved(part) == part.flag

\* HandleAuth at the client.
ChallengeResponse(p, s, m) ==
  /\ p = "client" /\ s.stage = "AUTHENTICATION"
  /\ \/ /\ Solved(m.part)
        /\ Succeed(p, m, s, {Sealed(p, Part("AUTH_MSG", "DONE", 0, FALSE), s.key)})
     \/ /\ ~ Solved(m.part)
        /\ Fail(p, m, s, {}, "INCORRECT_REMOTE_IDENTITY")

\* EncryptionAuthenticator::Handle at a server that waits for the final part.
AuthDone(p, s, m) ==
  /\ s.stage = "DONE"
  /\ Succeed(p, m, s, {Sealed(p, Blank, s.key)})

\* Handle: an AUTH_MSG goes to the authenticator.  One for another stage changes
\* nothing there, but is answered with a blank reply.
HandleAuthMsg(p, s, m) ==
  /\ s.expected = "AUTH_MSG" /\ m.part.op = "AUTH_MSG"
  /\ \/ InStage(s, m.part) /\ \/ KeyExchangeServer(p, s, m) \/ KeyExchangeClient(p, s, m)
                              \/ ChallengeIncoming(p, s, m) \/ ChallengeResponse(p, s, m)
                              \/ AuthDone(p, s, m)
     \/ ~ InStage(s, m.part) /\ Reply(p, m, s, Blank, s.key)

\* Handle: a part for another step of the handshake is discarded.
HandleMismatch(p, s, m) ==
  /\ m.part.op # "ERROR_OCCURRED"
  /\ m.part.op # s.expected
  /\ ~ (s.expected = "NOT_STARTED" /\ m.part.op = "INITIAL_CLIENT")
  /\ Settle(p, m, s, {})
  /\ UNCHANGED notices

Handle(p, s, m) ==
  \/ HandleInitialClient(p, s, m) \/ HandleInitialServer(p, s, m) \/ HandleAck(p, s, m)
  \/ HandleError(p, s, m) \/ HandleAuthMsg(p, s, m) \/ HandleMismatch(p, s, m)

(***************************************************************************)
(* The application and the worker.                                         *)
(***************************************************************************)

\* Peer::Connect, with the callback of Socket::Connect that calls Begin.  The
\* callback runs on the socket thread, which must be idle, so no reply is read
\* before it ends.  A public key may be given only if encryption is enabled.
Connect ==
  /\ slot["client"].result = "FREE" /\ setups["client"] < MaxConnects /\ Bounded
  /\ reader["client"] = "idle"
  /\ \E pin \in Pins :
       LET hello == Part("INITIAL_CLIENT", "NONE", 0, encryption["client"]) IN
       /\ pin # "none" => encryption["client"]
       /\ slot' = [slot EXCEPT !["client"] =
            [Fresh("client", pin) EXCEPT !.expected = "INITIAL_SERVER",
                                         !.last = hello, !.attempts = 1]]
       /\ wire' = Joined(wire, {Sealed("client", hello, NoKey)})
  /\ setups' = [setups EXCEPT !["client"] = @ + 1]
  /\ UNCHANGED <<encryption, links, copies, threads, notices>>

\* Mutant of Exhausted: one attempt too many.
ExhaustedLate(s) == s.attempts > CONNECT_RETRY_COUNT

\* Update: the attempt that is due would be one too many.
Exhausted(s) == s.attempts + 1 > CONNECT_RETRY_COUNT

\* Mutant of Retried: a retry is taken for a new part.
RetriedAsNew(s) == [s EXCEPT !.attempts = 1]

\* Update and Reply with isRetry: one more attempt.
Retried(s) == [s EXCEPT !.attempts = @ + 1]

\* Handshaker::Update when the delay has passed.  A slot that never replied has
\* nothing to send again and only counts down.
Update(p) ==
  LET s == slot[p] IN
  /\ Up(p) /\ worker[p] = "idle" /\ s.result = "IN_PROGRESS"
  /\ \/ /\ Exhausted(s)
        /\ worker' = [worker EXCEPT ![p] = "expired"]
        /\ Meets(p, reader[p])
        /\ UNCHANGED <<slot, wire>>
     \/ /\ ~ Exhausted(s)
        /\ slot' = [slot EXCEPT ![p] = Retried(s)]
        /\ wire' = IF s.last = NoPart THEN wire
                   ELSE Joined(wire, {Sealed(p, s.last, s.key)})
        /\ UNCHANGED <<worker, met>>
  /\ UNCHANGED <<encryption, setups, links, copies, reader, held, notices>>

\* Update has found the attempts exhausted and calls Complete, whatever the socket
\* thread has done to the handshake meanwhile.  The lock is held to the end.
Expires(p) ==
  /\ Up(p) /\ worker[p] = "expired"
  /\ slot' = [slot EXCEPT ![p] = AfterFailure(@)]
  /\ Report(p, slot[p], "CONNECT_FAILED")
  /\ worker' = [worker EXCEPT ![p] = "idle"]
  /\ UNCHANGED <<encryption, setups, wire, links, copies, reader, held, met>>

Work(p) == Update(p) \/ Expires(p)

\* A datagram of the connection, with flag_link.
SendLink(p) ==
  /\ Up(p) /\ slot[p].result = "OK" /\ links < MaxLinks
  /\ wire' = Joined(wire, {Sealed(p, Link, slot[p].key)})
  /\ links' = links + 1
  /\ UNCHANGED <<encryption, slot, setups, copies, threads, notices>>

\* The connection is given up, by the application or because sending failed.
Drop(p) ==
  /\ Up(p) /\ slot[p].result = "OK"
  /\ slot' = [slot EXCEPT ![p] = FreeSlot]
  /\ UNCHANGED <<encryption, setups, wire, links, copies, threads, notices>>

(***************************************************************************)
(* The socket thread: OnReadFinished and OnUnconnectedMessage.             *)
(***************************************************************************)

\* The socket thread has read m, and nothing comes of it.
Ignores(p, m) ==
  /\ Settle(p, m, slot[p], {})
  /\ UNCHANGED <<setups, threads, notices>>

\* DisconnectImmediate, without the lock: the slot is established, or its
\* handshake is to be completed as failed.
DisconnectImmediate(p, m) ==
  /\ Settle(p, m, slot[p], {})
  /\ reader' = [reader EXCEPT ![p] = IF slot[p].result = "OK" THEN "reset" ELSE "attempt"]
  /\ Meets(p, worker[p])
  /\ UNCHANGED <<setups, worker, held, notices>>

\* Mutant of Decrypts: any ciphertext is taken.
DecryptsAny(s, m) == s.key # NoKey /\ m.key # NoKey

\* Decrypt succeeds: the datagram was sealed with the key of this slot.
Decrypts(s, m) == s.key # NoKey /\ m.key = s.key

\* The slot can make out what the datagram says.
Readable(s, m) == Decrypts(s, m) \/ (s.key = NoKey /\ m.key = NoKey)

\* Nothing but a plain part of a handshake is looked at without a slot.
ReadIgnored(p, m) ==
  /\ slot[p].result = "FREE"
  /\ m.key # NoKey \/ m.part.op = "LINK"
  /\ Ignores(p, m)

\* OnNewIncomingPeer without a slot to offer: SendRejectionReply.  The client
\* accepts nobody; at the server other peers may hold the slots.
ReadRejected(p, m) ==
  /\ slot[p].result = "FREE" /\ m.key = NoKey /\ m.part.op # "LINK"
  /\ Settle(p, m, slot[p], {Sealed(p, ErrorPart("NO_FREE_SLOTS"), NoKey)})
  /\ UNCHANGED <<setups, threads, notices>>

\* Handle has found the handshake in progress and waits for the lock.  The
\* datagram counts as travelling until it is handled.
Waits(p, m) ==
  /\ reader' = [reader EXCEPT ![p] = "handle"]
  /\ held' = [held EXCEPT ![p] = m]
  /\ UNCHANGED <<wire, copies, worker, notices>>

\* OnNewIncomingPeer: whatever the part says, a slot is set up for it.
OnNewIncomingPeer(p, m) ==
  /\ p = "server" /\ setups[p] < MaxIncoming /\ Bounded
  /\ slot[p].result = "FREE" /\ m.key = NoKey /\ m.part.op # "LINK"
  /\ slot' = [slot EXCEPT ![p] = Fresh(p, "none")]
  /\ setups' = [setups EXCEPT ![p] = @ + 1]
  /\ Waits(p, m)
  /\ UNCHANGED met

\* A datagram that does not decrypt ends the connection.  Ciphertext that is
\* taken for plain text ends it as well, unless it happens to look like an
\* out-of-band message, which is ignored.
ReadUnreadable(p, m) ==
  /\ slot[p].result # "FREE" /\ ~ Readable(slot[p], m)
  /\ \/ DisconnectImmediate(p, m)
     \/ slot[p].key = NoKey /\ Ignores(p, m)

\* Nobody may use flag_link before the handshake is complete here.
ReadLink(p, m) ==
  /\ slot[p].result # "FREE" /\ Readable(slot[p], m) /\ m.part.op = "LINK"
  /\ \/ slot[p].result # "OK" /\ DisconnectImmediate(p, m)
     \/ slot[p].result = "OK" /\ Ignores(p, m)

\* A part of the handshake is to be handled, or ignored when the handshake is
\* done: IsDone is tested before the lock is taken, and not again.
ReadPart(p, m) ==
  /\ slot[p].result # "FREE" /\ Readable(slot[p], m) /\ m.part.op # "LINK"
  /\ \/ /\ slot[p].result = "IN_PROGRESS"
        /\ Waits(p, m) /\ Meets(p, worker[p])
        /\ UNCHANGED <<slot, setups>>
     \/ slot[p].result # "IN_PROGRESS" /\ Ignores(p, m)

Read(p) ==
  /\ reader[p] = "idle"
  /\ \E m \in wire :
       /\ m.to = p
       /\ \/ ReadIgnored(p, m) \/ ReadRejected(p, m) \/ OnNewIncomingPeer(p, m)
          \/ ReadUnreadable(p, m) \/ ReadLink(p, m) \/ ReadPart(p, m)
  /\ UNCHANGED <<encryption, links>>

\* The handshaker that the socket thread calls is gone with the slot.
Crashes(p) ==
  /\ slot[p].result = "FREE"
  /\ reader' = [reader EXCEPT ![p] = "crashed"]
  /\ UNCHANGED <<slot, wire, copies, held, notices>>

\* Handle has the lock.
HandleLocked(p) ==
  /\ reader[p] = "handle" /\ worker[p] = "idle"
  /\ \/ Crashes(p)
     \/ /\ slot[p].result # "FREE"
        /\ Handle(p, slot[p], held[p])
        /\ reader' = [reader EXCEPT ![p] = "idle"]
        /\ held' = [held EXCEPT ![p] = NoDatagram]
  /\ UNCHANGED <<encryption, setups, links, worker, met>>

\* DisconnectImmediate calls Complete, whether or not the worker has the lock and
\* whether or not the handshake is done.
Complete(p) ==
  /\ reader[p] = "attempt"
  /\ \/ Crashes(p)
     \/ /\ slot[p].result # "FREE"
        /\ slot' = [slot EXCEPT ![p] = Failed(@)]
        /\ Report(p, slot[p], "CONNECT_FAILED")
        /\ reader' = [reader EXCEPT ![p] = "reset"]
        /\ UNCHANGED <<wire, copies, held>>
  /\ UNCHANGED <<encryption, setups, links, worker, met>>

\* RemotePeer::Reset, which waits for the lock: at the end of Complete, and once
\* more at the end of DisconnectImmediate, when the slot is free already.
Reset(p) ==
  /\ reader[p] = "reset" /\ worker[p] = "idle"
  /\ slot' = [slot EXCEPT ![p] = FreeSlot]
  /\ reader' = [reader EXCEPT ![p] = "idle"]
  /\ UNCHANGED <<encryption, setups, wire, links, copies, worker, held, met, notices>>

Receive(p) == Read(p) \/ HandleLocked(p) \/ Complete(p) \/ Reset(p)

Next ==
  \/ Connect
  \/ \E p \in Side : Work(p) \/ SendLink(p) \/ Drop(p) \/ Receive(p)

Spec == Init /\ [][Next]_vars

\* The worker ticks.  Nothing is assumed of the network or of the socket thread.
FairSpec == Spec /\ \A p \in Side : WF_vars(Work(p))

-----------------------------------------------------------------------------
(***************************************************************************)
(* Properties.                                                             *)
(***************************************************************************)

Key == {NoKey} \cup ((1 .. MaxConnects) \X (1 .. MaxIncoming))

\* Every slot is well formed, and no part was sent more often than Update of
\* Handshaker allows.
TypeOK ==
  /\ encryption \in Security
  /\ \A p \in Side :
       /\ slot[p].result \in {"FREE", "IN_PROGRESS", "OK", "FAILED"}
       /\ slot[p].expected \in {"NOT_STARTED", "INITIAL_SERVER", "AUTH_MSG", "UNENCRYPTED_ACK"}
       /\ slot[p].stage \in {"KEY_EXCHANGE", "AUTHENTICATION", "DONE"}
       /\ slot[p].key \in Key
       /\ slot[p].attempts \in 0 .. CONNECT_RETRY_COUNT
  /\ setups["client"] \in 0 .. MaxConnects /\ setups["server"] \in 0 .. MaxIncoming
  /\ \A m \in wire : m.to \in Side /\ m.key \in Key
  /\ \A k \in DOMAIN notices : notices[k].result \in Problem \cup {"OK"}

\* Every call of Connect that is no longer in progress was reported to the
\* application, as a success or as a failure, whichever of reply, error, timeout
\* and broken datagram ended it (SendHandshakeCompleteNotification).  It was
\* reported once, unless the timeout met the socket thread at the slot: then both
\* may report it.
ReportedOnce ==
  \A a \in 1 .. setups["client"] :
    LET told == {k \in DOMAIN notices : notices[k].attempt = a}
        open == slot["client"].result = "IN_PROGRESS" /\ slot["client"].kx = a
    IN /\ open <=> told = {}
       /\ a \in met \/ \A j, k \in told : j = k

\* A server regards an encrypted connection as established only after the
\* client has completed the same key exchange with success, whatever late parts
\* of other attempts arrive.  And when a client that was given the server's
\* public key is established while the server is, both have the same session
\* key; without the challenge a late key of the server may mix two exchanges.
KeysAgree ==
  slot["server"].result = "OK" /\ slot["server"].key # NoKey =>
    /\ \E k \in DOMAIN notices :
         notices[k].result = "OK" /\ notices[k].key = slot["server"].key
    /\ slot["client"].result = "OK" /\ slot["client"].pin # "none"
         => slot["client"].key = slot["server"].key

\* A client that was given a public key connects only to the peer that has it.
IdentityVerified == slot["client"].result = "OK" => slot["client"].pin # "wrong"

\* A handshake without a challenge ends on both sides, by success or by timeout,
\* unless the socket thread crashes over it.
UnpinnedEnds ==
  \A p \in Side :
    slot[p].result = "IN_PROGRESS" /\ slot["client"].pin = "none"
      ~> slot[p].result # "IN_PROGRESS" \/ slot["client"].pin # "none" \/ ~ Up(p)

-----------------------------------------------------------------------------
(***************************************************************************)
(* The inductive invariant of Handshake_proofs.                            *)
(***************************************************************************)

PartState ==
  [op : {"NOT_STARTED", "INITIAL_CLIENT", "INITIAL_SERVER", "UNENCRYPTED_ACK", "AUTH_MSG",
         "ERROR_OCCURRED", "LINK"},
   stage : {"NONE", "KEY_EXCHANGE", "AUTHENTICATION", "DONE"} \cup Problem,
   kx : Nat, flag : BOOLEAN]

SlotState ==
  [result : {"FREE", "IN_PROGRESS", "OK", "FAILED"},
   expected : {"NOT_STARTED", "INITIAL_SERVER", "AUTH_MSG", "UNENCRYPTED_ACK"},
   stage : {"KEY_EXCHANGE", "AUTHENTICATION", "DONE"}, kx : Nat, key : Key,
   pin : {"none", "right", "wrong"}, last : PartState, attempts : 0 .. CONNECT_RETRY_COUNT]

Notice == [attempt : Nat, result : Problem \cup {"OK"}, key : Key]

\* What travels, and what Update would send again.
Sendable ==
  wire \cup {Sealed(p, slot[p].last, slot[p].key) :
               p \in {q \in Side : slot[q].result = "IN_PROGRESS" /\ slot[q].last # NoPart}}

\* The client's application was told that the exchange of this key succeeded.
Completed(key) ==
  \E k \in DOMAIN notices : notices[k].result = "OK" /\ notices[k].key = key

\* What a message gives away about its sender: only a public key travels in the
\* clear, the final part only after success, and a challenge was made or solved
\* for the right identity only by an attempt that was given it.
MessageOK(m) ==
  /\ m \in [to : Side, part : PartState, key : Key]
  /\ m.key # NoKey => m.key[1] <= setups["client"] /\ m.key[2] <= setups["server"]
  /\ m.part.op = "ERROR_OCCURRED" => m.part.stage \in Problem
  /\ m.part.op = "AUTH_MSG" =>
       /\ m.part.stage = "KEY_EXCHANGE" => m.part.kx \in 1 .. setups[Other(m.to)]
       /\ m.part.stage # "KEY_EXCHANGE" => m.key # NoKey
       /\ m.part.stage = "DONE" => m.to = "server" /\ Completed(m.key)
       /\ m.part.stage = "AUTHENTICATION" /\ m.part.flag
            /\ m.key[1] = slot["client"].kx => slot["client"].pin = "right"

\* The slot of either side: its key pair is that of its latest Setup, and it has a
\* session key once the exchange is over.
SlotOK(p) ==
  LET s == slot[p] IN
  /\ s.result = "FREE" => s = FreeSlot
  /\ s.result # "FREE" => s.kx = setups[p] /\ s.kx > 0
  /\ s.key # NoKey => /\ s.expected = "AUTH_MSG"
                      /\ s.key[1] <= setups["client"] /\ s.key[2] <= setups["server"]
                      /\ s.kx = IF p = "client" THEN s.key[1] ELSE s.key[2]
  /\ s.stage # "KEY_EXCHANGE" => s.key # NoKey
  /\ s.stage = "KEY_EXCHANGE" /\ s.result = "IN_PROGRESS" => s.key = NoKey

\* What the roles of the two sides add.
RolesOK ==
  LET c == slot["client"] IN
  /\ c.result # "FREE" => c.expected \in {"INITIAL_SERVER", "AUTH_MSG"}
  /\ c.stage # "DONE"
  /\ encryption["client"] \/ c.pin = "none"
  /\ c.result = "OK" /\ c.pin # "none" => c.key # NoKey
  /\ c.result = "OK" => \E k \in DOMAIN notices :
       notices[k].attempt = c.kx /\ notices[k].result = "OK" /\ notices[k].key = c.key
  /\ slot["server"].expected # "INITIAL_SERVER"

\* A notice is about an attempt that was begun, with that attempt's key.
NoticesOK ==
  \A k \in DOMAIN notices :
    LET n == notices[k] IN
    /\ n.attempt \in 1 .. setups["client"]
    /\ n.key # NoKey => n.key[1] = n.attempt /\ n.key[2] <= setups["server"]

\* The session keys that a server is known to have established, and the ones
\* that a client has.
ServerKey(key) ==
  \/ key = slot["server"].key
  \/ \E m \in Sendable : m.to = "client" /\ m.key = key
  \/ slot["client"].result = "OK" /\ slot["client"].pin # "none" /\ key = slot["client"].key
ClientKey(key) ==
  \/ key = slot["client"].key
  \/ \E k \in DOMAIN notices : notices[k].key = key

\* A slot of the server establishes one session key.  Where the server's key is
\* for a later attempt than a client's, its own key pair is not an earlier one.
KeysOK ==
  /\ \A K \in Key \ {NoKey} : ServerKey(K) /\ K[2] = slot["server"].kx => K = slot["server"].key
  /\ \A K, L \in Key \ {NoKey} : ServerKey(K) /\ ClientKey(L) /\ L[1] < K[1] => L[2] <= K[2]

\* No attempt succeeds twice, and one that succeeded is established or over.
SucceedsOnce ==
  \A k \in DOMAIN notices : notices[k].result = "OK" =>
    /\ \A j \in DOMAIN notices :
         notices[j].result = "OK" /\ notices[j].attempt = notices[k].attempt => j = k
    /\ notices[k].attempt = slot["client"].kx => slot["client"].result = "OK"

\* Where the two threads of p can be.  While the worker holds the lock the slot is
\* not reset, what the socket thread has ended is about to be, and a part that waits
\* for the lock finds the slot it was read for, or none.
ThreadsOK(p) ==
  /\ worker[p] = "expired" => slot[p].result \in {"IN_PROGRESS", "FAILED"}
  /\ slot[p].result = "FAILED" => reader[p] = "reset"
  /\ reader[p] \in {"handle", "attempt"} => slot[p].result \in {"FREE", "IN_PROGRESS"}
  /\ reader[p] = "reset" => slot[p].result # "IN_PROGRESS"
  /\ reader[p] = "handle" =>
       /\ held[p] \in wire /\ held[p].to = p
       /\ slot[p].result # "FREE" => held[p].key = slot[p].key

\* No two threads are at the client's slot without having met.
MetOK ==
  worker["client"] = "expired" /\ reader["client"] # "idle" => slot["client"].kx \in met

ThreadsInv ==
  /\ worker \in [Side -> {"idle", "expired"}]
  /\ reader \in [Side -> {"idle", "handle", "attempt", "reset", "crashed"}]
  /\ DOMAIN held = Side
  /\ MetOK /\ \A p \in Side : ThreadsOK(p)

HandshakeInv ==
  /\ encryption \in Security /\ slot \in [Side -> SlotState] /\ setups \in [Side -> Nat]
  /\ setups["client"] <= MaxConnects /\ setups["server"] <= MaxIncoming
  /\ notices \in Seq(Notice)
  /\ \A m \in Sendable : MessageOK(m)
  /\ \A p \in Side : SlotOK(p)
  /\ RolesOK /\ NoticesOK /\ KeysOK
  /\ SucceedsOnce /\ IdentityVerified
  /\ slot["server"].result = "OK" /\ slot["server"].key # NoKey => Completed(slot["server"].key)
=============================================================================
