--------------------------- MODULE Handshake_proofs ---------------------------
(***************************************************************************)
(* Proofs about Handshake for any number of attempts, of slots the server  *)
(* sets up, of resends, and of datagrams that travel or are duplicated.    *)
(***************************************************************************)
EXTENDS Handshake, TLAPS

\* A step whose proof names no prover is proved by Zenon.
USE Zenon

\* The other side of a handshake.
LEMMA OtherSide == Other("client") = "server" /\ Other("server") = "client"
BY Zenon DEF Other, Side

\* A datagram sealed by one side goes to the other.
LEMMA SealedFields ==
  ASSUME NEW part, NEW key, NEW m
  PROVE  /\ m = Sealed("client", part, key) => m.to = "server" /\ m.part = part /\ m.key = key
         /\ m = Sealed("server", part, key) => m.to = "client" /\ m.part = part /\ m.key = key
BY OtherSide, SMT DEF Sealed

\* A session key is a pair of key pairs' numbers.
LEMMA KeyFields ==
  ASSUME NEW K \in Key, K # NoKey
  PROVE  K[1] \in Nat /\ K[2] \in Nat /\ K[1] > 0 /\ K[2] > 0
BY BoundAssumption, SMT DEF Key

\* The number of datagrams on the wire is bounded by losing some.
LEMMA SettleFacts ==
  ASSUME NEW p, NEW m \in wire, NEW s, NEW replies, Settle(p, m, s, replies)
  PROVE  slot' = [slot EXCEPT ![p] = s] /\ wire' \subseteq wire \cup replies
<1>1. slot' = [slot EXCEPT ![p] = s]
  BY Zenon DEF Settle
<1>2. wire' = Joined(wire \ {m}, replies) \/ wire' = Joined(wire, replies)
  BY Zenon DEF Settle
<1>3. wire' \subseteq wire \cup replies
  BY <1>2, Zenon DEF Joined
<1> QED
  BY <1>1, <1>3, Zenon

-----------------------------------------------------------------------------
(***************************************************************************)
(* What a step may do without breaking the invariant.                      *)
(***************************************************************************)

\* The notices told so far stay.
Grows ==
  /\ notices' \in Seq(Notice)
  /\ \A k \in DOMAIN notices : k \in DOMAIN notices' /\ notices'[k] = notices[k]

\* Setups are only added.
Counts ==
  /\ setups' \in [Side -> Nat]
  /\ \A p \in Side : setups[p] <= setups'[p]
  /\ setups'["client"] <= MaxConnects /\ setups'["server"] <= MaxIncoming

\* What was told stays told.
LEMMA CompletedStays ==
  ASSUME NEW K, Grows, Completed(K)
  PROVE  Completed(K)'
<1>1. PICK k \in DOMAIN notices : notices[k].result = "OK" /\ notices[k].key = K
  BY Zenon DEF Completed
<1>2. k \in DOMAIN notices' /\ notices'[k] = notices[k]
  BY Zenon DEF Grows
<1> QED
  BY <1>1, <1>2, Zenon DEF Completed

\* A message stays true while setups and notices are added and the client's
\* attempt is the same, is over, or is one that no message can be about yet.
LEMMA MessageStays ==
  ASSUME NEW m, MessageOK(m), Grows, Counts, setups \in [Side -> Nat],
         \/ /\ slot'["client"].kx = slot["client"].kx
            /\ slot'["client"].pin = slot["client"].pin
         \/ slot'["client"].kx = 0
         \/ slot'["client"].kx \in Nat /\ slot'["client"].kx > setups["client"]
  PROVE  MessageOK(m)'
<1>1. m \in [to : Side, part : PartState, key : Key]
  BY Zenon DEF MessageOK
<1>2. /\ m.to \in Side /\ m.key \in Key
      /\ m.key # NoKey => m.key[1] \in Nat /\ m.key[2] \in Nat /\ m.key[1] > 0 /\ m.key[2] > 0
  BY <1>1, KeyFields, Zenon
<1>3. \A p \in Side : setups[p] \in Nat /\ setups'[p] \in Nat /\ setups[p] <= setups'[p]
  BY Zenon DEF Counts
<1>4. "client" \in Side /\ "server" \in Side /\ Other(m.to) \in Side
  BY <1>2, OtherSide, Zenon DEF Side
<1>5. m.key # NoKey => /\ m.key[1] <= setups["client"] /\ m.key[2] <= setups["server"]
                       /\ m.key[1] <= setups'["client"] /\ m.key[2] <= setups'["server"]
  BY <1>2, <1>3, <1>4, SMT DEF MessageOK
<1>6. ASSUME m.part.op = "AUTH_MSG"
      PROVE  /\ m.part.stage = "KEY_EXCHANGE" => m.part.kx \in 1 .. setups'[Other(m.to)]
             /\ m.part.stage # "KEY_EXCHANGE" => m.key # NoKey
             /\ m.part.stage = "DONE" => m.to = "server" /\ Completed(m.key)'
             /\ m.part.stage = "AUTHENTICATION" /\ m.part.flag
                  /\ m.key[1] = slot'["client"].kx => slot'["client"].pin = "right"
  <2>1. /\ m.part.stage = "KEY_EXCHANGE" => m.part.kx \in 1 .. setups[Other(m.to)]
        /\ m.part.stage # "KEY_EXCHANGE" => m.key # NoKey
        /\ m.part.stage = "DONE" => m.to = "server" /\ Completed(m.key)
        /\ m.part.stage = "AUTHENTICATION" /\ m.part.flag
             /\ m.key[1] = slot["client"].kx => slot["client"].pin = "right"
    BY <1>6, Zenon DEF MessageOK
  <2>2. m.part.stage = "KEY_EXCHANGE" => m.part.kx \in 1 .. setups'[Other(m.to)]
    BY <1>3, <1>4, <2>1, SMT
  <2>3. m.part.stage = "DONE" => Completed(m.key)'
    BY <2>1, CompletedStays, Zenon
  <2>4. ASSUME m.part.stage = "AUTHENTICATION", m.part.flag, m.key[1] = slot'["client"].kx
        PROVE  slot'["client"].pin = "right"
    <3>1. m.key # NoKey
      BY <2>1, <2>4, Zenon
    <3>2. slot'["client"].kx # 0 /\ ~ (slot'["client"].kx > setups["client"])
      BY <1>2, <1>3, <1>4, <1>5, <2>4, <3>1, SMT
    <3> QED
      BY <2>1, <2>4, <3>2, Zenon
  <2> QED
    BY <2>1, <2>2, <2>3, <2>4, Zenon
<1>7. m.part.op = "ERROR_OCCURRED" => m.part.stage \in Problem
  BY Zenon DEF MessageOK
<1> QED
  BY <1>1, <1>5, <1>6, <1>7, Zenon DEF MessageOK

\* A key that a server is known to have is a pair of setups that took place.
LEMMA ServerKeyFields ==
  ASSUME HandshakeInv, NEW K \in Key \ {NoKey}, ServerKey(K)
  PROVE  K[1] <= setups["client"] /\ K[2] <= setups["server"]
<1>1. CASE K = slot["server"].key
  BY <1>1, Zenon DEF HandshakeInv, SlotOK, Side
<1>2. CASE \E m \in Sendable : m.to = "client" /\ m.key = K
  BY <1>2, Zenon DEF HandshakeInv, MessageOK
<1>3. CASE K = slot["client"].key
  BY <1>3, Zenon DEF HandshakeInv, SlotOK, Side
<1> QED
  BY <1>1, <1>2, <1>3, Zenon DEF ServerKey

\* So is a key that a client has.
LEMMA ClientKeyFields ==
  ASSUME HandshakeInv, NEW L \in Key \ {NoKey}, ClientKey(L)
  PROVE  L[2] <= setups["server"]
<1>1. CASE L = slot["client"].key
  BY <1>1, Zenon DEF HandshakeInv, SlotOK, Side
<1>2. CASE \E k \in DOMAIN notices : notices[k].key = L
  BY <1>2, Zenon DEF HandshakeInv, NoticesOK
<1> QED
  BY <1>1, <1>2, Zenon DEF ClientKey

\* A step of the server whose new slot s and whose replies are in order, and which
\* does not replace a session key.
ServerMove(s, replies) ==
  /\ s \in SlotState
  /\ slot' = [slot EXCEPT !["server"] = s]
  /\ encryption' = encryption /\ notices' = notices
  /\ Counts /\ setups'["client"] = setups["client"]
  /\ wire' \subseteq wire \cup replies
  /\ SlotOK("server")' /\ s.expected # "INITIAL_SERVER"
  /\ s.result = "OK" /\ s.key # NoKey => Completed(s.key)
  /\ \A r \in replies : /\ MessageOK(r)' /\ r.to = "client"
                        /\ r.key \in {NoKey, slot["server"].key, s.key}
  /\ s.result = "IN_PROGRESS" /\ s.last # NoPart => MessageOK(Sealed("server", s.last, s.key))'
  /\ \/ s.kx = slot["server"].kx /\ slot["server"].key \in {NoKey, s.key}
     \/ s.kx = 0
     \/ s.kx > setups["server"]

\* Such a step keeps the invariant.
LEMMA ServerStep ==
  ASSUME HandshakeInv, NEW s, NEW replies, ServerMove(s, replies)
  PROVE  HandshakeInv'
<1> USE DEF ServerMove
<1>0. "client" \in Side /\ "server" \in Side /\ \A p \in Side : p = "client" \/ p = "server"
  BY Zenon DEF Side
<1>1. /\ slot \in [Side -> SlotState] /\ setups \in [Side -> Nat] /\ encryption \in Security
      /\ notices \in Seq(Notice)
  BY Zenon DEF HandshakeInv
<1>2. /\ slot' \in [Side -> SlotState] /\ slot'["server"] = s
      /\ slot'["client"] = slot["client"]
  BY <1>0, <1>1, Zenon
<1>3. Grows
  BY <1>1, Zenon DEF Grows
<1>4. \A m \in Sendable' :
        \/ m \in Sendable
        \/ m \in replies
        \/ /\ s.result = "IN_PROGRESS" /\ s.last # NoPart
           /\ m = Sealed("server", s.last, s.key)
  BY <1>0, <1>2 DEF Sendable
<1>5. \A m \in Sendable : MessageOK(m)'
  BY <1>1, <1>2, <1>3, MessageStays, Zenon DEF HandshakeInv
<1>6. \A m \in Sendable' : MessageOK(m)'
  BY <1>4, <1>5, Zenon
<1>7. \A p \in Side : SlotOK(p)'
  <2>1. SlotOK("client")'
    <3>1. SlotOK("client")
      BY <1>0, Zenon DEF HandshakeInv
    <3>2. setups["server"] \in Nat /\ setups'["server"] \in Nat /\ setups["server"] <= setups'["server"]
      BY <1>0, <1>1, Zenon DEF Counts
    <3>3. slot["client"].key # NoKey => slot["client"].key[2] \in Nat
      BY <1>0, <1>1, KeyFields, Zenon DEF SlotState
    <3> QED
      BY <1>2, <3>1, <3>2, <3>3, SMT DEF SlotOK
  <2> QED
    BY <1>0, <2>1, Zenon
<1>8. RolesOK'
  BY <1>2, Zenon DEF HandshakeInv, RolesOK
<1>9. NoticesOK'
  <2>1. setups["server"] \in Nat /\ setups'["server"] \in Nat /\ setups["server"] <= setups'["server"]
    BY <1>0, <1>1, Zenon DEF Counts
  <2>2. \A k \in DOMAIN notices : notices[k].key \in Key
    <3>1. \A k \in DOMAIN notices : notices[k] \in Notice
      BY <1>1, SMT
    <3> QED
      BY <3>1, Zenon DEF Notice
  <2>3. \A k \in DOMAIN notices : notices[k].key # NoKey => notices[k].key[2] \in Nat
    BY <2>2, KeyFields, Zenon
  <2>4. \A k \in DOMAIN notices :
          /\ notices[k].attempt \in 1 .. setups["client"]
          /\ notices[k].key # NoKey => /\ notices[k].key[1] = notices[k].attempt
                                       /\ notices[k].key[2] <= setups["server"]
    BY Zenon DEF HandshakeInv, NoticesOK
  <2>5. \A k \in DOMAIN notices :
          notices[k].key # NoKey => notices[k].key[2] <= setups'["server"]
    BY <2>1, <2>3, <2>4, SMT
  <2> QED
    BY <2>4, <2>5, Zenon DEF NoticesOK
<1>10. \A K \in Key \ {NoKey} : ServerKey(K)' => ServerKey(K) \/ K = s.key
  <2> SUFFICES ASSUME NEW K \in Key \ {NoKey}, ServerKey(K)'
               PROVE  ServerKey(K) \/ K = s.key
    BY Zenon
  <2>1. CASE \E m \in Sendable' : m.to = "client" /\ m.key = K
    <3>1. PICK m \in Sendable' : m.to = "client" /\ m.key = K
      BY <2>1, Zenon
    <3>2. CASE m \in Sendable
      BY <3>1, <3>2, Zenon DEF ServerKey
    <3>3. CASE m \in replies
      BY <3>1, <3>3, Zenon DEF ServerKey
    <3>4. CASE m = Sealed("server", s.last, s.key)
      BY <3>1, <3>4, SealedFields, SMT
    <3> QED
      BY <1>4, <3>2, <3>3, <3>4, Zenon
  <2>2. CASE K = slot'["server"].key
    BY <1>2, <2>2, Zenon
  <2>3. CASE /\ slot'["client"].result = "OK" /\ slot'["client"].pin # "none"
             /\ K = slot'["client"].key
    BY <1>2, <2>3, Zenon DEF ServerKey
  <2> QED
    BY <2>1, <2>2, <2>3, Zenon DEF ServerKey
<1>11. \A L : ClientKey(L)' <=> ClientKey(L)
  BY <1>2, Zenon DEF ClientKey
<1>12. s.key # NoKey => s.key \in Key /\ s.key[2] = s.kx /\ s.kx = setups'["server"]
  <2>1. s.key \in Key
    BY Zenon DEF SlotState
  <2>2. s.result = "FREE" => s.key = NoKey
    BY <1>2, SMT DEF SlotOK, FreeSlot
  <2> QED
    BY <1>2, <2>1, <2>2, Zenon DEF SlotOK
<1>13. KeysOK'
  <2>1. ASSUME NEW K \in Key \ {NoKey}, ServerKey(K)', K[2] = s.kx
        PROVE  K = s.key
    <3>1. SUFFICES ASSUME ServerKey(K) PROVE K = s.key
      BY <1>10, <2>1, Zenon
    <3>2. K[2] <= setups["server"] /\ K[2] > 0 /\ K[2] \in Nat /\ setups["server"] \in Nat
      BY <1>0, <1>1, <3>1, ServerKeyFields, KeyFields, Zenon
    <3>3. K[2] = slot["server"].kx /\ slot["server"].key \in {NoKey, s.key}
      BY <2>1, <3>2, SMT
    <3>4. K = slot["server"].key
      BY <3>1, <3>3, Zenon DEF HandshakeInv, KeysOK
    <3> QED
      BY <3>3, <3>4, Zenon
  <2>2. ASSUME NEW K \in Key \ {NoKey}, NEW L \in Key \ {NoKey},
               ServerKey(K)', ClientKey(L), L[1] < K[1]
        PROVE  L[2] <= K[2]
    <3>1. CASE ServerKey(K)
      BY <2>2, <3>1, Zenon DEF HandshakeInv, KeysOK
    <3>2. CASE K = s.key
      <4>1. K[2] = setups'["server"]
        BY <1>12, <3>2, Zenon
      <4>2. L[2] <= setups["server"] /\ L[2] \in Nat
        BY <2>2, ClientKeyFields, KeyFields, Zenon
      <4>3. setups["server"] \in Nat /\ setups'["server"] \in Nat /\ setups["server"] <= setups'["server"]
        BY <1>0, <1>1, Zenon DEF Counts
      <4> QED
        BY <4>1, <4>2, <4>3, SMT
    <3> QED
      BY <1>10, <2>2, <3>1, <3>2, Zenon
  <2> QED
    BY <1>2, <1>11, <2>1, <2>2, Zenon DEF KeysOK
<1>14. SucceedsOnce' /\ IdentityVerified'
  BY <1>2, Zenon DEF HandshakeInv, SucceedsOnce, IdentityVerified
<1>15. s.result = "OK" /\ s.key # NoKey => Completed(s.key)'
  BY <1>3, CompletedStays, Zenon
<1> QED
  BY <1>1, <1>2, <1>6, <1>7, <1>8, <1>9, <1>13, <1>14, <1>15, Zenon DEF HandshakeInv, Counts

\* A step of the client whose new slot s, replies and notices are in order, and
\* which regards a challenge as solved only with a key that the server has.
ClientMove(s, replies) ==
  /\ s \in SlotState
  /\ slot' = [slot EXCEPT !["client"] = s]
  /\ encryption' = encryption
  /\ Grows /\ Counts /\ setups'["server"] = setups["server"]
  /\ wire' \subseteq wire \cup replies
  /\ SlotOK("client")' /\ RolesOK' /\ NoticesOK' /\ SucceedsOnce' /\ IdentityVerified'
  /\ \A r \in replies : MessageOK(r)' /\ r.to = "server"
  /\ s.result = "IN_PROGRESS" /\ s.last # NoPart => MessageOK(Sealed("client", s.last, s.key))'
  /\ \A k \in DOMAIN notices' \ DOMAIN notices :
       notices'[k].key \in {NoKey, slot["client"].key, s.key}
  /\ s.result = "OK" /\ s.pin # "none" /\ s.key # NoKey => ServerKey(s.key)
  /\ \/ s.kx = slot["client"].kx /\ s.pin = slot["client"].pin
     \/ s.kx = 0
     \/ s.kx > setups["client"]

\* Such a step keeps the invariant.
LEMMA ClientStep ==
  ASSUME HandshakeInv, NEW s, NEW replies, ClientMove(s, replies)
  PROVE  HandshakeInv'
<1> USE DEF ClientMove
<1>0. "client" \in Side /\ "server" \in Side /\ \A p \in Side : p = "client" \/ p = "server"
  BY Zenon DEF Side
<1>1. /\ slot \in [Side -> SlotState] /\ setups \in [Side -> Nat] /\ encryption \in Security
  BY Zenon DEF HandshakeInv
<1>2. /\ slot' \in [Side -> SlotState] /\ slot'["client"] = s
      /\ slot'["server"] = slot["server"] /\ s.kx \in Nat
  BY <1>0, <1>1, Zenon DEF SlotState
<1>3. setups["client"] \in Nat /\ setups'["client"] \in Nat /\ setups["client"] <= setups'["client"]
  BY <1>0, <1>1, Zenon DEF Counts
<1>4. \A m \in Sendable' :
        \/ m \in Sendable
        \/ m \in replies
        \/ /\ s.result = "IN_PROGRESS" /\ s.last # NoPart
           /\ m = Sealed("client", s.last, s.key)
  BY <1>0, <1>2, Zenon DEF Sendable
<1>5. \A m \in Sendable : MessageOK(m)'
  BY <1>1, <1>2, MessageStays, Zenon DEF HandshakeInv
<1>6. \A m \in Sendable' : MessageOK(m)'
  BY <1>4, <1>5, Zenon
<1>7. \A p \in Side : SlotOK(p)'
  <2>1. SlotOK("server")
    BY <1>0, Zenon DEF HandshakeInv
  <2>2. slot["server"].key # NoKey => slot["server"].key[1] \in Nat
    BY <1>0, <1>1, KeyFields, Zenon DEF SlotState
  <2>3. SlotOK("server")'
    BY <1>2, <1>3, <2>1, <2>2, SMT DEF SlotOK
  <2> QED
    BY <1>0, <2>3, Zenon
<1>8. \A K \in Key \ {NoKey} : ServerKey(K)' => ServerKey(K)
  <2> SUFFICES ASSUME NEW K \in Key \ {NoKey}, ServerKey(K)'
               PROVE  ServerKey(K)
    BY Zenon
  <2>1. CASE \E m \in Sendable' : m.to = "client" /\ m.key = K
    <3>1. PICK m \in Sendable' : m.to = "client" /\ m.key = K
      BY <2>1, Zenon
    <3>2. m \notin replies /\ m # Sealed("client", s.last, s.key)
      BY <3>1, SealedFields
    <3> QED
      BY <1>4, <3>1, <3>2, Zenon DEF ServerKey
  <2>2. CASE K = slot'["server"].key
    BY <1>2, <2>2, Zenon DEF ServerKey
  <2>3. CASE /\ slot'["client"].result = "OK" /\ slot'["client"].pin # "none"
             /\ K = slot'["client"].key
    BY <1>2, <2>3, Zenon
  <2> QED
    BY <2>1, <2>2, <2>3, Zenon DEF ServerKey
<1>9. \A L \in Key \ {NoKey} : ClientKey(L)' => ClientKey(L) \/ L = s.key
  <2> SUFFICES ASSUME NEW L \in Key \ {NoKey}, ClientKey(L)'
               PROVE  ClientKey(L) \/ L = s.key
    BY Zenon
  <2>1. CASE L = slot'["client"].key
    BY <1>2, <2>1, Zenon
  <2>2. ASSUME NEW k \in DOMAIN notices', notices'[k].key = L
        PROVE  ClientKey(L) \/ L = s.key
    <3>1. CASE k \in DOMAIN notices
      BY <2>2, <3>1, Zenon DEF ClientKey, Grows
    <3>2. CASE k \notin DOMAIN notices
      BY <2>2, <3>2, Zenon DEF ClientKey
    <3> QED
      BY <3>1, <3>2, Zenon
  <2> QED
    BY <2>1, <2>2, Zenon DEF ClientKey
<1>10. s.key # NoKey => s.key[1] = setups'["client"]
  <2>1. s.result = "FREE" => s.key = NoKey
    BY <1>2, SMT DEF SlotOK, FreeSlot
  <2> QED
    BY <1>2, <2>1, Zenon DEF SlotOK
<1>11. KeysOK'
  <2>1. ASSUME NEW K \in Key \ {NoKey}, ServerKey(K)', K[2] = slot["server"].kx
        PROVE  K = slot["server"].key
    BY <1>8, <2>1, Zenon DEF HandshakeInv, KeysOK
  <2>2. ASSUME NEW K \in Key \ {NoKey}, NEW L \in Key \ {NoKey},
               ServerKey(K)', ClientKey(L)', L[1] < K[1]
        PROVE  L[2] <= K[2]
    <3>1. ServerKey(K)
      BY <1>8, <2>2, Zenon
    <3>2. L # s.key
      <4>1. K[1] \in Nat /\ K[1] <= setups["client"]
        BY <3>1, ServerKeyFields, KeyFields, Zenon
      <4> QED
        BY <1>3, <1>10, <2>2, <4>1, SMT
    <3>3. ClientKey(L)
      BY <1>9, <2>2, <3>2, Zenon
    <3> QED
      BY <2>2, <3>1, <3>3, Zenon DEF HandshakeInv, KeysOK
  <2> QED
    BY <1>2, <2>1, <2>2, Zenon DEF KeysOK
<1>12. slot["server"].result = "OK" /\ slot["server"].key # NoKey
         => Completed(slot["server"].key)'
  <2>1. slot["server"].result = "OK" /\ slot["server"].key # NoKey
          => Completed(slot["server"].key)
    BY Zenon DEF HandshakeInv
  <2>2. PICK K : K = slot["server"].key
    BY Zenon
  <2>3. slot["server"].result = "OK" /\ slot["server"].key # NoKey => Completed(K)'
    BY <2>1, <2>2, CompletedStays, Zenon
  <2>4. slot'["server"].key = K
    BY <1>2, <2>2, Zenon
  <2> QED
    BY <2>3, <2>4, Zenon DEF Completed
<1>13. notices' \in Seq(Notice) /\ encryption' \in Security
  BY <1>1, Zenon DEF Grows
<1> QED
  BY <1>2, <1>6, <1>7, <1>11, <1>12, <1>13, Zenon DEF HandshakeInv, Counts

\* A step that changes at most the number of attempts of a slot, and after which
\* there is to send what was, or what says nothing new about a session key.
QuietMove ==
  /\ encryption' = encryption /\ setups' = setups /\ notices' = notices
  /\ slot' \in [Side -> SlotState]
  /\ \A p \in Side :
       /\ slot[p].result = "FREE" => slot'[p] = slot[p]
       /\ slot'[p].result = slot[p].result /\ slot'[p].expected = slot[p].expected
       /\ slot'[p].stage = slot[p].stage /\ slot'[p].kx = slot[p].kx
       /\ slot'[p].key = slot[p].key /\ slot'[p].pin = slot[p].pin
       /\ slot'[p].last = slot[p].last
  /\ \A m \in wire' :
       m \in Sendable \/ /\ MessageOK(m)
                         /\ m.to = "client" => m.key \in {NoKey, slot["server"].key}

\* Such a step keeps the invariant.
LEMMA QuietStep ==
  ASSUME HandshakeInv, QuietMove
  PROVE  HandshakeInv'
<1>0. "client" \in Side /\ "server" \in Side
  BY Zenon DEF Side
<1>1. \A p \in Side :
        /\ slot'[p].result = slot[p].result /\ slot'[p].expected = slot[p].expected
        /\ slot'[p].stage = slot[p].stage /\ slot'[p].kx = slot[p].kx
        /\ slot'[p].key = slot[p].key /\ slot'[p].pin = slot[p].pin
        /\ slot'[p].last = slot[p].last
  BY Zenon DEF QuietMove
<1>2. /\ setups' = setups /\ notices' = notices /\ encryption' = encryption
      /\ slot' \in [Side -> SlotState]
  BY Zenon DEF QuietMove
<1>3. \A m \in Sendable' :
        m \in Sendable \/ /\ MessageOK(m)
                          /\ m.to = "client" => m.key \in {NoKey, slot["server"].key}
  <2> SUFFICES ASSUME NEW m \in Sendable', m \notin wire'
               PROVE  m \in Sendable
    BY Zenon DEF QuietMove
  <2>1. PICK p \in Side : /\ slot'[p].result = "IN_PROGRESS" /\ slot'[p].last # NoPart
                          /\ m = Sealed(p, slot'[p].last, slot'[p].key)
    BY Zenon DEF Sendable
  <2>2. /\ slot[p].result = "IN_PROGRESS" /\ slot[p].last # NoPart
        /\ m = Sealed(p, slot[p].last, slot[p].key)
    BY <1>1, <2>1, Zenon
  <2> QED
    BY <2>2, Zenon DEF Sendable
<1>4. \A m \in Sendable' : MessageOK(m)'
  <2>1. \A m : MessageOK(m) => MessageOK(m)'
    BY <1>0, <1>1, <1>2 DEF MessageOK, Completed
  <2> QED
    BY <1>3, <2>1, Zenon DEF HandshakeInv
<1>5. \A p \in Side : SlotOK(p)'
  <2> SUFFICES ASSUME NEW p \in Side PROVE SlotOK(p)'
    BY Zenon
  <2>1. slot[p].result = "FREE" => slot'[p] = slot[p]
    BY Zenon DEF QuietMove
  <2>2. SlotOK(p)
    BY Zenon DEF HandshakeInv
  <2> QED
    BY <1>1, <1>2, <2>1, <2>2, Zenon DEF SlotOK
<1>6. RolesOK'
  BY <1>0, <1>1, <1>2 DEF HandshakeInv, RolesOK
<1>7. NoticesOK' /\ IdentityVerified'
  BY <1>0, <1>1, <1>2, Zenon DEF HandshakeInv, NoticesOK, IdentityVerified
<1>8. SucceedsOnce'
  <2>1. SucceedsOnce
    BY Zenon DEF HandshakeInv
  <2> QED
    BY <1>0, <1>1, <1>2, <2>1, Zenon DEF SucceedsOnce
<1>9. KeysOK'
  <2>1. ASSUME NEW K \in Key \ {NoKey}, ServerKey(K)'
        PROVE  ServerKey(K)
    <3>1. CASE \E m \in Sendable' : m.to = "client" /\ m.key = K
      BY <1>3, <3>1, Zenon DEF ServerKey
    <3>2. CASE K = slot'["server"].key \/ /\ slot'["client"].result = "OK"
                                          /\ slot'["client"].pin # "none"
                                          /\ K = slot'["client"].key
      BY <1>0, <1>1, <3>2, Zenon DEF ServerKey
    <3> QED
      BY <2>1, <3>1, <3>2, Zenon DEF ServerKey
  <2>2. \A L : ClientKey(L)' => ClientKey(L)
    BY <1>0, <1>1, <1>2, Zenon DEF ClientKey
  <2>3. slot'["server"].kx = slot["server"].kx /\ slot'["server"].key = slot["server"].key
    BY <1>0, <1>1, Zenon
  <2>4. KeysOK
    BY Zenon DEF HandshakeInv
  <2> QED
    BY <2>1, <2>2, <2>3, <2>4, Zenon DEF KeysOK
<1>10. slot'["server"].result = "OK" /\ slot'["server"].key # NoKey
         => Completed(slot["server"].key)'
  BY <1>0, <1>1, <1>2, Zenon DEF HandshakeInv, Completed
<1> QED
  BY <1>2, <1>4, <1>5, <1>6, <1>7, <1>8, <1>9, <1>10, Zenon DEF HandshakeInv

\* So does one that only moves a thread.
LEMMA Unmoved ==
  ASSUME HandshakeInv, encryption' = encryption, setups' = setups, slot' = slot, wire' = wire,
         notices' = notices
  PROVE  HandshakeInv'
<1>1. slot' \in [Side -> SlotState]
  BY Zenon DEF HandshakeInv
<1>2. \A m \in wire' : m \in Sendable
  BY Zenon DEF Sendable
<1>3. QuietMove
  BY <1>1, <1>2, Zenon DEF QuietMove
<1> QED
  BY <1>3, QuietStep, Zenon

\* A datagram is read without a change to the slot, and a plain answer may leave.
LEMMA ReadQuietly ==
  ASSUME HandshakeInv, NEW p \in Side, NEW m \in wire, NEW replies,
         Settle(p, m, slot[p], replies),
         encryption' = encryption, setups' = setups, notices' = notices,
         \A r \in replies : MessageOK(r) /\ r.key = NoKey
  PROVE  HandshakeInv'
<1>1. slot' = [slot EXCEPT ![p] = slot[p]] /\ wire' \subseteq wire \cup replies
  BY SettleFacts, Zenon
<1>2. slot \in [Side -> SlotState]
  BY Zenon DEF HandshakeInv
<1>3. slot' = slot
  BY <1>1, <1>2, Zenon
<1>4. \A x \in wire' : x \in Sendable \/ /\ MessageOK(x)
                                         /\ x.key \in {NoKey, slot["server"].key}
  BY <1>1, Zenon DEF Sendable
<1>5. QuietMove
  BY <1>2, <1>3, <1>4, Zenon DEF QuietMove
<1> QED
  BY <1>5, QuietStep, Zenon

\* A rejection says nothing about keys.
LEMMA RejectionOK ==
  ASSUME NEW p \in Side
  PROVE  LET r == Sealed(p, ErrorPart("NO_FREE_SLOTS"), NoKey) IN MessageOK(r) /\ r.key = NoKey
<1> DEFINE part == ErrorPart("NO_FREE_SLOTS")
           r == Sealed(p, part, NoKey)
<1>1. part \in PartState /\ part.op = "ERROR_OCCURRED" /\ part.stage \in Problem
  BY Zenon DEF ErrorPart, Part, PartState, Problem
<1>2. NoKey \in Key /\ Other(p) \in Side
  BY OtherSide, Zenon DEF Key, Side
<1> HIDE DEF part
<1>3. /\ r \in [to : Side, part : PartState, key : Key]
      /\ r.key = NoKey /\ r.part = part
  BY <1>1, <1>2, Zenon DEF Sealed
<1> HIDE DEF r
<1>4. MessageOK(r) /\ r.key = NoKey
  BY <1>1, <1>3, Zenon DEF MessageOK
<1> QED
  BY <1>4, Zenon DEF r, part

-----------------------------------------------------------------------------
(***************************************************************************)
(* The server.                                                             *)
(***************************************************************************)

\* A key of setups that took place.
Known(K) == K # NoKey => K[1] <= setups'["client"] /\ K[2] <= setups'["server"]

\* A message of the server, by what it says.
LEMMA ServerMessage ==
  ASSUME NEW part \in PartState, NEW K \in Key, Known(K),
         part.op = "ERROR_OCCURRED" => part.stage \in Problem,
         part.op = "AUTH_MSG" =>
           \/ part.stage = "KEY_EXCHANGE" /\ part.kx \in 1 .. setups'["server"]
           \/ part.stage = "NONE" /\ K # NoKey
           \/ /\ part.stage = "AUTHENTICATION" /\ K # NoKey
              /\ part.flag /\ K[1] = slot'["client"].kx => slot'["client"].pin = "right"
  PROVE  MessageOK(Sealed("server", part, K))'
<1> DEFINE m == Sealed("server", part, K)
<1>1. m.to = "client" /\ m.part = part /\ m.key = K /\ Other(m.to) = "server"
  BY SealedFields, OtherSide, SMT
<1>2. m \in [to : Side, part : PartState, key : Key]
  BY OtherSide, Zenon DEF Sealed, Side
<1> HIDE DEF m
<1>3. MessageOK(m)'
  BY <1>1, <1>2, Zenon DEF MessageOK, Known
<1> QED
  BY <1>3, Zenon DEF m

\* A slot of the server in the middle of a handshake, after a step that did not
\* replace a session key.
ServerSlot(t) ==
  /\ t \in SlotState
  /\ t.result = "IN_PROGRESS" /\ t.kx = setups'["server"] /\ t.kx > 0
  /\ t.key # NoKey => t.expected = "AUTH_MSG" /\ Known(t.key) /\ t.key[2] = t.kx
  /\ t.stage # "KEY_EXCHANGE" <=> t.key # NoKey
  /\ t.expected # "INITIAL_SERVER"
  /\ \/ t.kx = slot["server"].kx /\ slot["server"].key \in {NoKey, t.key}
     \/ t.kx > setups["server"]

\* What every step of the server in which it reads m leaves alone.
ServerReads(m) ==
  /\ HandshakeInv /\ Counts /\ setups'["client"] = setups["client"]
  /\ encryption' = encryption
  /\ m \in wire /\ m.to = "server"

\* The constants of the slots are well formed.
LEMMA FreeSlotType == FreeSlot \in SlotState /\ FreeSlot.key = NoKey
<1>1. NoKey \in Key /\ 0 \in 0 .. CONNECT_RETRY_COUNT
  BY RetryAssumption, SMT DEF Key
<1>2. NoPart \in PartState
  BY Zenon DEF NoPart, Part, PartState
<1> QED
  BY <1>1, <1>2, Zenon DEF FreeSlot, SlotState

\* The server sends a part of its own.
LEMMA ServerReplies ==
  ASSUME NEW m, ServerReads(m), NEW t, ServerSlot(t), NEW part \in PartState, NEW K,
         K \in {NoKey, t.key}, Reply("server", m, t, part, K),
         MessageOK(Sealed("server", part, K))', MessageOK(Sealed("server", part, t.key))'
  PROVE  HandshakeInv'
<1> DEFINE s == [t EXCEPT !.last = part, !.attempts = 1]
           r == Sealed("server", part, K)
<1>1. 1 \in 0 .. CONNECT_RETRY_COUNT
  BY RetryAssumption, SMT
<1>2. /\ s \in SlotState /\ s.result = "IN_PROGRESS" /\ s.expected = t.expected
      /\ s.stage = t.stage /\ s.kx = t.kx /\ s.key = t.key /\ s.last = part
  BY <1>1, Zenon DEF ServerSlot, SlotState
<1>3. r.to = "client" /\ r.key = K
  BY SealedFields, SMT
<1>4. Settle("server", m, s, {r}) /\ notices' = notices
  BY Zenon DEF Reply
<1> HIDE DEF s, r
<1>5. slot' = [slot EXCEPT !["server"] = s] /\ wire' \subseteq wire \cup {r}
  BY <1>4, SettleFacts, Zenon DEF ServerReads
<1>6. slot'["server"] = s
  BY <1>5, Zenon DEF ServerReads, HandshakeInv, Side
<1>7. SlotOK("server")'
  BY <1>2, <1>6, Zenon DEF SlotOK, ServerSlot, Known
<1>8. MessageOK(r)' /\ MessageOK(Sealed("server", s.last, s.key))'
  <2>1. MessageOK(r)'
    BY Zenon DEF r
  <2>2. MessageOK(Sealed("server", part, t.key))'
    BY Zenon
  <2> QED
    BY <1>2, <2>1, <2>2, Zenon
<1>9. \A x \in {r} : /\ MessageOK(x)' /\ x.to = "client"
                     /\ x.key \in {NoKey, slot["server"].key, s.key}
  BY <1>2, <1>3, <1>8, Zenon
<1>10. /\ s.expected # "INITIAL_SERVER" /\ s.result # "OK"
       /\ \/ s.kx = slot["server"].kx /\ slot["server"].key \in {NoKey, s.key}
          \/ s.kx > setups["server"]
  BY <1>2, Zenon DEF ServerSlot
<1>11. /\ HandshakeInv /\ Counts /\ setups'["client"] = setups["client"]
       /\ encryption' = encryption
  BY Zenon DEF ServerReads
<1>12. ServerMove(s, {r})
  BY <1>2, <1>4, <1>5, <1>7, <1>8, <1>9, <1>10, <1>11, Zenon DEF ServerMove
<1> QED
  BY <1>11, <1>12, ServerStep, Zenon

\* The server's handshake succeeds.
LEMMA ServerSucceeds ==
  ASSUME NEW m, ServerReads(m), NEW t, ServerSlot(t), NEW replies,
         Succeed("server", m, t, replies),
         t.key # NoKey => Completed(t.key),
         \A r \in replies : MessageOK(r)' /\ r.to = "client" /\ r.key \in {NoKey, t.key}
  PROVE  HandshakeInv'
<1> DEFINE s == [t EXCEPT !.result = "OK", !.last = NoPart, !.attempts = 0]
<1>1. NoPart \in PartState /\ 0 \in 0 .. CONNECT_RETRY_COUNT
  BY RetryAssumption, SMT DEF NoPart, Part, PartState
<1>2. /\ s \in SlotState /\ s.result = "OK" /\ s.expected = t.expected
      /\ s.stage = t.stage /\ s.kx = t.kx /\ s.key = t.key
  BY <1>1, Zenon DEF ServerSlot, SlotState
<1>3. Settle("server", m, s, replies) /\ notices' = notices
  BY Zenon DEF Succeed, Report
<1> HIDE DEF s
<1>4. slot' = [slot EXCEPT !["server"] = s] /\ wire' \subseteq wire \cup replies
  BY <1>3, SettleFacts, Zenon DEF ServerReads
<1>5. slot'["server"] = s
  BY <1>4, Zenon DEF ServerReads, HandshakeInv, Side
<1>6. SlotOK("server")'
  BY <1>2, <1>5, Zenon DEF SlotOK, ServerSlot, Known
<1>7. \A r \in replies : /\ MessageOK(r)' /\ r.to = "client"
                         /\ r.key \in {NoKey, slot["server"].key, s.key}
  BY <1>2, Zenon
<1>8. /\ s.expected # "INITIAL_SERVER" /\ s.result # "IN_PROGRESS"
      /\ s.key # NoKey => Completed(s.key)
      /\ \/ s.kx = slot["server"].kx /\ slot["server"].key \in {NoKey, s.key}
         \/ s.kx > setups["server"]
  BY <1>2, Zenon DEF ServerSlot
<1>9. /\ HandshakeInv /\ Counts /\ setups'["client"] = setups["client"]
      /\ encryption' = encryption
  BY Zenon DEF ServerReads
<1>10. ServerMove(s, replies)
  BY <1>2, <1>3, <1>4, <1>6, <1>7, <1>8, <1>9, Zenon DEF ServerMove
<1> QED
  BY <1>9, <1>10, ServerStep, Zenon

\* The server's slot is reset.
LEMMA ServerResets ==
  ASSUME NEW m, ServerReads(m), NEW replies,
         Settle("server", m, FreeSlot, replies), notices' = notices,
         \A r \in replies : /\ MessageOK(r)' /\ r.to = "client"
                            /\ r.key \in {NoKey, slot["server"].key}
  PROVE  HandshakeInv'
<1>1. slot' = [slot EXCEPT !["server"] = FreeSlot] /\ wire' \subseteq wire \cup replies
  BY SettleFacts, Zenon DEF ServerReads
<1>2. slot'["server"] = FreeSlot
  BY <1>1, Zenon DEF ServerReads, HandshakeInv, Side
<1>3. /\ FreeSlot.result = "FREE" /\ FreeSlot.kx = 0 /\ FreeSlot.stage = "KEY_EXCHANGE"
      /\ FreeSlot.expected # "INITIAL_SERVER" /\ FreeSlot.key = NoKey
  BY Zenon DEF FreeSlot
<1>4. SlotOK("server")'
  BY <1>2, <1>3, Zenon DEF SlotOK
<1>5. \A r \in replies : /\ MessageOK(r)' /\ r.to = "client"
                         /\ r.key \in {NoKey, slot["server"].key, FreeSlot.key}
  BY Zenon
<1>6. /\ HandshakeInv /\ Counts /\ setups'["client"] = setups["client"]
      /\ encryption' = encryption
  BY Zenon DEF ServerReads
<1>7. FreeSlot.result # "OK" /\ FreeSlot.result # "IN_PROGRESS"
  BY <1>3, Zenon
<1>8. ServerMove(FreeSlot, replies)
  BY <1>1, <1>3, <1>4, <1>5, <1>6, <1>7, FreeSlotType, Zenon DEF ServerMove
<1> QED
  BY <1>6, <1>8, ServerStep, Zenon

\* The server discards what it read.
LEMMA ServerKeeps ==
  ASSUME NEW m, ServerReads(m), NEW s, ServerSlot(s),
         s.last # NoPart => MessageOK(Sealed("server", s.last, s.key))',
         Settle("server", m, s, {}), notices' = notices
  PROVE  HandshakeInv'
<1>1. slot' = [slot EXCEPT !["server"] = s] /\ wire' \subseteq wire \cup {}
  BY SettleFacts, Zenon DEF ServerReads
<1>2. slot'["server"] = s
  BY <1>1, Zenon DEF ServerReads, HandshakeInv, Side
<1>3. SlotOK("server")'
  BY <1>2, Zenon DEF SlotOK, ServerSlot, Known
<1>4. /\ HandshakeInv /\ Counts /\ setups'["client"] = setups["client"]
      /\ encryption' = encryption
  BY Zenon DEF ServerReads
<1>5. /\ s \in SlotState /\ s.expected # "INITIAL_SERVER" /\ s.result # "OK"
      /\ \/ s.kx = slot["server"].kx /\ slot["server"].key \in {NoKey, s.key}
         \/ s.kx > setups["server"]
  BY Zenon DEF ServerSlot
<1>6. ServerMove(s, {})
  BY <1>1, <1>3, <1>4, <1>5, Zenon DEF ServerMove
<1> QED
  BY <1>4, <1>6, ServerStep, Zenon

\* Handle at the server keeps the invariant.  s is the slot or, for a new peer, a
\* fresh one.
LEMMA ServerHandles ==
  ASSUME NEW m, ServerReads(m), NEW s, ServerSlot(s), m.key = s.key,
         s.key \in {NoKey, slot["server"].key},
         s.last # NoPart => MessageOK(Sealed("server", s.last, s.key))',
         Handle("server", s, m)
  PROVE  HandshakeInv'
<1>0. /\ MessageOK(m) /\ m.part \in PartState /\ m.to = "server"
      /\ setups["client"] \in Nat /\ setups["client"] <= MaxConnects
      /\ setups'["client"] = setups["client"]
      /\ setups'["server"] \in Nat /\ setups'["server"] <= MaxIncoming
  BY Zenon DEF ServerReads, HandshakeInv, Sendable, MessageOK, Counts, Side
<1>1. /\ s \in SlotState /\ s.key \in Key /\ s.kx \in Nat /\ s.kx > 0 /\ s.kx = setups'["server"]
      /\ s.result = "IN_PROGRESS" /\ Known(s.key)
  BY Zenon DEF ServerSlot, SlotState, Known
<1>2. NoKey \in Key /\ Known(NoKey)
  BY Zenon DEF Key, Known
<1>3. Blank \in PartState /\ Blank.op = "AUTH_MSG" /\ Blank.stage = "NONE"
  BY Zenon DEF Blank, Part, PartState
<1>4. CASE HandleInitialClient("server", s, m)
  <2>1. s.key = NoKey /\ s.stage = "KEY_EXCHANGE"
    BY <1>4, Zenon DEF HandleInitialClient, ServerSlot
  <2>2. ASSUME NEW problem \in Problem,
               Fail("server", m, s, {Sealed("server", ErrorPart(problem), NoKey)}, problem)
        PROVE  HandshakeInv'
    <3> DEFINE r == Sealed("server", ErrorPart(problem), NoKey)
    <3>1. /\ ErrorPart(problem) \in PartState /\ ErrorPart(problem).op = "ERROR_OCCURRED"
          /\ ErrorPart(problem).stage = problem
      BY Zenon DEF ErrorPart, Part, PartState
    <3>2. MessageOK(r)'
      BY <1>2, <3>1, ServerMessage, Zenon
    <3>3. r.to = "client" /\ r.key = NoKey
      BY SealedFields, SMT
    <3>4. Settle("server", m, FreeSlot, {r}) /\ notices' = notices
      BY <2>2, Zenon DEF Fail, AfterFailure, Report
    <3> HIDE DEF r
    <3> QED
      BY <3>2, <3>3, <3>4, ServerResets, Zenon
  <2>3. ASSUME NEW e \in {"AUTH_MSG", "UNENCRYPTED_ACK"}, NEW flag \in BOOLEAN,
               Reply("server", m, [s EXCEPT !.expected = e],
                     Part("INITIAL_SERVER", "NONE", 0, flag), NoKey)
        PROVE  HandshakeInv'
    <3> DEFINE t == [s EXCEPT !.expected = e]
               part == Part("INITIAL_SERVER", "NONE", 0, flag)
    <3>1. /\ t \in SlotState /\ t.result = s.result /\ t.expected = e /\ t.kx = s.kx
          /\ t.key = NoKey /\ t.stage = "KEY_EXCHANGE"
      BY <1>1, <2>1, Zenon DEF SlotState
    <3>2. part \in PartState /\ part.op = "INITIAL_SERVER"
      BY Zenon DEF Part, PartState
    <3>3. Reply("server", m, t, part, NoKey)
      BY <2>3, Zenon
    <3> HIDE DEF t, part
    <3>4. ServerSlot(t)
      BY <2>1, <3>1, Zenon DEF ServerSlot
    <3>5. MessageOK(Sealed("server", part, NoKey))'
      BY <1>2, <3>2, ServerMessage, Zenon
    <3> QED
      BY <3>1, <3>2, <3>3, <3>4, <3>5, ServerReplies, Zenon
  <2>4. "INCOMPATIBLE_SECURITY" \in Problem /\ encryption["server"] \in BOOLEAN
    BY SecurityAssumption, Zenon DEF Problem, ServerReads, HandshakeInv, Side
  <2> QED
    BY <1>4, <2>2, <2>3, <2>4, Zenon DEF HandleInitialClient
<1>5. CASE HandleInitialServer("server", s, m)
  BY <1>5, Zenon DEF HandleInitialServer, ServerSlot
<1>6. CASE HandleAck("server", s, m)
  <2>1. s.key = NoKey
    BY <1>6, Zenon DEF HandleAck, ServerSlot
  <2> QED
    BY <1>6, <2>1, ServerSucceeds, SMT DEF HandleAck
<1>7. CASE HandleError("server", s, m)
  <2>1. Settle("server", m, FreeSlot, {}) /\ notices' = notices
    BY <1>7, Zenon DEF HandleError, Fail, AfterFailure, Report
  <2> QED
    BY <2>1, ServerResets, SMT
<1>8. CASE HandleMismatch("server", s, m)
  <2>1. Settle("server", m, s, {}) /\ notices' = notices
    BY <1>8, Zenon DEF HandleMismatch
  <2> QED
    BY <2>1, ServerKeeps, Zenon
<1>9. CASE HandleAuthMsg("server", s, m)
  <2>0. m.part.op = "AUTH_MSG" /\ s.expected = "AUTH_MSG"
    BY <1>9, Zenon DEF HandleAuthMsg
  <2>1. ASSUME KeyExchangeServer("server", s, m)
        PROVE  HandshakeInv'
    <3> DEFINE K == <<m.part.kx, s.kx>>
               stage == IF m.part.flag THEN "AUTHENTICATION" ELSE "DONE"
               t == [s EXCEPT !.key = K, !.stage = stage]
               part == Part("AUTH_MSG", "KEY_EXCHANGE", s.kx, FALSE)
    <3>1. s.key = NoKey /\ m.key = NoKey
      BY <2>1, Zenon DEF KeyExchangeServer, ServerSlot
    <3>2. m.part.kx \in 1 .. setups["client"]
      BY <1>0, <2>0, <3>1, OtherSide, Zenon DEF MessageOK
    <3>3. K \in Key /\ K # NoKey /\ K[1] = m.part.kx /\ K[2] = s.kx
      BY <1>0, <1>1, <3>2, BoundAssumption, SMTT(30) DEF Key, NoKey
    <3>4. Known(K)
      BY <1>0, <1>1, <3>2, <3>3, SMT DEF Known
    <3>5. part \in PartState /\ part.op = "AUTH_MSG" /\ part.stage = "KEY_EXCHANGE" /\ part.kx = s.kx
      BY <1>1, Zenon DEF Part, PartState
    <3>6. Reply("server", m, t, part, NoKey)
      BY <2>1, Zenon DEF KeyExchangeServer
    <3>7. stage \in {"AUTHENTICATION", "DONE"}
      BY Zenon
    <3> HIDE DEF K, stage, part
    <3>8. /\ t \in SlotState /\ t.result = s.result /\ t.expected = s.expected /\ t.kx = s.kx
          /\ t.key = K /\ t.stage = stage
      BY <1>1, <3>3, <3>7, Zenon DEF SlotState
    <3> HIDE DEF t
    <3>9. ServerSlot(t)
      BY <1>1, <2>0, <3>1, <3>3, <3>4, <3>7, <3>8, Zenon DEF ServerSlot
    <3>10. part.kx \in 1 .. setups'["server"]
      BY <1>0, <1>1, <3>5, SMT
    <3>11. MessageOK(Sealed("server", part, NoKey))' /\ MessageOK(Sealed("server", part, t.key))'
      BY <1>2, <3>3, <3>4, <3>5, <3>8, <3>10, ServerMessage, Zenon
    <3> QED
      BY <3>5, <3>6, <3>9, <3>11, ServerReplies, Zenon
  <2>2. ASSUME ChallengeIncoming("server", s, m), InStage(s, m.part)
        PROVE  HandshakeInv'
    <3> DEFINE answer == Part("AUTH_MSG", "AUTHENTICATION", 0, m.part.flag)
               r == Sealed("server", answer, s.key)
    <3>1. s.key # NoKey /\ s.stage = "AUTHENTICATION"
      BY <2>2, Zenon DEF ChallengeIncoming, ServerSlot
    <3>2. m.part.stage = "AUTHENTICATION"
      BY <2>2, <3>1, Zenon DEF InStage
    <3>3. slot'["client"] = slot["client"]
      <4>1. \E x, replies : Settle("server", m, x, replies)
        BY <2>2, Zenon DEF ChallengeIncoming, Reply, Fail
      <4>2. \E x : slot' = [slot EXCEPT !["server"] = x]
        BY <4>1, Zenon DEF Settle
      <4> QED
        BY <4>2, Zenon DEF ServerReads, HandshakeInv, Side
    <3>4. m.part.flag /\ s.key[1] = slot'["client"].kx => slot'["client"].pin = "right"
      BY <1>0, <2>0, <3>2, <3>3, ZenonT(40) DEF MessageOK
    <3>5. /\ answer \in PartState /\ answer.op = "AUTH_MSG"
          /\ answer.stage = "AUTHENTICATION" /\ answer.flag = m.part.flag
      BY <1>0, Zenon DEF Part, PartState
    <3>6. r.to = "client" /\ r.key = s.key
      BY SealedFields, SMT
    <3>7. /\ \/ Reply("server", m, [s EXCEPT !.stage = "DONE"], answer, s.key)
             \/ Settle("server", m, FreeSlot, {r}) /\ notices' = notices
      BY <2>2, Zenon DEF ChallengeIncoming, Fail, AfterFailure, Report
    <3> HIDE DEF answer
    <3>8. MessageOK(Sealed("server", answer, s.key))'
      BY <1>1, <3>1, <3>4, <3>5, ServerMessage, Zenon
    <3>9. CASE Reply("server", m, [s EXCEPT !.stage = "DONE"], answer, s.key)
      <4> DEFINE t == [s EXCEPT !.stage = "DONE"]
      <4>1. /\ t \in SlotState /\ t.result = s.result /\ t.expected = s.expected /\ t.kx = s.kx
            /\ t.key = s.key /\ t.stage = "DONE"
        BY <1>1, Zenon DEF SlotState
      <4>2. Reply("server", m, t, answer, s.key)
        BY <3>9, Zenon
      <4> HIDE DEF t
      <4>3. ServerSlot(t)
        BY <3>1, <4>1, Zenon DEF ServerSlot
      <4> QED
        BY <3>5, <3>8, <4>1, <4>2, <4>3, ServerReplies, Zenon
    <3>10. CASE Settle("server", m, FreeSlot, {r}) /\ notices' = notices
      <4>1. MessageOK(r)' /\ r.to = "client" /\ r.key = slot["server"].key
        BY <3>1, <3>6, <3>8, Zenon
      <4> HIDE DEF r
      <4> QED
        BY <3>10, <4>1, ServerResets, Zenon
    <3> QED
      BY <3>7, <3>9, <3>10, Zenon
  <2>3. ASSUME AuthDone("server", s, m), InStage(s, m.part)
        PROVE  HandshakeInv'
    <3> DEFINE r == Sealed("server", Blank, s.key)
    <3>1. s.stage = "DONE" /\ s.key # NoKey
      BY <2>3, Zenon DEF AuthDone, ServerSlot
    <3>2. m.part.stage = "DONE"
      BY <2>3, <3>1, Zenon DEF InStage
    <3>3. Completed(s.key)
      BY <1>0, <2>0, <3>2, ZenonT(40) DEF MessageOK
    <3>4. MessageOK(r)' /\ r.to = "client" /\ r.key = s.key
      BY <1>1, <1>3, <3>1, ServerMessage, SealedFields, SMT
    <3>5. Succeed("server", m, s, {r})
      BY <2>3, Zenon DEF AuthDone
    <3> HIDE DEF r
    <3> QED
      BY <3>3, <3>4, <3>5, ServerSucceeds, SMT
  <2>4. ASSUME ~ InStage(s, m.part), Reply("server", m, s, Blank, s.key)
        PROVE  HandshakeInv'
    <3>1. s.key # NoKey
      BY <1>0, <2>0, <2>4, ZenonT(40) DEF MessageOK, InStage, ServerSlot
    <3>2. MessageOK(Sealed("server", Blank, s.key))'
      BY <1>1, <1>3, <3>1, ServerMessage, Zenon
    <3> QED
      BY <1>3, <2>4, <3>2, ServerReplies, Zenon
  <2>5. ~ KeyExchangeClient("server", s, m) /\ ~ ChallengeResponse("server", s, m)
    BY Zenon DEF KeyExchangeClient, ChallengeResponse
  <2> QED
    BY <1>9, <2>1, <2>2, <2>3, <2>4, <2>5, Zenon DEF HandleAuthMsg
<1> QED
  BY <1>4, <1>5, <1>6, <1>7, <1>8, <1>9, Zenon DEF Handle


\* The server handles a part that waited for the lock.
LEMMA ServerHandling ==
  ASSUME HandshakeInv, NEW m \in wire, m.to = "server", m.key = slot["server"].key,
         slot["server"].result = "IN_PROGRESS", encryption' = encryption, setups' = setups,
         Handle("server", slot["server"], m)
  PROVE  HandshakeInv'
<1>1. /\ slot["server"] \in SlotState /\ setups \in [Side -> Nat]
      /\ setups["client"] <= MaxConnects /\ setups["server"] <= MaxIncoming
      /\ SlotOK("server") /\ slot["server"].expected # "INITIAL_SERVER"
      /\ "server" \in Side /\ "client" \in Side
  BY Zenon DEF HandshakeInv, RolesOK, Side
<1>2. ServerReads(m)
  BY <1>1, SMT DEF Counts, ServerReads
<1>3. PICK s : s = slot["server"]
  BY Zenon
<1>4. ServerSlot(s)
  <2>1. s.key # NoKey => Known(s.key)
    BY <1>1, <1>3, Zenon DEF SlotOK, Known
  <2> QED
    BY <1>1, <1>3, <2>1, Zenon DEF SlotOK, ServerSlot
<1>5. ASSUME s.last # NoPart
      PROVE  MessageOK(Sealed("server", s.last, s.key))'
  <2>1. Sealed("server", s.last, s.key) \in Sendable
    BY <1>1, <1>3, <1>5, Zenon DEF Sendable
  <2>2. MessageOK(Sealed("server", s.last, s.key))
    BY <2>1, Zenon DEF HandshakeInv
  <2>3. notices' = notices /\ slot'["client"] = slot["client"]
    <3>1. notices' = notices /\ \E x, replies : Settle("server", m, x, replies)
      BY Zenon DEF Handle, HandleInitialClient, HandleInitialServer, HandleAck, HandleError,
                  HandleAuthMsg, HandleMismatch, KeyExchangeServer, KeyExchangeClient,
                  ChallengeIncoming, ChallengeResponse, AuthDone, Succeed, Fail, Reply,
                  Report
    <3>2. \E x : slot' = [slot EXCEPT !["server"] = x]
      BY <3>1, Zenon DEF Settle
    <3> QED
      BY <3>1, <3>2, Zenon DEF HandshakeInv, Side
  <2>4. Grows /\ Counts
    BY <1>2, <2>3, Zenon DEF Grows, ServerReads, HandshakeInv
  <2> QED
    BY <1>1, <2>2, <2>3, <2>4, MessageStays, Zenon
<1> QED
  BY <1>2, <1>3, <1>4, <1>5, ServerHandles, Zenon

\* The server sets a slot up for a new peer.
LEMMA SettingUp ==
  ASSUME HandshakeInv, encryption' = encryption, NEW m, OnNewIncomingPeer("server", m)
  PROVE  HandshakeInv'
<1> DEFINE s == Fresh("server", "none")
<1>1. /\ setups \in [Side -> Nat] /\ setups["client"] <= MaxConnects
      /\ slot \in [Side -> SlotState] /\ "server" \in Side /\ "client" \in Side
  BY Zenon DEF HandshakeInv, Side
<1>2. /\ setups' = [setups EXCEPT !["server"] = @ + 1] /\ setups["server"] < MaxIncoming
      /\ slot' = [slot EXCEPT !["server"] = s] /\ wire' = wire /\ notices' = notices
  BY Zenon DEF OnNewIncomingPeer, Waits
<1>3. /\ s \in SlotState /\ s.result = "IN_PROGRESS" /\ s.kx = setups["server"] + 1
      /\ s.key = NoKey /\ s.stage = "KEY_EXCHANGE" /\ s.expected = "NOT_STARTED"
      /\ s.last = NoPart
  <2>1. setups["server"] + 1 \in Nat
    BY <1>1, SMT
  <2> QED
    BY <2>1, FreeSlotType, Zenon DEF Fresh, FreeSlot, SlotState
<1> HIDE DEF s
<1>4. /\ setups'["server"] = setups["server"] + 1 /\ setups'["client"] = setups["client"]
      /\ setups' \in [Side -> Nat] /\ setups["server"] \in Nat /\ MaxIncoming \in Nat
  BY <1>1, <1>2, BoundAssumption, SMT
<1>5. Counts
  BY <1>1, <1>2, <1>4, SMT DEF Counts, Side
<1>6. slot'["server"] = s /\ s.kx > setups["server"] /\ s.kx > 0
  BY <1>1, <1>2, <1>3, <1>4, SMT
<1>7. SlotOK("server")'
  BY <1>3, <1>4, <1>6, Zenon DEF SlotOK
<1>8. wire' \subseteq wire \cup {}
  BY <1>2, Zenon
<1>9. s.expected # "INITIAL_SERVER" /\ s.result # "OK"
  BY <1>3, Zenon
<1>10. ServerMove(s, {})
  BY <1>2, <1>3, <1>4, <1>5, <1>6, <1>7, <1>8, <1>9, Zenon DEF ServerMove
<1> QED
  BY <1>10, ServerStep, Zenon

-----------------------------------------------------------------------------
(***************************************************************************)
(* The client.                                                             *)
(***************************************************************************)

\* A message of the client, by what it says.
LEMMA ClientMessage ==
  ASSUME NEW part \in PartState, NEW K \in Key, Known(K),
         part.op # "ERROR_OCCURRED",
         part.op = "AUTH_MSG" =>
           \/ part.stage = "KEY_EXCHANGE" /\ part.kx \in 1 .. setups'["client"]
           \/ part.stage = "NONE" /\ K # NoKey
           \/ part.stage = "DONE" /\ K # NoKey /\ Completed(K)'
           \/ /\ part.stage = "AUTHENTICATION" /\ K # NoKey
              /\ part.flag /\ K[1] = slot'["client"].kx => slot'["client"].pin = "right"
  PROVE  MessageOK(Sealed("client", part, K))'
<1> DEFINE m == Sealed("client", part, K)
<1>1. m.to = "server" /\ m.part = part /\ m.key = K /\ Other(m.to) = "client"
  BY SealedFields, OtherSide, SMT
<1>2. m \in [to : Side, part : PartState, key : Key]
  BY OtherSide, Zenon DEF Sealed, Side
<1> HIDE DEF m
<1>3. MessageOK(m)'
  BY <1>1, <1>2, Zenon DEF MessageOK, Known
<1> QED
  BY <1>3, Zenon DEF m

\* What every step of the client with an attempt in progress leaves alone.
ClientActs ==
  /\ HandshakeInv /\ encryption' = encryption /\ setups' = setups
  /\ slot["client"].result = "IN_PROGRESS"

\* A slot of the client with the key pair and the pin of the current attempt.
ClientSlot(t) ==
  /\ t \in SlotState /\ t.result = "IN_PROGRESS"
  /\ t.kx = slot["client"].kx /\ t.pin = slot["client"].pin
  /\ t.key # NoKey => t.expected = "AUTH_MSG" /\ Known(t.key) /\ t.key[1] = t.kx
  /\ t.stage # "KEY_EXCHANGE" => t.key # NoKey
  /\ t.stage # "DONE"
  /\ t.expected \in {"INITIAL_SERVER", "AUTH_MSG"}

\* The slot as it is.
LEMMA ClientSlotNow ==
  ASSUME ClientActs
  PROVE  /\ ClientSlot(slot["client"])
         /\ slot["client"].kx = setups["client"] /\ setups["client"] > 0
         /\ slot["client"].stage = "KEY_EXCHANGE" => slot["client"].key = NoKey
<1>1. "client" \in Side /\ slot["client"] \in SlotState
  BY Zenon DEF ClientActs, HandshakeInv, Side
<1>2. SlotOK("client") /\ RolesOK
  BY <1>1, Zenon DEF ClientActs, HandshakeInv
<1>3. slot["client"].key # NoKey => Known(slot["client"].key)
  BY <1>2, Zenon DEF SlotOK, Known, ClientActs
<1> QED
  BY <1>1, <1>2, <1>3, Zenon DEF SlotOK, RolesOK, ClientActs, ClientSlot

\* The end of an attempt is reported.  A success is the first one of it.
LEMMA ReportStep ==
  ASSUME HandshakeInv, setups' = setups, NEW K \in Key, NEW result \in Problem \cup {"OK"},
         slot["client"].result # "FREE", slot["client"].result # "OK",
         K # NoKey => K[1] = slot["client"].kx /\ K[2] <= setups["server"],
         notices' = Append(notices, [attempt |-> slot["client"].kx, result |-> result, key |-> K]),
         slot'["client"].kx \in {0, slot["client"].kx},
         result = "OK" => slot'["client"].result = "OK"
  PROVE  /\ Grows /\ NoticesOK' /\ SucceedsOnce'
         /\ DOMAIN notices' = DOMAIN notices \cup {Len(notices) + 1}
         /\ notices'[Len(notices) + 1].attempt = slot["client"].kx
         /\ notices'[Len(notices) + 1].result = result
         /\ notices'[Len(notices) + 1].key = K
<1> DEFINE n == [attempt |-> slot["client"].kx, result |-> result, key |-> K]
           new == Len(notices) + 1
<1>0. /\ notices \in Seq(Notice) /\ NoticesOK /\ SucceedsOnce /\ setups["client"] \in Nat
      /\ slot["client"].kx = setups["client"] /\ setups["client"] > 0
  BY Zenon DEF HandshakeInv, SlotOK, Side
<1>1. n \in Notice /\ n.attempt = slot["client"].kx /\ n.result = result /\ n.key = K
  BY <1>0, Zenon DEF Notice
<1>2. notices' = Append(notices, n)
  BY Zenon
<1> HIDE DEF n
<1>3. /\ notices' \in Seq(Notice) /\ DOMAIN notices' = 1 .. new /\ DOMAIN notices = 1 .. Len(notices)
      /\ Len(notices) \in Nat /\ notices'[new] = n
      /\ \A k \in 1 .. Len(notices) : notices'[k] = notices[k]
  BY <1>0, <1>1, <1>2, SMT
<1>4. /\ DOMAIN notices' = DOMAIN notices \cup {new} /\ new \notin DOMAIN notices
      /\ \A k \in DOMAIN notices : notices'[k] = notices[k]
  BY <1>3, SMT
<1> HIDE DEF new
<1>5. Grows
  BY <1>3, <1>4, Zenon DEF Grows
<1>6. NoticesOK'
  <2> SUFFICES ASSUME NEW k \in DOMAIN notices'
               PROVE  /\ notices'[k].attempt \in 1 .. setups["client"]
                      /\ notices'[k].key # NoKey => /\ notices'[k].key[1] = notices'[k].attempt
                                                    /\ notices'[k].key[2] <= setups["server"]
    BY <1>0, Zenon DEF NoticesOK
  <2>1. CASE k \in DOMAIN notices
    BY <1>0, <1>4, <2>1, Zenon DEF NoticesOK
  <2>2. CASE k = new
    BY <1>0, <1>1, <1>3, <2>2, SMT
  <2> QED
    BY <1>4, <2>1, <2>2, Zenon
<1>7. SucceedsOnce'
  <2>1. \A k \in DOMAIN notices : /\ notices'[k] = notices[k]
                                  /\ notices[k].attempt \in Nat /\ notices[k].attempt > 0
    BY <1>0, <1>4, SMT DEF NoticesOK
  <2>2. \A k \in DOMAIN notices : notices[k].attempt # 0
    BY <2>1, SMT
  <2>3. \A k \in DOMAIN notices : notices[k].result = "OK" => notices[k].attempt # slot["client"].kx
    BY <1>0, Zenon DEF SucceedsOnce
  <2>4. /\ notices'[new].attempt = slot["client"].kx
        /\ notices'[new].result = "OK" => slot'["client"].result = "OK"
    BY <1>1, <1>3, Zenon
  <2> SUFFICES ASSUME NEW k \in DOMAIN notices', notices'[k].result = "OK"
               PROVE  /\ \A j \in DOMAIN notices' :
                           notices'[j].result = "OK" /\ notices'[j].attempt = notices'[k].attempt
                             => j = k
                      /\ notices'[k].attempt = slot'["client"].kx => slot'["client"].result = "OK"
    BY Zenon DEF SucceedsOnce
  <2>5. CASE k \in DOMAIN notices
    <3>1. notices[k].result = "OK" /\ notices'[k].attempt = notices[k].attempt
      BY <2>1, <2>5, Zenon
    <3>2. notices[k].attempt # slot["client"].kx /\ notices[k].attempt # 0
      BY <2>2, <2>3, <2>5, <3>1, Zenon
    <3>3. \A j \in DOMAIN notices :
            notices'[j].result = "OK" /\ notices'[j].attempt = notices[k].attempt => j = k
      BY <1>0, <2>1, <2>5, <3>1, Zenon DEF SucceedsOnce
    <3> QED
      BY <1>4, <2>4, <3>1, <3>2, <3>3, Zenon
  <2>6. CASE k = new
    <3>1. \A j \in DOMAIN notices :
            notices'[j].result = "OK" => notices'[j].attempt # slot["client"].kx
      BY <2>1, <2>3, Zenon
    <3> QED
      BY <1>4, <2>4, <2>6, <3>1, Zenon
  <2> QED
    BY <1>4, <2>5, <2>6, Zenon
<1> QED
  BY <1>1, <1>3, <1>4, <1>5, <1>6, <1>7, Zenon DEF new

\* Steps that leave the setups alone count none.
LEMMA CountsSame ==
  ASSUME HandshakeInv, setups' = setups
  PROVE  Counts /\ setups'["server"] = setups["server"]
BY SMT DEF HandshakeInv, Counts

\* Steps without a notice keep what the notices say about the slot.
LEMMA SilentStep ==
  ASSUME HandshakeInv, setups' = setups, notices' = notices,
         \/ slot'["client"].kx = 0
         \/ /\ slot'["client"].kx = slot["client"].kx
            /\ slot["client"].result = "OK" => slot'["client"].result = "OK"
  PROVE  Grows /\ NoticesOK' /\ SucceedsOnce'
<1>1. Grows
  BY Zenon DEF HandshakeInv, Grows
<1>2. NoticesOK'
  BY Zenon DEF HandshakeInv, NoticesOK
<1>3. SucceedsOnce /\ setups["client"] \in Nat
  BY Zenon DEF HandshakeInv, Side
<1>4. \A k \in DOMAIN notices : notices[k].attempt # 0
  BY <1>3, SMT DEF HandshakeInv, NoticesOK
<1>5. SucceedsOnce'
  BY <1>3, <1>4, Zenon DEF SucceedsOnce
<1> QED
  BY <1>1, <1>2, <1>5, Zenon

\* The client sends a part of its own.
LEMMA ClientReplies ==
  ASSUME ClientActs, NEW m \in wire, NEW t, ClientSlot(t), NEW part \in PartState, NEW K,
         t.stage = "KEY_EXCHANGE" => t.key = NoKey,
         Reply("client", m, t, part, K),
         slot'["client"].kx = t.kx /\ slot'["client"].pin = t.pin =>
           /\ MessageOK(Sealed("client", part, K))'
           /\ MessageOK(Sealed("client", part, t.key))'
  PROVE  HandshakeInv'
<1> DEFINE s == [t EXCEPT !.last = part, !.attempts = 1]
           r == Sealed("client", part, K)
<1>1. 1 \in 0 .. CONNECT_RETRY_COUNT
  BY RetryAssumption, SMT
<1>2. /\ s \in SlotState /\ s.result = "IN_PROGRESS" /\ s.expected = t.expected
      /\ s.stage = t.stage /\ s.kx = t.kx /\ s.key = t.key /\ s.last = part /\ s.pin = t.pin
  BY <1>1, Zenon DEF ClientSlot, SlotState
<1>3. r.to = "server"
  BY SealedFields, Zenon
<1>4. Settle("client", m, s, {r}) /\ notices' = notices
  BY Zenon DEF Reply
<1>5. /\ HandshakeInv /\ setups' = setups /\ encryption' = encryption
      /\ slot["client"].result = "IN_PROGRESS"
  BY Zenon DEF ClientActs
<1> HIDE DEF s
<1>6. slot' = [slot EXCEPT !["client"] = s] /\ wire' \subseteq wire \cup {r}
  BY <1>4, SettleFacts, Zenon
<1>7. slot'["client"] = s /\ slot'["server"] = slot["server"]
  BY <1>5, <1>6, Zenon DEF HandshakeInv, Side
<1>8. MessageOK(r)' /\ MessageOK(Sealed("client", s.last, s.key))'
  <2>1. MessageOK(r)' /\ MessageOK(Sealed("client", part, t.key))'
    BY <1>2, <1>7, Zenon
  <2> QED
    BY <1>2, <2>1, Zenon
<1> HIDE DEF r
<1>9. SlotOK("client")'
  BY <1>2, <1>5, <1>7, ClientSlotNow DEF SlotOK, ClientSlot, Known
<1>10. RolesOK'
  BY <1>2, <1>5, <1>7, Zenon DEF RolesOK, ClientSlot, HandshakeInv
<1>11. IdentityVerified'
  BY <1>2, <1>7, Zenon DEF IdentityVerified
<1>12. Grows /\ NoticesOK' /\ SucceedsOnce' /\ Counts /\ setups'["server"] = setups["server"]
  <2>1. slot'["client"].kx = slot["client"].kx /\ slot["client"].result # "OK"
    BY <1>2, <1>5, <1>7, Zenon DEF ClientSlot
  <2> QED
    BY <1>4, <1>5, <2>1, SilentStep, CountsSame, Zenon
<1>13. \A x \in {r} : MessageOK(x)' /\ x.to = "server"
  BY <1>3, <1>8, Zenon
<1>14. \A k \in DOMAIN notices' \ DOMAIN notices :
         notices'[k].key \in {NoKey, slot["client"].key, s.key}
  BY <1>4, Zenon
<1>15. s.result # "OK" /\ s.kx = slot["client"].kx /\ s.pin = slot["client"].pin
  BY <1>2, Zenon DEF ClientSlot
<1>16. ClientMove(s, {r})
  BY <1>2, <1>5, <1>6, <1>8, <1>9, <1>10, <1>11, <1>12, <1>13, <1>14, <1>15, Zenon
     DEF ClientMove
<1> QED
  BY <1>5, <1>16, ClientStep, Zenon

\* The client's handshake succeeds.
LEMMA ClientSucceeds ==
  ASSUME ClientActs, NEW m \in wire, NEW t, ClientSlot(t), NEW replies,
         Succeed("client", m, t, replies),
         t.pin # "wrong",
         t.pin # "none" => t.key # NoKey /\ ServerKey(t.key),
         Completed(t.key)' => \A r \in replies : MessageOK(r)' /\ r.to = "server"
  PROVE  HandshakeInv'
<1> DEFINE s == [t EXCEPT !.result = "OK", !.last = NoPart, !.attempts = 0]
<1>1. NoPart \in PartState /\ 0 \in 0 .. CONNECT_RETRY_COUNT
  BY RetryAssumption, SMT DEF NoPart, Part, PartState
<1>2. /\ s \in SlotState /\ s.result = "OK" /\ s.expected = t.expected
      /\ s.stage = t.stage /\ s.kx = t.kx /\ s.key = t.key /\ s.pin = t.pin
  BY <1>1, Zenon DEF ClientSlot, SlotState
<1>3. /\ Settle("client", m, s, replies)
      /\ notices' = Append(notices, [attempt |-> t.kx, result |-> "OK", key |-> t.key])
  BY Zenon DEF Succeed, Report
<1>4. /\ HandshakeInv /\ setups' = setups /\ encryption' = encryption
      /\ slot["client"].result = "IN_PROGRESS"
  BY Zenon DEF ClientActs
<1> HIDE DEF s
<1>5. slot' = [slot EXCEPT !["client"] = s] /\ wire' \subseteq wire \cup replies
  BY <1>3, SettleFacts, Zenon
<1>6. slot'["client"] = s /\ slot'["server"] = slot["server"]
  BY <1>4, <1>5, Zenon DEF HandshakeInv, Side
<1> DEFINE new == Len(notices) + 1
<1>7. /\ Grows /\ NoticesOK' /\ SucceedsOnce'
      /\ DOMAIN notices' = DOMAIN notices \cup {new}
      /\ notices'[new].attempt = t.kx /\ notices'[new].result = "OK" /\ notices'[new].key = t.key
  <2>1. t.kx = slot["client"].kx /\ t.key \in Key
    BY Zenon DEF ClientSlot, SlotState
  <2>2. t.key # NoKey => t.key[1] = slot["client"].kx /\ t.key[2] <= setups["server"]
    BY <1>4, Zenon DEF ClientSlot, Known
  <2>3. /\ slot'["client"].result = "OK" /\ slot'["client"].kx = slot["client"].kx
        /\ slot["client"].result # "FREE" /\ slot["client"].result # "OK"
    BY <1>2, <1>4, <1>6, <2>1, Zenon
  <2> QED
    BY <1>3, <1>4, <2>1, <2>2, <2>3, ReportStep, Zenon
<1> HIDE DEF new
<1>8. Completed(t.key)'
  BY <1>7, Zenon DEF Completed
<1>9. SlotOK("client")'
  BY <1>2, <1>4, <1>6, ClientSlotNow DEF SlotOK, ClientSlot, Known
<1>10. RolesOK'
  <2>1. s.expected \in {"INITIAL_SERVER", "AUTH_MSG"} /\ s.stage # "DONE"
    BY <1>2, Zenon DEF ClientSlot
  <2>2. /\ encryption'["client"] \/ s.pin = "none"
        /\ s.pin # "none" => s.key # NoKey
    BY <1>2, <1>4, Zenon DEF ClientSlot, HandshakeInv, RolesOK
  <2>3. \E k \in DOMAIN notices' :
          notices'[k].attempt = s.kx /\ notices'[k].result = "OK" /\ notices'[k].key = s.key
    BY <1>2, <1>7, Zenon
  <2>4. slot'["server"].expected # "INITIAL_SERVER"
    BY <1>4, <1>6, Zenon DEF HandshakeInv, RolesOK
  <2> QED
    BY <1>6, <2>1, <2>2, <2>3, <2>4, Zenon DEF RolesOK
<1>11. IdentityVerified'
  BY <1>2, <1>6, Zenon DEF IdentityVerified
<1>12. Counts /\ setups'["server"] = setups["server"]
  BY <1>4, CountsSame, Zenon
<1>13. \A k \in DOMAIN notices' \ DOMAIN notices :
         notices'[k].key \in {NoKey, slot["client"].key, s.key}
  BY <1>2, <1>7, Zenon
<1>14. /\ s.result # "IN_PROGRESS" /\ s.kx = slot["client"].kx /\ s.pin = slot["client"].pin
       /\ s.pin # "none" /\ s.key # NoKey => ServerKey(s.key)
  BY <1>2, Zenon DEF ClientSlot
<1>15. ClientMove(s, replies)
  BY <1>2, <1>4, <1>5, <1>7, <1>8, <1>9, <1>10, <1>11, <1>12, <1>13, <1>14, Zenon
     DEF ClientMove
<1> QED
  BY <1>4, <1>15, ClientStep, Zenon

\* The client's slot is reset, with a report that its attempt failed or without.
LEMMA ClientResets ==
  ASSUME HandshakeInv, encryption' = encryption, setups' = setups,
         slot' = [slot EXCEPT !["client"] = FreeSlot], wire' \subseteq wire,
         \/ /\ slot["client"].result # "FREE" /\ slot["client"].result # "OK"
            /\ \E problem \in Problem :
                 notices' = Append(notices, [attempt |-> slot["client"].kx, result |-> problem,
                                             key |-> slot["client"].key])
         \/ notices' = notices
  PROVE  HandshakeInv'
<1>1. slot'["client"] = FreeSlot /\ slot'["server"] = slot["server"]
  BY Zenon DEF HandshakeInv, Side
<1>2. /\ FreeSlot.result = "FREE" /\ FreeSlot.kx = 0 /\ FreeSlot.stage = "KEY_EXCHANGE"
      /\ FreeSlot.pin = "none" /\ FreeSlot.key = NoKey
  BY Zenon DEF FreeSlot
<1>3. SlotOK("client")'
  BY <1>1, <1>2, Zenon DEF SlotOK
<1>4. RolesOK' /\ IdentityVerified'
  BY <1>1, <1>2, Zenon DEF HandshakeInv, RolesOK, IdentityVerified
<1>5. /\ Grows /\ NoticesOK' /\ SucceedsOnce'
      /\ \A k \in DOMAIN notices' \ DOMAIN notices :
           notices'[k].key \in {NoKey, slot["client"].key, FreeSlot.key}
  <2>1. CASE /\ slot["client"].result # "FREE" /\ slot["client"].result # "OK"
             /\ \E problem \in Problem :
                  notices' = Append(notices, [attempt |-> slot["client"].kx, result |-> problem,
                                              key |-> slot["client"].key])
    <3>1. PICK problem \in Problem :
            notices' = Append(notices, [attempt |-> slot["client"].kx, result |-> problem,
                                        key |-> slot["client"].key])
      BY <2>1, Zenon
    <3>2. PICK K : K = slot["client"].key
      BY Zenon
    <3>3. K \in Key /\ (K # NoKey => K[1] = slot["client"].kx /\ K[2] <= setups["server"])
      BY <3>2, Zenon DEF HandshakeInv, SlotOK, SlotState, Side
    <3>4. /\ slot'["client"].kx \in {0, slot["client"].kx}
          /\ problem \in Problem \cup {"OK"} /\ problem # "OK"
      BY <1>1, <1>2, Zenon DEF Problem
    <3>5. /\ Grows /\ NoticesOK' /\ SucceedsOnce'
          /\ DOMAIN notices' = DOMAIN notices \cup {Len(notices) + 1}
          /\ notices'[Len(notices) + 1].key = K
      BY <2>1, <3>1, <3>2, <3>3, <3>4, ReportStep, Zenon
    <3> QED
      BY <3>2, <3>5, Zenon
  <2>2. CASE notices' = notices
    <3>1. slot'["client"].kx = 0
      BY <1>1, <1>2, Zenon
    <3> QED
      BY <2>2, <3>1, SilentStep, Zenon
  <2> QED
    BY <2>1, <2>2, Zenon
<1>6. Counts /\ setups'["server"] = setups["server"]
  BY CountsSame, Zenon
<1>7. FreeSlot.result # "IN_PROGRESS" /\ FreeSlot.result # "OK" /\ wire' \subseteq wire \cup {}
  BY <1>2, Zenon
<1>8. ClientMove(FreeSlot, {})
  BY <1>2, <1>3, <1>4, <1>5, <1>6, <1>7, FreeSlotType, Zenon DEF ClientMove
<1> QED
  BY <1>8, ClientStep, Zenon

\* Handle at the client keeps the invariant.
LEMMA ClientHandles ==
  ASSUME ClientActs, NEW m \in wire, m.to = "client", m.key = slot["client"].key,
         Handle("client", slot["client"], m)
  PROVE  HandshakeInv'
<1>0. PICK s : s = slot["client"]
  BY Zenon
<1>1. /\ ClientSlot(s) /\ s \in SlotState /\ s.key \in Key /\ Known(s.key) /\ s.kx \in Nat
      /\ s.kx = setups["client"] /\ s.kx > 0
      /\ s.stage = "KEY_EXCHANGE" => s.key = NoKey
      /\ m.key = s.key
  BY <1>0, ClientSlotNow, Zenon DEF ClientSlot, SlotState, Known
<1>2. /\ HandshakeInv /\ setups' = setups /\ encryption' = encryption
      /\ slot["client"].result = "IN_PROGRESS"
  BY Zenon DEF ClientActs
<1>3. /\ MessageOK(m) /\ m.part \in PartState
      /\ setups["client"] \in Nat /\ setups["client"] <= MaxConnects
      /\ setups["server"] \in Nat /\ setups["server"] <= MaxIncoming
      /\ encryption["client"] \/ s.pin = "none"
      /\ encryption["client"] \in BOOLEAN
  BY <1>0, <1>2, SecurityAssumption DEF HandshakeInv, Sendable, MessageOK, RolesOK, Side
<1>4. NoKey \in Key /\ Known(NoKey)
  BY Zenon DEF Key, Known
<1>5. Handle("client", s, m)
  BY <1>0, Zenon
<1>6. ASSUME NEW problem \in Problem, Fail("client", m, s, {}, problem)
      PROVE  HandshakeInv'
  <2>1. /\ Settle("client", m, FreeSlot, {})
        /\ notices' = Append(notices, [attempt |-> s.kx, result |-> problem, key |-> s.key])
    BY <1>6, Zenon DEF Fail, AfterFailure, Report
  <2>2. slot' = [slot EXCEPT !["client"] = FreeSlot] /\ wire' \subseteq wire \cup {}
    BY <2>1, SettleFacts, Zenon
  <2>3. wire' \subseteq wire
    BY <2>2, Zenon
  <2>4. slot["client"].result # "FREE" /\ slot["client"].result # "OK"
    BY <1>2, Zenon
  <2> QED
    BY <1>0, <1>2, <2>1, <2>2, <2>3, <2>4, ClientResets, Zenon
<1>7. CASE HandleInitialServer("client", s, m)
  <2>1. s.key = NoKey /\ s.stage = "KEY_EXCHANGE"
    BY <1>1, <1>7, Zenon DEF HandleInitialServer, ClientSlot
  <2>2. CASE encryption["client"]
    <3> DEFINE t == [s EXCEPT !.expected = "AUTH_MSG"]
               part == Part("AUTH_MSG", "KEY_EXCHANGE", s.kx, s.pin # "none")
    <3>1. /\ t \in SlotState /\ t.result = s.result /\ t.expected = "AUTH_MSG" /\ t.kx = s.kx
          /\ t.key = NoKey /\ t.stage = "KEY_EXCHANGE" /\ t.pin = s.pin
      BY <1>1, <2>1, Zenon DEF SlotState
    <3>2. part \in PartState /\ part.op = "AUTH_MSG" /\ part.stage = "KEY_EXCHANGE" /\ part.kx = s.kx
      BY <1>1, Zenon DEF Part, PartState
    <3>3. Reply("client", m, t, part, NoKey)
      BY <1>7, <2>2, Zenon DEF HandleInitialServer
    <3> HIDE DEF t, part
    <3>4. ClientSlot(t)
      BY <1>1, <3>1, Zenon DEF ClientSlot
    <3>5. part.kx \in 1 .. setups'["client"]
      BY <1>1, <1>2, <3>2, SMT
    <3>6. MessageOK(Sealed("client", part, NoKey))'
      BY <1>4, <3>2, <3>5, ClientMessage, Zenon
    <3> QED
      BY <3>1, <3>2, <3>3, <3>4, <3>6, ClientReplies, Zenon
  <2>3. CASE ~ encryption["client"]
    <3> DEFINE ack == Part("UNENCRYPTED_ACK", "NONE", 0, FALSE)
               r == Sealed("client", ack, NoKey)
    <3>1. ack \in PartState /\ ack.op = "UNENCRYPTED_ACK"
      BY Zenon DEF Part, PartState
    <3>2. Succeed("client", m, s, {r})
      BY <1>7, <2>3, Zenon DEF HandleInitialServer
    <3> HIDE DEF ack
    <3>3. MessageOK(r)' /\ r.to = "server"
      BY <1>4, <3>1, ClientMessage, SealedFields, Zenon
    <3> HIDE DEF r
    <3>4. s.pin = "none"
      BY <1>3, <2>3, Zenon
    <3> QED
      BY <1>1, <2>1, <3>2, <3>3, <3>4, ClientSucceeds, Zenon
  <2> QED
    BY <2>2, <2>3, Zenon
<1>8. CASE HandleError("client", s, m)
  <2>1. m.part.stage \in Problem
    BY <1>3, <1>8, Zenon DEF HandleError, MessageOK
  <2> QED
    BY <1>6, <1>8, <2>1, Zenon DEF HandleError
<1>9. CASE HandleMismatch("client", s, m)
  <2>1. Settle("client", m, slot["client"], {}) /\ notices' = notices /\ "client" \in Side
    BY <1>0, <1>9, Zenon DEF HandleMismatch, Side
  <2> QED
    BY <1>2, <2>1, ReadQuietly, SMT
<1>10. ~ HandleInitialClient("client", s, m) /\ ~ HandleAck("client", s, m)
  BY <1>1, Zenon DEF HandleInitialClient, HandleAck, ClientSlot
<1>11. CASE HandleAuthMsg("client", s, m)
  <2>0. m.part.op = "AUTH_MSG" /\ s.expected = "AUTH_MSG"
    BY <1>11, Zenon DEF HandleAuthMsg
  <2>1. ASSUME KeyExchangeClient("client", s, m)
        PROVE  HandshakeInv'
    <3> DEFINE K == <<s.kx, m.part.kx>>
               t == [s EXCEPT !.key = K]
    <3>1. s.key = NoKey /\ s.stage = "KEY_EXCHANGE"
      BY <1>1, <2>1, Zenon DEF KeyExchangeClient
    <3>2. m.part.kx \in 1 .. setups["server"]
      BY <1>1, <1>3, <2>0, <3>1, OtherSide, Zenon DEF MessageOK
    <3>3. K \in Key /\ K # NoKey /\ K[1] = s.kx /\ K[2] = m.part.kx
      BY <1>1, <1>3, <3>2, BoundAssumption, SMT DEF Key, NoKey
    <3>4. Known(K)
      BY <1>1, <1>2, <1>3, <3>2, <3>3, SMT DEF Known
    <3>5. \/ /\ s.pin # "none"
             /\ Reply("client", m, [t EXCEPT !.stage = "AUTHENTICATION"],
                      Part("AUTH_MSG", "AUTHENTICATION", 0, s.pin = "right"), t.key)
          \/ /\ s.pin = "none"
             /\ Succeed("client", m, t,
                        {Sealed("client", Part("AUTH_MSG", "DONE", 0, FALSE), t.key)})
      BY <2>1, Zenon DEF KeyExchangeClient
    <3> HIDE DEF K
    <3>6. /\ t \in SlotState /\ t.result = s.result /\ t.expected = s.expected /\ t.kx = s.kx
          /\ t.key = K /\ t.stage = s.stage /\ t.pin = s.pin
      BY <1>1, <3>3, Zenon DEF SlotState
    <3> HIDE DEF t
    <3>7. CASE /\ s.pin # "none"
               /\ Reply("client", m, [t EXCEPT !.stage = "AUTHENTICATION"],
                        Part("AUTH_MSG", "AUTHENTICATION", 0, s.pin = "right"), t.key)
      <4> DEFINE u == [t EXCEPT !.stage = "AUTHENTICATION"]
                 part == Part("AUTH_MSG", "AUTHENTICATION", 0, s.pin = "right")
      <4>1. /\ u \in SlotState /\ u.result = s.result /\ u.expected = s.expected /\ u.kx = s.kx
            /\ u.key = K /\ u.stage = "AUTHENTICATION" /\ u.pin = s.pin
        BY <3>6, Zenon DEF SlotState
      <4>2. /\ part \in PartState /\ part.op = "AUTH_MSG" /\ part.stage = "AUTHENTICATION"
            /\ part.flag = (s.pin = "right")
        BY Zenon DEF Part, PartState
      <4>3. Reply("client", m, u, part, K)
        BY <3>6, <3>7, Zenon
      <4> HIDE DEF u, part
      <4>4. ClientSlot(u)
        BY <1>1, <2>0, <3>3, <3>4, <4>1, Zenon DEF ClientSlot
      <4>5. ASSUME slot'["client"].kx = u.kx, slot'["client"].pin = u.pin
            PROVE  MessageOK(Sealed("client", part, K))'
        <5>1. part.flag => slot'["client"].pin = "right"
          BY <4>1, <4>2, <4>5, Zenon
        <5> QED
          BY <3>3, <3>4, <4>2, <5>1, ClientMessage, Zenon
      <4> QED
        BY <4>1, <4>2, <4>3, <4>4, <4>5, ClientReplies, Zenon
    <3>8. CASE /\ s.pin = "none"
               /\ Succeed("client", m, t,
                          {Sealed("client", Part("AUTH_MSG", "DONE", 0, FALSE), t.key)})
      <4> DEFINE done == Part("AUTH_MSG", "DONE", 0, FALSE)
                 r == Sealed("client", done, K)
      <4>1. done \in PartState /\ done.op = "AUTH_MSG" /\ done.stage = "DONE"
        BY Zenon DEF Part, PartState
      <4>2. Succeed("client", m, t, {r})
        BY <3>6, <3>8, Zenon
      <4> HIDE DEF done
      <4>3. Completed(K)' => MessageOK(r)'
        BY <3>3, <3>4, <4>1, ClientMessage, Zenon
      <4>4. r.to = "server"
        BY SealedFields
      <4> HIDE DEF r
      <4>5. ClientSlot(t)
        BY <1>1, <2>0, <3>1, <3>3, <3>4, <3>6, Zenon DEF ClientSlot
      <4>6. Completed(t.key)' => \A x \in {r} : MessageOK(x)' /\ x.to = "server"
        BY <3>6, <4>3, <4>4, Zenon
      <4>7. t.pin = "none"
        BY <3>6, <3>8, Zenon
      <4> QED
        BY <4>2, <4>5, <4>6, <4>7, ClientSucceeds, Zenon
    <3> QED
      BY <3>5, <3>7, <3>8, Zenon
  <2>2. ASSUME ChallengeResponse("client", s, m), InStage(s, m.part)
        PROVE  HandshakeInv'
    <3>1. s.key # NoKey /\ s.stage = "AUTHENTICATION" /\ s.key[1] = s.kx
      BY <1>1, <2>2, Zenon DEF ChallengeResponse, ClientSlot
    <3>2. m.part.stage = "AUTHENTICATION"
      BY <2>2, <3>1, Zenon DEF InStage
    <3>3. m.part.flag => s.pin = "right"
      BY <1>0, <1>1, <1>3, <2>0, <3>1, <3>2 DEF MessageOK
    <3>4. CASE Solved(m.part)
      <4> DEFINE done == Part("AUTH_MSG", "DONE", 0, FALSE)
                 r == Sealed("client", done, s.key)
      <4>1. done \in PartState /\ done.op = "AUTH_MSG" /\ done.stage = "DONE"
        BY Zenon DEF Part, PartState
      <4>2. Succeed("client", m, s, {r})
        BY <2>2, <3>4, Zenon DEF ChallengeResponse
      <4> HIDE DEF done
      <4>3. Completed(s.key)' => MessageOK(r)'
        BY <1>1, <3>1, <4>1, ClientMessage, Zenon
      <4>4. r.to = "server"
        BY SealedFields, SMT
      <4> HIDE DEF r
      <4>5. s.pin = "right"
        BY <3>3, <3>4, Zenon DEF Solved
      <4>6. ServerKey(s.key)
        BY <1>1, Zenon DEF ServerKey, Sendable
      <4> QED
        BY <1>1, <3>1, <4>2, <4>3, <4>4, <4>5, <4>6, ClientSucceeds
    <3>5. CASE ~ Solved(m.part)
      <4>1. "INCORRECT_REMOTE_IDENTITY" \in Problem
        BY Zenon DEF Problem
      <4> QED
        BY <1>6, <2>2, <3>5, <4>1, Zenon DEF ChallengeResponse
    <3> QED
      BY <3>4, <3>5, Zenon
  <2>3. ASSUME ~ InStage(s, m.part), Reply("client", m, s, Blank, s.key)
        PROVE  HandshakeInv'
    <3>1. s.key # NoKey
      BY <1>1, <1>3, <2>0, <2>3, Zenon DEF MessageOK, InStage, ClientSlot
    <3>2. Blank \in PartState /\ Blank.op = "AUTH_MSG" /\ Blank.stage = "NONE"
      BY Zenon DEF Blank, Part, PartState
    <3>3. MessageOK(Sealed("client", Blank, s.key))'
      BY <1>1, <3>1, <3>2, ClientMessage, Zenon
    <3> QED
      BY <1>1, <2>3, <3>2, <3>3, ClientReplies, Zenon
  <2>4. /\ ~ KeyExchangeServer("client", s, m) /\ ~ ChallengeIncoming("client", s, m)
        /\ ~ AuthDone("client", s, m)
    BY <1>1, Zenon DEF KeyExchangeServer, ChallengeIncoming, AuthDone, ClientSlot
  <2> QED
    BY <1>11, <2>1, <2>2, <2>3, <2>4, Zenon DEF HandleAuthMsg
<1> QED
  BY <1>5, <1>7, <1>8, <1>9, <1>10, <1>11, Zenon DEF Handle

-----------------------------------------------------------------------------
(***************************************************************************)
(* The socket thread.                                                      *)
(***************************************************************************)

\* Reading a datagram keeps the invariant: it is ignored, rejected, starts the end
\* of the connection or waits for the lock, or a slot is set up for it.
LEMMA Reading ==
  ASSUME HandshakeInv, NEW p \in Side, Read(p)
  PROVE  HandshakeInv'
<1>0. PICK m \in wire :
        /\ m.to = p
        /\ \/ ReadIgnored(p, m) \/ ReadRejected(p, m) \/ OnNewIncomingPeer(p, m)
           \/ ReadUnreadable(p, m) \/ ReadLink(p, m) \/ ReadPart(p, m)
  BY Zenon DEF Read
<1>1. encryption' = encryption
  BY Zenon DEF Read
<1>2. ASSUME Settle(p, m, slot[p], {}), setups' = setups, notices' = notices
      PROVE  HandshakeInv'
  BY <1>1, <1>2, ReadQuietly, SMT
<1>3. CASE ReadIgnored(p, m)
  BY <1>2, <1>3, Zenon DEF ReadIgnored, Ignores
<1>4. CASE ReadRejected(p, m)
  <2> DEFINE r == Sealed(p, ErrorPart("NO_FREE_SLOTS"), NoKey)
  <2>1. Settle(p, m, slot[p], {r}) /\ setups' = setups /\ notices' = notices
    BY <1>4, Zenon DEF ReadRejected
  <2>2. MessageOK(r) /\ r.key = NoKey
    BY RejectionOK, Zenon
  <2> HIDE DEF r
  <2> QED
    BY <1>1, <2>1, <2>2, ReadQuietly, Zenon
<1>5. CASE OnNewIncomingPeer(p, m)
  <2>1. p = "server"
    BY <1>5, Zenon DEF OnNewIncomingPeer
  <2> QED
    BY <1>1, <1>5, <2>1, SettingUp, Zenon
<1>6. CASE ReadUnreadable(p, m)
  BY <1>2, <1>6, Zenon DEF ReadUnreadable, Ignores, DisconnectImmediate
<1>7. CASE ReadLink(p, m)
  BY <1>2, <1>7, Zenon DEF ReadLink, Ignores, DisconnectImmediate
<1>8. CASE ReadPart(p, m)
  <2>1. CASE slot' = slot /\ setups' = setups /\ wire' = wire /\ notices' = notices
    BY <1>1, <2>1, Unmoved, Zenon
  <2> QED
    BY <1>2, <1>8, <2>1, Zenon DEF ReadPart, Ignores, Waits
<1> QED
  BY <1>0, <1>3, <1>4, <1>5, <1>6, <1>7, <1>8, Zenon

\* A part that waited for the lock finds the slot it was read for, or none.
LEMMA Handling ==
  ASSUME HandshakeInv, ThreadsInv, NEW p \in Side, HandleLocked(p)
  PROVE  HandshakeInv'
<1>1. encryption' = encryption /\ setups' = setups /\ reader[p] = "handle" /\ ThreadsOK(p)
  BY Zenon DEF HandleLocked, ThreadsInv
<1>2. CASE Crashes(p)
  BY <1>1, <1>2, Unmoved, Zenon DEF Crashes
<1>3. CASE slot[p].result # "FREE" /\ Handle(p, slot[p], held[p])
  <2>1. /\ slot[p].result = "IN_PROGRESS" /\ held[p] \in wire /\ held[p].to = p
        /\ held[p].key = slot[p].key
    BY <1>1, <1>3, Zenon DEF ThreadsOK
  <2>2. CASE p = "server"
    BY <1>1, <1>3, <2>1, <2>2, ServerHandling, Zenon
  <2>3. CASE p = "client"
    <3>1. ClientActs
      BY <1>1, <2>1, <2>3, Zenon DEF ClientActs
    <3> QED
      BY <1>3, <2>1, <2>3, <3>1, ClientHandles, Zenon
  <2> QED
    BY <2>2, <2>3, Zenon DEF Side
<1> QED
  BY <1>2, <1>3, Zenon DEF HandleLocked

\* A slot that is completed as failed but not yet reset.
LEMMA FailedFields ==
  ASSUME NEW s \in SlotState
  PROVE  /\ Failed(s) \in SlotState /\ Failed(s).result = "FAILED"
         /\ Failed(s).expected = s.expected /\ Failed(s).stage = s.stage
         /\ Failed(s).kx = s.kx /\ Failed(s).key = s.key /\ Failed(s).pin = s.pin
BY FreeSlotType, Zenon DEF Failed, SlotState, FreeSlot

\* DisconnectImmediate completes the handshake as failed.
LEMMA Completing ==
  ASSUME HandshakeInv, ThreadsInv, NEW p \in Side, Complete(p)
  PROVE  HandshakeInv'
<1>1. /\ encryption' = encryption /\ setups' = setups /\ reader[p] = "attempt" /\ ThreadsOK(p)
      /\ slot \in [Side -> SlotState] /\ SlotOK(p)
  BY Zenon DEF Complete, ThreadsInv, HandshakeInv
<1>2. CASE Crashes(p)
  BY <1>1, <1>2, Unmoved, Zenon DEF Crashes
<1>3. CASE /\ slot[p].result # "FREE" /\ slot' = [slot EXCEPT ![p] = Failed(@)]
           /\ Report(p, slot[p], "CONNECT_FAILED") /\ wire' = wire
  <2>0. slot[p].result = "IN_PROGRESS" /\ slot[p].kx = setups[p] /\ slot[p].kx > 0
    BY <1>1, <1>3, Zenon DEF ThreadsOK, SlotOK
  <2>1. PICK s : s = Failed(slot[p])
    BY Zenon
  <2>2. /\ s \in SlotState /\ s.result = "FAILED" /\ s.expected = slot[p].expected
        /\ s.stage = slot[p].stage /\ s.kx = slot[p].kx /\ s.key = slot[p].key
        /\ s.pin = slot[p].pin
    BY <1>1, <2>1, FailedFields, Zenon
  <2>3. /\ slot' = [slot EXCEPT ![p] = s] /\ slot'[p] = s
        /\ \A q \in Side : q # p => slot'[q] = slot[q]
    BY <1>1, <1>3, <2>1, Zenon
  <2>4. SlotOK(p)'
    BY <1>1, <2>0, <2>2, <2>3, Zenon DEF SlotOK
  <2>5. /\ Counts /\ setups'["client"] = setups["client"] /\ setups'["server"] = setups["server"]
        /\ wire' \subseteq wire \cup {} /\ s.result # "OK" /\ s.result # "IN_PROGRESS"
        /\ "client" \in Side /\ "server" \in Side
    BY <1>1, <1>3, <2>2, CountsSame, Zenon DEF Side
  <2>6. CASE p = "server"
    <3>1. s.expected # "INITIAL_SERVER" /\ notices' = notices
      BY <1>3, <2>2, <2>6, Zenon DEF HandshakeInv, RolesOK, Report
    <3>2. ServerMove(s, {})
      BY <1>1, <2>2, <2>3, <2>4, <2>5, <2>6, <3>1, Zenon DEF ServerMove
    <3> QED
      BY <3>2, ServerStep, Zenon
  <2>7. CASE p = "client"
    <3>1. PICK K : K = slot["client"].key
      BY Zenon
    <3>2. /\ notices' = Append(notices, [attempt |-> slot["client"].kx,
                                         result |-> "CONNECT_FAILED", key |-> K])
          /\ "CONNECT_FAILED" \in Problem \cup {"OK"} /\ "CONNECT_FAILED" # "OK"
      BY <1>3, <2>7, <3>1, Zenon DEF Report, Problem
    <3>3. K \in Key /\ (K # NoKey => K[1] = slot["client"].kx /\ K[2] <= setups["server"])
      BY <1>1, <2>5, <2>7, <3>1, Zenon DEF SlotOK, SlotState
    <3>4. /\ slot'["client"].kx \in {0, slot["client"].kx}
          /\ slot["client"].result # "FREE" /\ slot["client"].result # "OK"
      BY <2>0, <2>2, <2>3, <2>7, Zenon
    <3>5. /\ Grows /\ NoticesOK' /\ SucceedsOnce'
          /\ DOMAIN notices' = DOMAIN notices \cup {Len(notices) + 1}
          /\ notices'[Len(notices) + 1].key = K
      BY <1>1, <3>2, <3>3, <3>4, ReportStep, Zenon
    <3>6. RolesOK'
      BY <1>1, <2>0, <2>2, <2>3, <2>5, <2>7, Zenon DEF HandshakeInv, RolesOK
    <3>7. IdentityVerified'
      BY <2>2, <2>3, <2>7, Zenon DEF IdentityVerified
    <3>8. \A k \in DOMAIN notices' \ DOMAIN notices :
            notices'[k].key \in {NoKey, slot["client"].key, s.key}
      BY <3>1, <3>5, Zenon
    <3>9. ClientMove(s, {})
      BY <1>1, <2>2, <2>3, <2>4, <2>5, <2>7, <3>5, <3>6, <3>7, <3>8, Zenon DEF ClientMove
    <3> QED
      BY <3>9, ClientStep, Zenon
  <2> QED
    BY <2>6, <2>7, Zenon DEF Side
<1> QED
  BY <1>2, <1>3, Zenon DEF Complete

-----------------------------------------------------------------------------
(***************************************************************************)
(* The application and the worker.                                         *)
(***************************************************************************)

\* What joins the datagrams that travel, or is lost.
LEMMA JoinedFacts ==
  ASSUME NEW old, NEW new
  PROVE  Joined(old, new) \subseteq old \cup new
BY Zenon DEF Joined

\* A new attempt has a number of its own, about which nothing was reported.
LEMMA Connecting ==
  ASSUME HandshakeInv, Connect
  PROVE  HandshakeInv'
<1>a. PICK hello : hello = Part("INITIAL_CLIENT", "NONE", 0, encryption["client"])
  BY Zenon
<1>b. PICK r : r = Sealed("client", hello, NoKey)
  BY Zenon
<1>0. /\ slot \in [Side -> SlotState] /\ setups \in [Side -> Nat] /\ "client" \in Side
      /\ "server" \in Side /\ notices \in Seq(Notice) /\ encryption["client"] \in BOOLEAN
  BY SecurityAssumption, Zenon DEF HandshakeInv, Side
<1>1. PICK pin \in Pins :
        /\ pin # "none" => encryption["client"]
        /\ slot' = [slot EXCEPT !["client"] =
             [Fresh("client", pin) EXCEPT !.expected = "INITIAL_SERVER",
                                          !.last = hello, !.attempts = 1]]
        /\ wire' = Joined(wire, {r})
  BY <1>a, <1>b, Zenon DEF Connect
<1>2. /\ slot["client"].result = "FREE" /\ setups["client"] < MaxConnects
      /\ setups' = [setups EXCEPT !["client"] = @ + 1]
      /\ encryption' = encryption /\ notices' = notices
  BY Zenon DEF Connect
<1>3. /\ setups'["client"] = setups["client"] + 1 /\ setups'["server"] = setups["server"]
      /\ setups' \in [Side -> Nat] /\ setups["client"] \in Nat /\ setups["server"] \in Nat
      /\ setups["server"] <= MaxIncoming /\ MaxConnects \in Nat
  BY <1>0, <1>2, BoundAssumption, SMT DEF HandshakeInv
<1>4. Counts
  BY <1>2, <1>3, SMT DEF Counts, Side
<1>5. hello \in PartState /\ hello.op = "INITIAL_CLIENT"
  BY <1>0, <1>a, Zenon DEF Part, PartState
<1>c. PICK s : s = [Fresh("client", pin) EXCEPT !.expected = "INITIAL_SERVER",
                                                !.last = hello, !.attempts = 1]
  BY Zenon
<1>6. slot' = [slot EXCEPT !["client"] = s]
  BY <1>1, <1>c, Zenon
<1>7. /\ s \in SlotState /\ s.result = "IN_PROGRESS" /\ s.expected = "INITIAL_SERVER"
      /\ s.stage = "KEY_EXCHANGE" /\ s.kx = setups["client"] + 1 /\ s.key = NoKey
      /\ s.pin = pin /\ s.last = hello
  <2>1. setups["client"] + 1 \in Nat /\ 1 \in 0 .. CONNECT_RETRY_COUNT
    BY <1>3, RetryAssumption, SMT
  <2>2. pin \in {"none", "right", "wrong"}
    BY PinAssumption, Zenon
  <2>3. s = [FreeSlot EXCEPT !.result = "IN_PROGRESS", !.kx = setups["client"] + 1, !.pin = pin,
                             !.expected = "INITIAL_SERVER", !.last = hello, !.attempts = 1]
    BY <1>c, Zenon DEF Fresh, FreeSlot
  <2>4. /\ FreeSlot \in SlotState /\ FreeSlot.stage = "KEY_EXCHANGE" /\ FreeSlot.key = NoKey
    BY FreeSlotType, Zenon DEF FreeSlot
  <2> QED
    BY <1>5, <2>1, <2>2, <2>3, <2>4, Zenon DEF SlotState
<1>8. slot'["client"] = s /\ slot'["server"] = slot["server"]
  BY <1>0, <1>6, Zenon
<1>9. NoKey \in Key /\ Known(NoKey)
  BY Zenon DEF Key, Known
<1>10. MessageOK(r)' /\ r.to = "server"
  BY <1>b, <1>5, <1>9, ClientMessage, SealedFields
<1>11. Grows
  BY <1>0, <1>2, Zenon DEF Grows
<1>12. SlotOK("client")'
  BY <1>3, <1>7, <1>8, SMT DEF SlotOK
<1>13. RolesOK'
  BY <1>1, <1>2, <1>7, <1>8 DEF HandshakeInv, RolesOK
<1>14. IdentityVerified'
  BY <1>7, <1>8, Zenon DEF IdentityVerified
<1>15. NoticesOK'
  <2>1. \A k \in DOMAIN notices :
          /\ notices[k].attempt \in 1 .. setups["client"]
          /\ notices[k].key # NoKey => /\ notices[k].key[1] = notices[k].attempt
                                       /\ notices[k].key[2] <= setups["server"]
    BY Zenon DEF HandshakeInv, NoticesOK
  <2>2. \A k \in DOMAIN notices : notices[k].attempt \in 1 .. setups'["client"]
    BY <1>3, <2>1, SMT
  <2> QED
    BY <1>2, <1>3, <2>1, <2>2, Zenon DEF NoticesOK
<1>16. SucceedsOnce'
  <2>1. \A k \in DOMAIN notices : notices[k].attempt # setups["client"] + 1
    BY <1>3, SMT DEF HandshakeInv, NoticesOK
  <2>2. slot'["client"].kx = setups["client"] + 1
    BY <1>7, <1>8, Zenon
  <2> QED
    BY <1>2, <2>1, <2>2, Zenon DEF HandshakeInv, SucceedsOnce
<1>17. /\ s.last # NoPart => MessageOK(Sealed("client", s.last, s.key))'
       /\ \A x \in {r} : MessageOK(x)' /\ x.to = "server"
  BY <1>b, <1>7, <1>10, Zenon
<1>18. wire' \subseteq wire \cup {r}
  BY <1>1, JoinedFacts, Zenon
<1>19. /\ s.kx > setups["client"] /\ s.result # "OK"
       /\ \A k \in DOMAIN notices' \ DOMAIN notices :
            notices'[k].key \in {NoKey, slot["client"].key, s.key}
  BY <1>2, <1>3, <1>7, SMT
<1>20. ClientMove(s, {r})
  BY <1>2, <1>3, <1>4, <1>6, <1>7, <1>11, <1>12, <1>13, <1>14, <1>15, <1>16, <1>17, <1>18,
     <1>19 DEF ClientMove
<1> QED
  BY <1>20, ClientStep, Zenon

\* The server's slot may be reset at any time: no session key is replaced.
LEMMA ServerFrees ==
  ASSUME HandshakeInv, encryption' = encryption, setups' = setups, notices' = notices,
         wire' = wire, slot' = [slot EXCEPT !["server"] = FreeSlot]
  PROVE  HandshakeInv'
<1>1. slot'["server"] = FreeSlot
  BY Zenon DEF HandshakeInv, Side
<1>2. /\ FreeSlot.result = "FREE" /\ FreeSlot.kx = 0 /\ FreeSlot.stage = "KEY_EXCHANGE"
      /\ FreeSlot.key = NoKey /\ FreeSlot.expected = "NOT_STARTED"
  BY Zenon DEF FreeSlot
<1>3. SlotOK("server")'
  BY <1>1, <1>2, Zenon DEF SlotOK
<1>4. Counts /\ setups'["client"] = setups["client"] /\ wire' \subseteq wire \cup {}
  BY CountsSame, Zenon
<1>5. /\ FreeSlot.result # "OK" /\ FreeSlot.result # "IN_PROGRESS"
      /\ FreeSlot.expected # "INITIAL_SERVER"
  BY <1>2, Zenon
<1>6. ServerMove(FreeSlot, {})
  BY <1>2, <1>3, <1>4, <1>5, FreeSlotType, Zenon DEF ServerMove
<1> QED
  BY <1>6, ServerStep, Zenon

\* A slot is reset without a word.
LEMMA Freeing ==
  ASSUME HandshakeInv, encryption' = encryption, setups' = setups, notices' = notices,
         wire' = wire, NEW p \in Side, slot' = [slot EXCEPT ![p] = FreeSlot]
  PROVE  HandshakeInv'
<1>1. CASE p = "server"
  BY <1>1, ServerFrees, Zenon
<1>2. CASE p = "client"
  <2>1. wire' \subseteq wire /\ slot' = [slot EXCEPT !["client"] = FreeSlot]
    BY <1>2, Zenon
  <2> QED
    BY <2>1, ClientResets, Zenon
<1> QED
  BY <1>1, <1>2, Zenon DEF Side

\* The worker reports a timeout and resets the slot.
LEMMA Expiring ==
  ASSUME HandshakeInv, ThreadsInv, NEW p \in Side, Expires(p)
  PROVE  HandshakeInv'
<1>1. /\ encryption' = encryption /\ setups' = setups /\ wire' = wire
      /\ slot' = [slot EXCEPT ![p] = FreeSlot] /\ Report(p, slot[p], "CONNECT_FAILED")
  BY Zenon DEF Expires, AfterFailure
<1>2. slot[p].result # "FREE" /\ slot[p].result # "OK"
  BY Zenon DEF Expires, ThreadsInv, ThreadsOK
<1>3. CASE p = "server"
  BY <1>1, <1>3, ServerFrees, Zenon DEF Report
<1>4. CASE p = "client"
  <2>1. /\ notices' = Append(notices, [attempt |-> slot["client"].kx,
                                       result |-> "CONNECT_FAILED", key |-> slot["client"].key])
        /\ "CONNECT_FAILED" \in Problem
    BY <1>1, <1>4, Zenon DEF Report, Problem
  <2>2. slot' = [slot EXCEPT !["client"] = FreeSlot] /\ wire' \subseteq wire
    BY <1>1, <1>4, Zenon
  <2> QED
    BY <1>1, <1>2, <1>4, <2>1, <2>2, ClientResets, Zenon
<1> QED
  BY <1>3, <1>4, Zenon DEF Side

\* Handshaker::Update sends again what it sent, or finds the attempts exhausted.
LEMMA Updating ==
  ASSUME HandshakeInv, NEW p \in Side, Update(p)
  PROVE  HandshakeInv'
<1>1. /\ encryption' = encryption /\ setups' = setups /\ slot[p].result = "IN_PROGRESS"
      /\ notices' = notices /\ slot \in [Side -> SlotState] /\ slot[p] \in SlotState
  BY Zenon DEF Update, HandshakeInv
<1>2. CASE slot' = slot /\ wire' = wire
  BY <1>1, <1>2, Unmoved, Zenon
<1>3. CASE /\ ~ Exhausted(slot[p]) /\ slot' = [slot EXCEPT ![p] = Retried(slot[p])]
           /\ wire' = IF slot[p].last = NoPart THEN wire
                      ELSE Joined(wire, {Sealed(p, slot[p].last, slot[p].key)})
  <2>1. PICK s : s = slot[p]
    BY Zenon
  <2>2. s \in SlotState /\ s.attempts + 1 \in 0 .. CONNECT_RETRY_COUNT
    BY <1>1, <1>3, <2>1, RetryAssumption, SMT DEF Exhausted, SlotState
  <2>3. /\ Retried(s) \in SlotState /\ Retried(s).result = s.result
        /\ Retried(s).expected = s.expected /\ Retried(s).stage = s.stage
        /\ Retried(s).kx = s.kx /\ Retried(s).key = s.key /\ Retried(s).pin = s.pin
        /\ Retried(s).last = s.last
    BY <2>2, Zenon DEF Retried, SlotState
  <2>4. /\ slot' \in [Side -> SlotState] /\ slot'[p] = Retried(s)
        /\ \A q \in Side : q # p => slot'[q] = slot[q]
    BY <1>1, <1>3, <2>1, <2>3, Zenon
  <2>5. \A m \in wire' : m \in Sendable
    <3>1. \A m \in wire' : m \in wire \/ /\ slot[p].last # NoPart
                                         /\ m = Sealed(p, slot[p].last, slot[p].key)
      BY <1>3, JoinedFacts, SMT
    <3> QED
      BY <1>1, <3>1, Zenon DEF Sendable
  <2>6. \A q \in Side :
          /\ slot[q].result = "FREE" => slot'[q] = slot[q]
          /\ slot'[q].result = slot[q].result /\ slot'[q].expected = slot[q].expected
          /\ slot'[q].stage = slot[q].stage /\ slot'[q].kx = slot[q].kx
          /\ slot'[q].key = slot[q].key /\ slot'[q].pin = slot[q].pin
          /\ slot'[q].last = slot[q].last
    BY <1>1, <2>1, <2>3, <2>4, Zenon
  <2>7. QuietMove
    BY <1>1, <1>3, <2>4, <2>5, <2>6, Zenon DEF QuietMove
  <2> QED
    BY <2>7, QuietStep, Zenon
<1> QED
  BY <1>2, <1>3, Zenon DEF Update

\* A datagram of the connection says nothing about the handshake but its key.
LEMMA SendingLink ==
  ASSUME HandshakeInv, NEW p \in Side, SendLink(p)
  PROVE  HandshakeInv'
<1> DEFINE r == Sealed(p, Link, slot[p].key)
<1>1. /\ encryption' = encryption /\ setups' = setups /\ slot' = slot /\ notices' = notices
      /\ wire' = Joined(wire, {r}) /\ slot \in [Side -> SlotState] /\ slot[p] \in SlotState
      /\ SlotOK(p)
  BY Zenon DEF SendLink, HandshakeInv
<1>2. /\ r.to = Other(p) /\ r.part = Link /\ r.key = slot[p].key /\ r.key \in Key
      /\ Link \in PartState /\ Link.op = "LINK" /\ Other(p) \in Side
  BY <1>1, OtherSide DEF Sealed, Link, Part, PartState, Side, SlotState
<1>3. r \in [to : Side, part : PartState, key : Key]
  BY <1>1, <1>2, Zenon DEF Sealed, SlotState
<1>4. r.to = "client" => r.key \in {NoKey, slot["server"].key}
  BY <1>2, OtherSide, Zenon DEF Side
<1> HIDE DEF r
<1>5. MessageOK(r)
  BY <1>1, <1>2, <1>3, Zenon DEF MessageOK, SlotOK
<1>6. \A m \in wire' : m \in Sendable \/ m = r
  BY <1>1, JoinedFacts, SMT DEF Sendable
<1>7. QuietMove
  BY <1>1, <1>4, <1>5, <1>6, Zenon DEF QuietMove
<1> QED
  BY <1>7, QuietStep, Zenon

-----------------------------------------------------------------------------
(***************************************************************************)
(* The two threads of a peer.                                              *)
(***************************************************************************)

\* A datagram that goes to the other side stays where it is.
LEMMA OthersStay ==
  ASSUME NEW p, NEW m, m.to = p, NEW s, NEW replies, Settle(p, m, s, replies)
  PROVE  \A x \in wire : x.to # p => x \in wire'
<1>1. wire' = Joined(wire \ {m}, replies) \/ wire' = Joined(wire, replies)
  BY Zenon DEF Settle
<1>2. wire \ {m} \subseteq wire'
  BY <1>1, Zenon DEF Joined
<1> QED
  BY <1>2, Zenon

\* A step of p's threads leaves the other side's alone.
ThreadMove(p) ==
  /\ worker' \in [Side -> {"idle", "expired"}]
  /\ reader' \in [Side -> {"idle", "handle", "attempt", "reset", "crashed"}]
  /\ DOMAIN held' = Side
  /\ \A q \in Side : q # p => /\ slot'[q] = slot[q] /\ worker'[q] = worker[q]
                              /\ reader'[q] = reader[q] /\ held'[q] = held[q]
  /\ \A x \in wire : x.to # p => x \in wire'

\* Such a step keeps the invariant of the threads if p's own are where they can be.
LEMMA ThreadsStep ==
  ASSUME ThreadsInv, NEW p \in Side, ThreadMove(p), ThreadsOK(p)',
         IF p = "client" THEN MetOK' ELSE met' = met
  PROVE  ThreadsInv'
<1>1. ASSUME NEW q \in Side PROVE ThreadsOK(q)'
  <2>1. CASE q = p
    BY <2>1, Zenon
  <2>2. CASE q # p
    <3>1. /\ slot'[q] = slot[q] /\ worker'[q] = worker[q] /\ reader'[q] = reader[q]
          /\ held'[q] = held[q] /\ ThreadsOK(q)
      BY <2>2, Zenon DEF ThreadMove, ThreadsInv
    <3>2. reader[q] = "handle" => held[q] \in wire'
      BY <2>2, <3>1, Zenon DEF ThreadMove, ThreadsOK
    <3> QED
      BY <3>1, <3>2, Zenon DEF ThreadsOK
  <2> QED
    BY <2>1, <2>2, Zenon
<1>2. MetOK'
  <2>1. CASE p = "client"
    BY <2>1, Zenon
  <2>2. CASE p # "client"
    <3>1. /\ slot'["client"] = slot["client"] /\ worker'["client"] = worker["client"]
          /\ reader'["client"] = reader["client"] /\ met' = met /\ MetOK
      BY <2>2, Zenon DEF ThreadMove, ThreadsInv, Side
    <3> QED
      BY <3>1, Zenon DEF MetOK
  <2> QED
    BY <2>1, <2>2, Zenon
<1> QED
  BY <1>1, <1>2, Zenon DEF ThreadMove, ThreadsInv

\* Where the threads stay and only p's slot or the datagrams change.
LEMMA ThreadsRest ==
  ASSUME ThreadsInv, NEW p \in Side, threads' = threads,
         \A q \in Side : q # p => slot'[q] = slot[q],
         \A x \in wire : x.to # p => x \in wire',
         \/ slot'[p] = slot[p] /\ (reader[p] = "idle" \/ wire \subseteq wire')
         \/ worker[p] = "idle" /\ reader[p] = "idle" /\ slot'[p].result # "FAILED"
         \/ worker[p] = "idle" /\ reader[p] \notin {"handle", "attempt"} /\ slot'[p].result = "FREE"
  PROVE  ThreadsInv'
<1>1. worker' = worker /\ reader' = reader /\ held' = held /\ met' = met
  BY Zenon DEF threads
<1>2. ThreadMove(p)
  BY <1>1, Zenon DEF ThreadMove, ThreadsInv
<1>3. ThreadsOK(p) /\ MetOK
  BY Zenon DEF ThreadsInv
<1>4. ThreadsOK(p)'
  BY <1>1, <1>3, Zenon DEF ThreadsOK
<1>5. p = "client" => MetOK'
  BY <1>1, <1>3, Zenon DEF MetOK
<1> QED
  BY <1>1, <1>2, <1>4, <1>5, ThreadsStep, Zenon

\* The worker keeps its place relative to the socket thread.
LEMMA WorkerPlace ==
  ASSUME HandshakeInv, ThreadsInv, NEW p \in Side, Work(p)
  PROVE  ThreadsInv'
<1>1. /\ slot \in [Side -> SlotState] /\ ThreadsOK(p) /\ MetOK
      /\ worker \in [Side -> {"idle", "expired"}]
      /\ reader \in [Side -> {"idle", "handle", "attempt", "reset", "crashed"}]
      /\ DOMAIN held = Side
  BY Zenon DEF HandshakeInv, ThreadsInv
<1>2. CASE Update(p)
  <2>1. slot[p].result = "IN_PROGRESS" /\ reader' = reader /\ held' = held
    BY <1>2, Zenon DEF Update
  <2>2. CASE worker' = [worker EXCEPT ![p] = "expired"] /\ Meets(p, reader[p]) /\ slot' = slot /\ wire' = wire
    <3>1. worker'[p] = "expired" /\ \A q \in Side : q # p => worker'[q] = worker[q]
      BY <1>1, <2>2, Zenon
    <3>2. ThreadMove(p)
      BY <1>1, <2>1, <2>2, <3>1, Zenon DEF ThreadMove
    <3>3. ThreadsOK(p)'
      BY <1>1, <2>1, <2>2, <3>1, Zenon DEF ThreadsOK
    <3>4. p = "client" => MetOK'
      BY <2>1, <2>2, Zenon DEF MetOK, Meets
    <3>5. p # "client" => met' = met
      BY <2>2, Zenon DEF Meets
    <3> QED
      BY <3>2, <3>3, <3>4, <3>5, ThreadsStep, Zenon
  <2>3. CASE /\ slot' = [slot EXCEPT ![p] = Retried(slot[p])] /\ worker' = worker /\ met' = met
             /\ wire' = IF slot[p].last = NoPart THEN wire
                        ELSE Joined(wire, {Sealed(p, slot[p].last, slot[p].key)})
    <3>1. /\ slot'[p].result = slot[p].result /\ slot'[p].key = slot[p].key
          /\ slot'[p].kx = slot[p].kx
      <4>1. slot'[p] = Retried(slot[p]) /\ slot[p] \in SlotState
        BY <1>1, <2>3, Zenon
      <4> QED
        BY <4>1, Zenon DEF Retried, SlotState
    <3>2. wire \subseteq wire' /\ \A q \in Side : q # p => slot'[q] = slot[q]
      BY <1>1, <2>3, Zenon DEF Joined
    <3>3. ThreadMove(p)
      BY <1>1, <2>1, <2>3, <3>2, Zenon DEF ThreadMove
    <3>4. ThreadsOK(p)'
      BY <1>1, <2>1, <2>3, <3>1, <3>2, Zenon DEF ThreadsOK
    <3>5. p = "client" => MetOK'
      BY <1>1, <2>1, <2>3, <3>1, Zenon DEF MetOK
    <3> QED
      BY <2>3, <3>3, <3>4, <3>5, ThreadsStep, Zenon
  <2> QED
    BY <1>2, <2>2, <2>3, Zenon DEF Update
<1>3. CASE Expires(p)
  <2>1. /\ slot' = [slot EXCEPT ![p] = FreeSlot] /\ worker' = [worker EXCEPT ![p] = "idle"]
        /\ reader' = reader /\ held' = held /\ met' = met /\ wire' = wire
        /\ worker[p] = "expired"
    BY <1>3, Zenon DEF Expires, AfterFailure
  <2>2. /\ slot'[p].result = "FREE" /\ worker'[p] = "idle"
        /\ \A q \in Side : q # p => slot'[q] = slot[q] /\ worker'[q] = worker[q]
    BY <1>1, <2>1, Zenon DEF FreeSlot
  <2>3. ThreadMove(p)
    BY <1>1, <2>1, <2>2, Zenon DEF ThreadMove
  <2>4. ThreadsOK(p)'
    BY <1>1, <2>1, <2>2, Zenon DEF ThreadsOK
  <2>5. p = "client" => MetOK'
    BY <2>2, Zenon DEF MetOK
  <2> QED
    BY <2>1, <2>3, <2>4, <2>5, ThreadsStep, Zenon
<1> QED
  BY <1>2, <1>3, Zenon DEF Work

\* Where the socket thread goes when it reads a datagram.
LEMMA ReadPlace ==
  ASSUME HandshakeInv, ThreadsInv, NEW p \in Side, Read(p)
  PROVE  ThreadsInv'
<1>1. /\ slot \in [Side -> SlotState] /\ ThreadsOK(p) /\ MetOK
      /\ worker \in [Side -> {"idle", "expired"}]
      /\ reader \in [Side -> {"idle", "handle", "attempt", "reset", "crashed"}]
      /\ DOMAIN held = Side /\ reader[p] = "idle"
  BY Zenon DEF HandshakeInv, ThreadsInv, Read
<1>2. PICK m \in wire :
        /\ m.to = p
        /\ \/ ReadIgnored(p, m) \/ ReadRejected(p, m) \/ OnNewIncomingPeer(p, m)
           \/ ReadUnreadable(p, m) \/ ReadLink(p, m) \/ ReadPart(p, m)
  BY Zenon DEF Read
<1>3. ASSUME NEW r, Settle(p, m, slot[p], r)
      PROVE  slot' = slot /\ \A x \in wire : x.to # p => x \in wire'
  <2>1. slot' = [slot EXCEPT ![p] = slot[p]]
    BY <1>3, Zenon DEF Settle
  <2>2. slot' = slot
    BY <1>1, <2>1, SMT
  <2>3. m.to = p
    BY <1>2, Zenon
  <2>4. \A x \in wire : x.to # p => x \in wire'
    BY <1>3, <2>3, OthersStay, Zenon
  <2> QED
    BY <2>2, <2>4, Zenon
<1>4. ASSUME NEW r, Settle(p, m, slot[p], r), threads' = threads
      PROVE  ThreadsInv'
  <2>1. slot' = slot /\ \A x \in wire : x.to # p => x \in wire'
    BY <1>3, <1>4, Zenon
  <2> QED
    BY <1>1, <1>4, <2>1, ThreadsRest, Zenon
<1>5. ASSUME Ignores(p, m) PROVE ThreadsInv'
  BY <1>4, <1>5, Zenon DEF Ignores
<1>6. ASSUME DisconnectImmediate(p, m), slot[p].result # "FREE" PROVE ThreadsInv'
  <2>1. /\ slot' = slot /\ worker' = worker /\ held' = held
        /\ \A x \in wire : x.to # p => x \in wire'
    BY <1>3, <1>6, Zenon DEF DisconnectImmediate
  <2>2. \/ slot[p].result = "OK" /\ reader' = [reader EXCEPT ![p] = "reset"]
        \/ slot[p].result = "IN_PROGRESS" /\ reader' = [reader EXCEPT ![p] = "attempt"]
    <3>1. slot[p].result \in {"FREE", "IN_PROGRESS", "OK", "FAILED"} /\ slot[p].result # "FAILED"
      BY <1>1, Zenon DEF SlotState, ThreadsOK
    <3> QED
      BY <1>6, <3>1, Zenon DEF DisconnectImmediate
  <2>3. /\ \/ slot[p].result = "OK" /\ reader'[p] = "reset"
           \/ slot[p].result = "IN_PROGRESS" /\ reader'[p] = "attempt"
        /\ \A q \in Side : q # p => reader'[q] = reader[q]
        /\ reader' \in [Side -> {"idle", "handle", "attempt", "reset", "crashed"}]
    BY <1>1, <2>2, Zenon
  <2>4. ThreadMove(p)
    BY <1>1, <2>1, <2>3, Zenon DEF ThreadMove
  <2>5. ThreadsOK(p)'
    BY <1>1, <2>1, <2>3, Zenon DEF ThreadsOK
  <2>6. p = "client" => MetOK'
    <3>1. Meets(p, worker[p])
      BY <1>6, Zenon DEF DisconnectImmediate
    <3> QED
      BY <2>1, <3>1, Zenon DEF MetOK, Meets
  <2>7. p # "client" => met' = met
    BY <1>6, Zenon DEF DisconnectImmediate, Meets
  <2> QED
    BY <2>4, <2>5, <2>6, <2>7, ThreadsStep, Zenon
<1>7. ASSUME Waits(p, m), slot'[p].result = "IN_PROGRESS", m.key = slot'[p].key,
             \A q \in Side : q # p => slot'[q] = slot[q], p = "client" => MetOK',
             p # "client" => met' = met
      PROVE  ThreadsInv'
  <2>1. /\ reader' = [reader EXCEPT ![p] = "handle"] /\ held' = [held EXCEPT ![p] = m]
        /\ wire' = wire /\ worker' = worker
    BY <1>7, Zenon DEF Waits
  <2>2. /\ reader'[p] = "handle" /\ held'[p] = m /\ DOMAIN held' = Side
        /\ \A q \in Side : q # p => reader'[q] = reader[q] /\ held'[q] = held[q]
        /\ reader' \in [Side -> {"idle", "handle", "attempt", "reset", "crashed"}]
    BY <1>1, <2>1, Zenon
  <2>3. ThreadMove(p)
    BY <1>1, <1>7, <2>1, <2>2, Zenon DEF ThreadMove
  <2>4. ThreadsOK(p)'
    BY <1>1, <1>2, <1>7, <2>1, <2>2, Zenon DEF ThreadsOK
  <2> QED
    BY <1>7, <2>3, <2>4, ThreadsStep, Zenon
<1>8. CASE ReadIgnored(p, m)
  BY <1>5, <1>8, Zenon DEF ReadIgnored
<1>9. CASE ReadRejected(p, m)
  BY <1>4, <1>9, Zenon DEF ReadRejected
<1>10. CASE OnNewIncomingPeer(p, m)
  <2>1. /\ p = "server" /\ m.key = NoKey /\ slot' = [slot EXCEPT ![p] = Fresh(p, "none")]
        /\ Waits(p, m) /\ met' = met
    BY <1>10, Zenon DEF OnNewIncomingPeer
  <2>2. slot'[p] = Fresh(p, "none") /\ \A q \in Side : q # p => slot'[q] = slot[q]
    BY <1>1, <2>1, Zenon
  <2>3. slot'[p].result = "IN_PROGRESS" /\ slot'[p].key = NoKey
    BY <2>2, Zenon DEF Fresh, FreeSlot
  <2> QED
    BY <1>7, <2>1, <2>2, <2>3, Zenon
<1>11. CASE ReadUnreadable(p, m)
  BY <1>5, <1>6, <1>11, Zenon DEF ReadUnreadable
<1>12. CASE ReadLink(p, m)
  BY <1>5, <1>6, <1>12, Zenon DEF ReadLink
<1>13. CASE ReadPart(p, m)
  <2>1. ASSUME Waits(p, m), Meets(p, worker[p]), slot' = slot, slot[p].result = "IN_PROGRESS"
        PROVE  ThreadsInv'
    <3>1. m.key = slot'[p].key
      BY <1>13, <2>1, Zenon DEF ReadPart, Readable, Decrypts
    <3>2. p = "client" => MetOK'
      BY <2>1, Zenon DEF MetOK, Meets, Waits
    <3>3. p # "client" => met' = met
      BY <2>1, Zenon DEF Meets
    <3> QED
      BY <1>7, <2>1, <3>1, <3>2, <3>3, Zenon
  <2> QED
    BY <1>5, <1>13, <2>1, Zenon DEF ReadPart
<1> QED
  BY <1>2, <1>8, <1>9, <1>10, <1>11, <1>12, <1>13, Zenon

\* A slot whose handshake goes on.
Ongoing(t, s) ==
  t.result = "IN_PROGRESS" /\ t.kx = s.kx /\ "result" \in DOMAIN t /\ "kx" \in DOMAIN t

\* It stays so whatever else of the slot changes.
LEMMA OngoingStays ==
  ASSUME NEW s, NEW t, Ongoing(t, s), NEW v
  PROVE  /\ Ongoing([t EXCEPT !.expected = v], s) /\ Ongoing([t EXCEPT !.stage = v], s)
         /\ Ongoing([t EXCEPT !.key = v], s) /\ Ongoing([t EXCEPT !.last = v], s)
         /\ Ongoing([t EXCEPT !.attempts = v], s)
         /\ [t EXCEPT !.result = "OK"].result = "OK" /\ "result" \in DOMAIN [t EXCEPT !.result = "OK"]
BY Zenon DEF Ongoing

\* What becomes of a handshake for which m was handled: it goes on, or it is over
\* and reported.
Outcome(p, s, m) ==
  \E t, replies :
    /\ Settle(p, m, t, replies)
    /\ \/ t.result = "IN_PROGRESS" /\ t.kx = s.kx /\ notices' = notices
       \/ /\ t.result \in {"FREE", "OK"}
          /\ \E n : /\ n.attempt = s.kx
                    /\ notices' = IF p = "server" THEN notices ELSE Append(notices, n)

\* A reply leaves it in progress.
LEMMA ReplyOutcome ==
  ASSUME NEW p, NEW m, NEW s, NEW t, Ongoing(t, s), NEW part, NEW key, Reply(p, m, t, part, key)
  PROVE  Outcome(p, s, m)
<1>1. Ongoing([t EXCEPT !.last = part, !.attempts = 1], s)
  BY Zenon DEF Ongoing
<1>2. /\ Settle(p, m, [t EXCEPT !.last = part, !.attempts = 1], {Sealed(p, part, key)})
      /\ notices' = notices
  BY Zenon DEF Reply
<1> QED
  BY <1>1, <1>2, Zenon DEF Outcome, Ongoing

\* Success and failure are reported.
LEMMA OverOutcome ==
  ASSUME NEW p, NEW m, NEW s, NEW t, Ongoing(t, s), NEW replies,
         \/ Succeed(p, m, t, replies)
         \/ \E problem : Fail(p, m, t, replies, problem)
  PROVE  Outcome(p, s, m)
<1>1. PICK x, result :
        Settle(p, m, x, replies) /\ x.result \in {"FREE", "OK"} /\ Report(p, t, result)
  <2>1. CASE Succeed(p, m, t, replies)
    <3>1. [t EXCEPT !.result = "OK", !.last = NoPart, !.attempts = 0].result = "OK"
      BY Zenon DEF Ongoing
    <3> QED
      BY <2>1, <3>1, Zenon DEF Succeed
  <2>2. CASE \E problem : Fail(p, m, t, replies, problem)
    <3>1. FreeSlot.result = "FREE"
      BY Zenon DEF FreeSlot
    <3> QED
      BY <2>2, <3>1, Zenon DEF Fail, AfterFailure
  <2> QED
    BY <2>1, <2>2, Zenon
<1>2. PICK n : n = [attempt |-> t.kx, result |-> result, key |-> t.key]
  BY Zenon
<1>3. n.attempt = s.kx
  BY <1>2, Zenon DEF Ongoing
<1>4. notices' = IF p = "server" THEN notices ELSE Append(notices, n)
  BY <1>1, <1>2, Zenon DEF Report
<1> QED
  BY <1>1, <1>3, <1>4, Zenon DEF Outcome

\* Handle has one of these outcomes.
LEMMA HandleOutcome ==
  ASSUME NEW p, NEW s, Ongoing(s, s), NEW m, Handle(p, s, m)
  PROVE  Outcome(p, s, m)
<1>1. CASE HandleInitialClient(p, s, m)
  BY <1>1, OngoingStays, ReplyOutcome, OverOutcome, Zenon DEF HandleInitialClient
<1>2. CASE HandleInitialServer(p, s, m)
  BY <1>2, OngoingStays, ReplyOutcome, OverOutcome, Zenon DEF HandleInitialServer
<1>3. CASE HandleAck(p, s, m)
  BY <1>3, OverOutcome, Zenon DEF HandleAck
<1>4. CASE HandleError(p, s, m)
  BY <1>4, OverOutcome, Zenon DEF HandleError
<1>5. CASE HandleMismatch(p, s, m)
  BY <1>5, Zenon DEF HandleMismatch, Outcome, Ongoing
<1>6. CASE HandleAuthMsg(p, s, m)
  <2>1. CASE KeyExchangeServer(p, s, m)
    <3> DEFINE t == [s EXCEPT !.key = <<m.part.kx, s.kx>>,
                              !.stage = IF m.part.flag THEN "AUTHENTICATION" ELSE "DONE"]
    <3>1. Ongoing(t, s)
      BY Zenon DEF Ongoing
    <3>2. Reply(p, m, t, Part("AUTH_MSG", "KEY_EXCHANGE", s.kx, FALSE), NoKey)
      BY <2>1, Zenon DEF KeyExchangeServer
    <3> HIDE DEF t
    <3> QED
      BY <3>1, <3>2, ReplyOutcome, Zenon
  <2>2. CASE KeyExchangeClient(p, s, m)
    <3> DEFINE t == [s EXCEPT !.key = <<s.kx, m.part.kx>>]
               u == [t EXCEPT !.stage = "AUTHENTICATION"]
    <3>1. Ongoing(t, s) /\ Ongoing(u, s)
      BY Zenon DEF Ongoing
    <3>2. \/ Reply(p, m, u, Part("AUTH_MSG", "AUTHENTICATION", 0, s.pin = "right"), t.key)
          \/ Succeed(p, m, t, {Sealed(p, Part("AUTH_MSG", "DONE", 0, FALSE), t.key)})
      BY <2>2, Zenon DEF KeyExchangeClient
    <3> HIDE DEF t, u
    <3> QED
      BY <3>1, <3>2, ReplyOutcome, OverOutcome, Zenon
  <2>3. CASE ChallengeIncoming(p, s, m)
    BY <2>3, OngoingStays, ReplyOutcome, OverOutcome, Zenon DEF ChallengeIncoming
  <2>4. CASE ChallengeResponse(p, s, m)
    BY <2>4, OverOutcome, Zenon DEF ChallengeResponse
  <2>5. CASE AuthDone(p, s, m)
    BY <2>5, OverOutcome, Zenon DEF AuthDone
  <2>6. CASE Reply(p, m, s, Blank, s.key)
    BY <2>6, ReplyOutcome, Zenon
  <2> QED
    BY <1>6, <2>1, <2>2, <2>3, <2>4, <2>5, <2>6, Zenon DEF HandleAuthMsg
<1> QED
  BY <1>1, <1>2, <1>3, <1>4, <1>5, <1>6, Zenon DEF Handle

\* Where the socket thread is once it has handled the part, completed the handshake
\* or reset the slot.
LEMMA ReaderPlace ==
  ASSUME HandshakeInv, ThreadsInv, NEW p \in Side, HandleLocked(p) \/ Complete(p) \/ Reset(p)
  PROVE  ThreadsInv'
<1>1. /\ slot \in [Side -> SlotState] /\ ThreadsOK(p) /\ MetOK
      /\ worker \in [Side -> {"idle", "expired"}]
      /\ reader \in [Side -> {"idle", "handle", "attempt", "reset", "crashed"}]
      /\ DOMAIN held = Side
  BY Zenon DEF HandshakeInv, ThreadsInv
<1>2. worker' = worker /\ met' = met
  BY Zenon DEF HandleLocked, Complete, Reset
<1>3. CASE Crashes(p)
  <2>1. /\ slot' = slot /\ wire' = wire /\ held' = held /\ slot[p].result = "FREE"
        /\ reader'[p] = "crashed" /\ \A q \in Side : q # p => reader'[q] = reader[q]
        /\ reader' \in [Side -> {"idle", "handle", "attempt", "reset", "crashed"}]
    BY <1>1, <1>3, Zenon DEF Crashes
  <2>2. ThreadMove(p)
    BY <1>1, <1>2, <2>1, Zenon DEF ThreadMove
  <2>3. ThreadsOK(p)' /\ worker[p] # "expired"
    BY <1>1, <1>2, <2>1, Zenon DEF ThreadsOK
  <2>4. p = "client" => MetOK'
    BY <1>2, <2>3, Zenon DEF MetOK
  <2> QED
    BY <1>2, <2>2, <2>3, <2>4, ThreadsStep, Zenon
<1>4. ASSUME worker[p] = "idle", reader' = [reader EXCEPT ![p] = "idle"], DOMAIN held' = Side,
             \A q \in Side : q # p => slot'[q] = slot[q] /\ held'[q] = held[q],
             \A x \in wire : x.to # p => x \in wire', slot'[p].result # "FAILED"
      PROVE  ThreadsInv'
  <2>1. /\ reader'[p] = "idle" /\ \A q \in Side : q # p => reader'[q] = reader[q]
        /\ reader' \in [Side -> {"idle", "handle", "attempt", "reset", "crashed"}]
    BY <1>1, <1>4, Zenon
  <2>2. ThreadMove(p)
    BY <1>1, <1>2, <1>4, <2>1, Zenon DEF ThreadMove
  <2>3. ThreadsOK(p)'
    BY <1>2, <1>4, <2>1, Zenon DEF ThreadsOK
  <2>4. p = "client" => MetOK'
    BY <2>1, Zenon DEF MetOK
  <2> QED
    BY <1>2, <2>2, <2>3, <2>4, ThreadsStep, Zenon
<1>5. CASE HandleLocked(p)
  <2>1. ASSUME slot[p].result # "FREE", Handle(p, slot[p], held[p]),
               reader' = [reader EXCEPT ![p] = "idle"], held' = [held EXCEPT ![p] = NoDatagram]
        PROVE  ThreadsInv'
    <3>1. /\ slot[p].result = "IN_PROGRESS" /\ held[p].to = p /\ worker[p] = "idle"
          /\ slot[p] \in SlotState
      BY <1>1, <1>5, <2>1, Zenon DEF ThreadsOK, HandleLocked
    <3>2. Ongoing(slot[p], slot[p])
      BY <3>1, Zenon DEF Ongoing, SlotState
    <3>3. Outcome(p, slot[p], held[p])
      BY <2>1, <3>2, HandleOutcome, Zenon
    <3>4. PICK t, replies : Settle(p, held[p], t, replies) /\ t.result # "FAILED"
      BY <3>3, Zenon DEF Outcome
    <3>5. \A x \in wire : x.to # p => x \in wire'
      BY <3>1, <3>4, OthersStay, Zenon
    <3>6. slot' = [slot EXCEPT ![p] = t]
      BY <3>4, Zenon DEF Settle
    <3>7. /\ slot'[p].result # "FAILED" /\ DOMAIN held' = Side
          /\ \A q \in Side : q # p => slot'[q] = slot[q] /\ held'[q] = held[q]
      BY <1>1, <2>1, <3>4, <3>6, Zenon
    <3> QED
      BY <1>4, <2>1, <3>1, <3>5, <3>7, Zenon
  <2> QED
    BY <1>3, <1>5, <2>1, Zenon DEF HandleLocked
<1>6. CASE Complete(p)
  <2>1. ASSUME slot[p].result # "FREE", slot' = [slot EXCEPT ![p] = Failed(slot[p])],
               reader' = [reader EXCEPT ![p] = "reset"], wire' = wire, held' = held
        PROVE  ThreadsInv'
    <3>1. slot[p].result = "IN_PROGRESS" /\ slot[p] \in SlotState /\ reader[p] = "attempt"
      BY <1>1, <1>6, <2>1, Zenon DEF ThreadsOK, Complete
    <3>2. /\ slot'[p] = Failed(slot[p]) /\ \A q \in Side : q # p => slot'[q] = slot[q]
          /\ reader'[p] = "reset" /\ \A q \in Side : q # p => reader'[q] = reader[q]
          /\ reader' \in [Side -> {"idle", "handle", "attempt", "reset", "crashed"}]
      BY <1>1, <2>1, Zenon
    <3>3. slot'[p].result = "FAILED" /\ slot'[p].kx = slot[p].kx
      BY <3>1, <3>2, FailedFields, Zenon
    <3>4. ThreadMove(p)
      BY <1>1, <1>2, <2>1, <3>2, Zenon DEF ThreadMove
    <3>5. ThreadsOK(p)'
      BY <3>2, <3>3, Zenon DEF ThreadsOK
    <3>6. p = "client" => MetOK'
      BY <1>1, <1>2, <3>1, <3>3, Zenon DEF MetOK
    <3> QED
      BY <1>2, <3>4, <3>5, <3>6, ThreadsStep, Zenon
  <2> QED
    BY <1>3, <1>6, <2>1, Zenon DEF Complete
<1>7. CASE Reset(p)
  <2>1. /\ slot' = [slot EXCEPT ![p] = FreeSlot] /\ reader' = [reader EXCEPT ![p] = "idle"]
        /\ held' = held /\ wire' = wire /\ worker[p] = "idle"
    BY <1>7, Zenon DEF Reset
  <2>2. slot'[p].result # "FAILED" /\ \A q \in Side : q # p => slot'[q] = slot[q]
    BY <1>1, <2>1, Zenon DEF FreeSlot
  <2> QED
    BY <1>1, <1>4, <2>1, <2>2, Zenon
<1> QED
  BY <1>5, <1>6, <1>7, Zenon

\* The application and what is sent over the connection move no thread.
LEMMA OtherPlace ==
  ASSUME HandshakeInv, ThreadsInv,
         Connect \/ \E p \in Side : SendLink(p) \/ Drop(p)
  PROVE  ThreadsInv'
<1>1. slot \in [Side -> SlotState] /\ threads' = threads
  BY Zenon DEF HandshakeInv, Connect, SendLink, Drop
<1>2. \A p \in Side : ThreadsOK(p)
  BY Zenon DEF ThreadsInv
<1>3. CASE Connect
  <2>1. PICK s : slot' = [slot EXCEPT !["client"] = s] /\ s.result = "IN_PROGRESS"
    <3>1. PICK pin : slot' = [slot EXCEPT !["client"] =
            [Fresh("client", pin) EXCEPT !.expected = "INITIAL_SERVER",
                  !.last = Part("INITIAL_CLIENT", "NONE", 0, encryption["client"]), !.attempts = 1]]
      BY <1>3, Zenon DEF Connect
    <3>2. [Fresh("client", pin) EXCEPT !.expected = "INITIAL_SERVER",
                  !.last = Part("INITIAL_CLIENT", "NONE", 0, encryption["client"]),
                  !.attempts = 1].result = "IN_PROGRESS"
      BY Zenon DEF Fresh, FreeSlot
    <3> QED
      BY <3>1, <3>2, Zenon
  <2>2. /\ slot["client"].result = "FREE" /\ reader["client"] = "idle" /\ "client" \in Side
        /\ \A x \in wire : x \in wire'
    BY <1>3, Zenon DEF Connect, Joined, Side
  <2>3. worker["client"] = "idle"
    BY <1>2, <2>2, Zenon DEF ThreadsInv, ThreadsOK
  <2>4. slot'["client"].result # "FAILED" /\ \A q \in Side : q # "client" => slot'[q] = slot[q]
    BY <1>1, <2>1, <2>2, Zenon
  <2> QED
    BY <1>1, <2>2, <2>3, <2>4, ThreadsRest, Zenon
<1>4. ASSUME NEW p \in Side, SendLink(p) PROVE ThreadsInv'
  <2>1. slot' = slot /\ wire \subseteq wire'
    BY <1>4, Zenon DEF SendLink, Joined
  <2> QED
    BY <1>1, <2>1, ThreadsRest, Zenon
<1>5. ASSUME NEW p \in Side, Drop(p) PROVE ThreadsInv'
  <2>1. slot' = [slot EXCEPT ![p] = FreeSlot] /\ wire' = wire /\ slot[p].result = "OK"
    BY <1>5, Zenon DEF Drop
  <2>2. slot'[p].result = "FREE" /\ \A q \in Side : q # p => slot'[q] = slot[q]
    BY <1>1, <2>1, Zenon DEF FreeSlot
  <2>3. worker[p] = "idle" /\ reader[p] \notin {"handle", "attempt"}
    BY <1>2, <2>1, Zenon DEF ThreadsInv, ThreadsOK
  <2> QED
    BY <1>1, <2>1, <2>2, <2>3, ThreadsRest, Zenon
<1> QED
  BY <1>3, <1>4, <1>5, Zenon

-----------------------------------------------------------------------------
(***************************************************************************)
(* What the client's application is told of its attempts.                  *)
(***************************************************************************)

\* The notices about an attempt, and whether it goes on.
Told(a) == {k \in DOMAIN notices : notices[k].attempt = a}
Open(a) == slot["client"].result = "IN_PROGRESS" /\ slot["client"].kx = a

\* ReportedOnce for one attempt.
OnceOK(a) == (Open(a) <=> Told(a) = {}) /\ (a \in met \/ \A j, k \in Told(a) : j = k)

\* ReportedOnce, attempt by attempt.
LEMMA OnceMeans == ReportedOnce <=> \A a \in 1 .. setups["client"] : OnceOK(a)
BY Zenon DEF ReportedOnce, OnceOK, Told, Open

\* A step that tells nothing and neither begins nor ends an attempt.
LEMMA OnceQuiet ==
  ASSUME ReportedOnce, setups'["client"] = setups["client"], notices' = notices,
         met \subseteq met', \A a : Open(a)' <=> Open(a)
  PROVE  ReportedOnce'
<1>1. ASSUME NEW a \in 1 .. setups["client"] PROVE OnceOK(a)'
  <2>1. OnceOK(a) /\ Told(a)' = Told(a) /\ (Open(a)' <=> Open(a))
    BY OnceMeans, Zenon DEF Told
  <2> QED
    BY <2>1, Zenon DEF OnceOK
<1>2. \A a \in 1 .. setups'["client"] : OnceOK(a)'
  BY <1>1, Zenon
<1> QED
  BY <1>2, Zenon DEF ReportedOnce, OnceOK, Told, Open

\* The notice that ends the attempt of the client's slot.  It is the first one unless
\* the two threads have met.
LEMMA OnceTold ==
  ASSUME HandshakeInv, ReportedOnce, setups'["client"] = setups["client"], met \subseteq met',
         NEW n, n.attempt = slot["client"].kx, notices' = Append(notices, n),
         slot["client"].result = "IN_PROGRESS" \/ slot["client"].kx \in met,
         slot'["client"].result # "IN_PROGRESS"
  PROVE  ReportedOnce'
<1>1. /\ DOMAIN notices' = DOMAIN notices \cup {Len(notices) + 1}
      /\ notices'[Len(notices) + 1] = n
      /\ \A k \in DOMAIN notices : notices'[k] = notices[k]
  <2>1. notices \in Seq(Notice)
    BY Zenon DEF HandshakeInv
  <2> QED
    BY <2>1, SMT
<1>2. PICK e : e = Len(notices) + 1
  BY Zenon
<1>3. ASSUME NEW a \in 1 .. setups["client"] PROVE OnceOK(a)'
  <2>1. OnceOK(a) /\ ~ Open(a)'
    BY OnceMeans, Zenon DEF Open
  <2>2. CASE a = slot["client"].kx
    <3>1. Told(a)' = Told(a) \cup {e}
      BY <1>1, <1>2, <2>2, Zenon DEF Told
    <3>2. CASE slot["client"].result = "IN_PROGRESS"
      <4>1. Told(a) = {}
        BY <2>1, <2>2, <3>2, Zenon DEF OnceOK, Open
      <4>2. Told(a)' = {e}
        BY <3>1, <4>1, Zenon
      <4> QED
        BY <2>1, <4>2, Zenon DEF OnceOK
    <3>3. CASE slot["client"].kx \in met
      <4>1. a \in met'
        BY <2>2, <3>3, Zenon
      <4>2. Told(a)' # {}
        BY <3>1, Zenon
      <4> QED
        BY <2>1, <4>1, <4>2, Zenon DEF OnceOK
    <3> QED
      BY <3>2, <3>3, Zenon
  <2>3. CASE a # slot["client"].kx
    <3>1. Told(a)' = Told(a)
      BY <1>1, <2>3, Zenon DEF Told
    <3>2. ~ Open(a)
      BY <2>3, Zenon DEF Open
    <3> QED
      BY <2>1, <3>1, <3>2, Zenon DEF OnceOK
  <2> QED
    BY <2>2, <2>3, Zenon
<1>4. \A a \in 1 .. setups'["client"] : OnceOK(a)'
  BY <1>3, Zenon
<1> QED
  BY <1>4, Zenon DEF ReportedOnce, OnceOK, Told, Open

\* A new attempt is in progress, and nothing is known of it.
LEMMA OnceConnect ==
  ASSUME HandshakeInv, ReportedOnce, Connect
  PROVE  ReportedOnce'
<1>1. /\ slot["client"].result = "FREE" /\ notices' = notices /\ met' = met
      /\ setups' = [setups EXCEPT !["client"] = @ + 1] /\ setups["client"] \in Nat
      /\ slot \in [Side -> SlotState] /\ setups \in [Side -> Nat] /\ "client" \in Side
  BY Zenon DEF Connect, threads, HandshakeInv, Side
<1>2. PICK pin : slot' = [slot EXCEPT !["client"] =
            [Fresh("client", pin) EXCEPT !.expected = "INITIAL_SERVER",
                  !.last = Part("INITIAL_CLIENT", "NONE", 0, encryption["client"]), !.attempts = 1]]
  BY Zenon DEF Connect
<1>3. /\ [Fresh("client", pin) EXCEPT !.expected = "INITIAL_SERVER",
               !.last = Part("INITIAL_CLIENT", "NONE", 0, encryption["client"]),
               !.attempts = 1].result = "IN_PROGRESS"
      /\ [Fresh("client", pin) EXCEPT !.expected = "INITIAL_SERVER",
               !.last = Part("INITIAL_CLIENT", "NONE", 0, encryption["client"]),
               !.attempts = 1].kx = setups["client"] + 1
  BY Zenon DEF Fresh, FreeSlot
<1>4. slot'["client"].result = "IN_PROGRESS" /\ slot'["client"].kx = setups["client"] + 1
  BY <1>1, <1>2, <1>3, Zenon
<1>5. setups'["client"] = setups["client"] + 1
  BY <1>1, Zenon
<1>6. PICK e : e = setups["client"] + 1
  BY Zenon
<1>7. ASSUME NEW a \in 1 .. setups["client"] PROVE OnceOK(a)'
  <2>1. OnceOK(a) /\ Told(a)' = Told(a) /\ ~ Open(a)
    BY <1>1, OnceMeans, Zenon DEF Told, Open
  <2>2. a # e
    BY <1>1, <1>6, SMT
  <2>3. ~ Open(a)'
    BY <1>4, <1>6, <2>2, Zenon DEF Open
  <2> QED
    BY <1>1, <2>1, <2>3, Zenon DEF OnceOK
<1>8. OnceOK(e)'
  <2>1. \A k \in DOMAIN notices : notices[k].attempt # e
    BY <1>1, <1>6, SMT DEF HandshakeInv, NoticesOK
  <2>2. Told(e)' = {} /\ Open(e)'
    BY <1>1, <1>4, <1>6, <2>1, Zenon DEF Told, Open
  <2> QED
    BY <2>2, Zenon DEF OnceOK
<1>9. \A a \in 1 .. setups'["client"] : a \in 1 .. setups["client"] \/ a = e
  BY <1>1, <1>5, <1>6, SMT
<1>10. \A a \in 1 .. setups'["client"] : OnceOK(a)'
  BY <1>7, <1>8, <1>9, Zenon
<1> QED
  BY <1>10, Zenon DEF ReportedOnce, OnceOK, Told, Open

\* The server's steps tell the client's application nothing.
LEMMA OnceServer ==
  ASSUME HandshakeInv, ThreadsInv, ReportedOnce,
         Work("server") \/ SendLink("server") \/ Drop("server") \/ Receive("server")
  PROVE  ReportedOnce'
<1>1. /\ slot \in [Side -> SlotState] /\ setups \in [Side -> Nat]
      /\ "client" \in Side /\ "server" \in Side
  BY Zenon DEF HandshakeInv, Side
<1>2. ASSUME notices' = notices, met' = met, setups'["client"] = setups["client"],
             slot' = slot \/ \E s : slot' = [slot EXCEPT !["server"] = s]
      PROVE  ReportedOnce'
  <2>1. slot'["client"] = slot["client"]
    BY <1>1, <1>2, Zenon
  <2>2. \A a : Open(a)' <=> Open(a)
    BY <2>1, Zenon DEF Open
  <2> QED
    BY <1>2, <2>2, OnceQuiet, Zenon
<1>3. CASE Update("server")
  BY <1>2, <1>3, Zenon DEF Update, Meets
<1>4. CASE Expires("server")
  BY <1>2, <1>4, Zenon DEF Expires, Report
<1>5. CASE SendLink("server") \/ Drop("server")
  BY <1>2, <1>5, Zenon DEF SendLink, Drop, threads
<1>6. CASE Read("server")
  <2>1. PICK m \in wire :
          \/ ReadIgnored("server", m) \/ ReadRejected("server", m) \/ OnNewIncomingPeer("server", m)
          \/ ReadUnreadable("server", m) \/ ReadLink("server", m) \/ ReadPart("server", m)
    BY <1>6, Zenon DEF Read
  <2>2. CASE OnNewIncomingPeer("server", m)
    <3>1. setups' = [setups EXCEPT !["server"] = @ + 1] /\ notices' = notices /\ met' = met
      BY <2>2, Zenon DEF OnNewIncomingPeer, Waits
    <3>2. setups'["client"] = setups["client"]
      BY <1>1, <3>1, Zenon
    <3> QED
      BY <1>2, <2>2, <3>1, <3>2, Zenon DEF OnNewIncomingPeer
  <2>3. CASE \/ ReadIgnored("server", m) \/ ReadRejected("server", m)
             \/ ReadUnreadable("server", m) \/ ReadLink("server", m) \/ ReadPart("server", m)
    <3>1. notices' = notices /\ met' = met /\ setups' = setups
      BY <2>3, Zenon DEF ReadIgnored, ReadRejected, ReadUnreadable, ReadLink, ReadPart, Ignores,
                         DisconnectImmediate, Waits, Meets, threads
    <3>2. slot' = slot \/ \E s : slot' = [slot EXCEPT !["server"] = s]
      BY <2>3, Zenon DEF ReadIgnored, ReadRejected, ReadUnreadable, ReadLink, ReadPart, Ignores,
                         DisconnectImmediate, Settle
    <3> QED
      BY <1>2, <3>1, <3>2, Zenon
  <2> QED
    BY <2>1, <2>2, <2>3, Zenon
<1>7. ASSUME Crashes("server"), setups' = setups, met' = met PROVE ReportedOnce'
  BY <1>2, <1>7, Zenon DEF Crashes
<1>8. CASE HandleLocked("server")
  <2>1. ASSUME slot["server"].result # "FREE", Handle("server", slot["server"], held["server"])
        PROVE  ReportedOnce'
    <3>1. slot["server"].result = "IN_PROGRESS" /\ slot["server"] \in SlotState
      BY <1>1, <1>8, <2>1, Zenon DEF HandleLocked, ThreadsInv, ThreadsOK
    <3>2. Outcome("server", slot["server"], held["server"])
      BY <2>1, <3>1, HandleOutcome, Zenon DEF Ongoing, SlotState
    <3>3. notices' = notices /\ \E s : slot' = [slot EXCEPT !["server"] = s]
      BY <3>2, Zenon DEF Outcome, Settle
    <3> QED
      BY <1>2, <1>8, <3>3, Zenon DEF HandleLocked
  <2> QED
    BY <1>7, <1>8, <2>1, Zenon DEF HandleLocked
<1>9. CASE Complete("server")
  BY <1>2, <1>7, <1>9, Zenon DEF Complete, Report
<1>10. CASE Reset("server")
  BY <1>2, <1>10, Zenon DEF Reset
<1> QED
  BY <1>3, <1>4, <1>5, <1>6, <1>8, <1>9, <1>10, Zenon DEF Work, Receive

\* The notice says which attempt it is about.
LEMMA CompleteNotice ==
  ASSUME NEW s, NEW result, Report("client", s, result)
  PROVE  \E n : n.attempt = s.kx /\ notices' = Append(notices, n)
<1>1. notices' = Append(notices, [attempt |-> s.kx, result |-> result, key |-> s.key])
  BY Zenon DEF Report
<1>2. [attempt |-> s.kx, result |-> result, key |-> s.key].attempt = s.kx
  BY Zenon
<1> QED
  BY <1>1, <1>2, Zenon

\* The client's worker reports a timeout.
LEMMA OnceWork ==
  ASSUME HandshakeInv, ThreadsInv, ReportedOnce, Work("client")
  PROVE  ReportedOnce'
<1>1. /\ slot \in [Side -> SlotState] /\ "client" \in Side /\ slot["client"] \in SlotState
      /\ ThreadsOK("client") /\ MetOK
  BY Zenon DEF HandshakeInv, ThreadsInv, Side
<1>2. CASE Update("client")
  <2>1. /\ notices' = notices /\ setups' = setups /\ met \subseteq met'
        /\ slot' = slot \/ slot' = [slot EXCEPT !["client"] = Retried(slot["client"])]
    BY <1>2, Zenon DEF Update, Meets
  <2>2. /\ slot'["client"].result = slot["client"].result
        /\ slot'["client"].kx = slot["client"].kx
    <3>1. slot'["client"] \in {slot["client"], Retried(slot["client"])}
      BY <1>1, <2>1, Zenon
    <3>2. /\ Retried(slot["client"]).result = slot["client"].result
          /\ Retried(slot["client"]).kx = slot["client"].kx
      BY <1>1, Zenon DEF Retried, SlotState
    <3> QED
      BY <3>1, <3>2, Zenon
  <2>3. \A a : Open(a)' <=> Open(a)
    BY <2>2, Zenon DEF Open
  <2> QED
    BY <2>1, <2>3, OnceQuiet, Zenon
<1>3. CASE Expires("client")
  <2>1. /\ setups' = setups /\ met' = met /\ slot' = [slot EXCEPT !["client"] = FreeSlot]
        /\ worker["client"] = "expired" /\ Report("client", slot["client"], "CONNECT_FAILED")
    BY <1>3, Zenon DEF Expires, AfterFailure
  <2>2. slot["client"].result = "IN_PROGRESS" \/ slot["client"].kx \in met
    BY <1>1, <2>1, Zenon DEF ThreadsOK, MetOK
  <2>3. slot'["client"].result # "IN_PROGRESS"
    BY <1>1, <2>1, Zenon DEF FreeSlot
  <2>4. PICK n : n.attempt = slot["client"].kx /\ notices' = Append(notices, n)
    BY <2>1, CompleteNotice, Zenon
  <2> QED
    BY <2>1, <2>2, <2>3, <2>4, OnceTold, Zenon
<1> QED
  BY <1>2, <1>3, Zenon DEF Work

\* The client's socket thread reports what it has ended.
LEMMA OnceReceive ==
  ASSUME HandshakeInv, ThreadsInv, ReportedOnce, Receive("client")
  PROVE  ReportedOnce'
<1>1. /\ slot \in [Side -> SlotState] /\ "client" \in Side /\ slot["client"] \in SlotState
      /\ ThreadsOK("client")
  BY Zenon DEF HandshakeInv, ThreadsInv, Side
<1>2. ASSUME slot' = slot, notices' = notices, setups' = setups, met \subseteq met'
      PROVE  ReportedOnce'
  <2>1. \A a : Open(a)' <=> Open(a)
    BY <1>2, Zenon DEF Open
  <2> QED
    BY <1>2, <2>1, OnceQuiet, Zenon
<1>3. CASE Read("client")
  <2>1. PICK m \in wire :
          \/ ReadIgnored("client", m) \/ ReadRejected("client", m)
          \/ ReadUnreadable("client", m) \/ ReadLink("client", m) \/ ReadPart("client", m)
    BY <1>3, Zenon DEF Read, OnNewIncomingPeer
  <2>2. notices' = notices /\ setups' = setups /\ met \subseteq met'
    BY <2>1, Zenon DEF ReadIgnored, ReadRejected, ReadUnreadable, ReadLink, ReadPart, Ignores,
                       DisconnectImmediate, Waits, Meets, threads
  <2>3. slot' = slot \/ slot' = [slot EXCEPT !["client"] = slot["client"]]
    BY <2>1, Zenon DEF ReadIgnored, ReadRejected, ReadUnreadable, ReadLink, ReadPart, Ignores,
                       DisconnectImmediate, Settle
  <2>4. slot' = slot
    BY <1>1, <2>3, SMT
  <2> QED
    BY <1>2, <2>2, <2>4, Zenon
<1>4. ASSUME Crashes("client"), setups' = setups, met' = met PROVE ReportedOnce'
  BY <1>2, <1>4, Zenon DEF Crashes
<1>5. CASE HandleLocked("client")
  <2>1. ASSUME slot["client"].result # "FREE", Handle("client", slot["client"], held["client"])
        PROVE  ReportedOnce'
    <3>1. /\ slot["client"].result = "IN_PROGRESS" /\ setups' = setups /\ met' = met
      BY <1>1, <1>5, <2>1, Zenon DEF HandleLocked, ThreadsOK
    <3>2. Outcome("client", slot["client"], held["client"])
      BY <1>1, <2>1, <3>1, HandleOutcome, Zenon DEF Ongoing, SlotState
    <3>3. PICK t, replies :
            /\ Settle("client", held["client"], t, replies)
            /\ \/ t.result = "IN_PROGRESS" /\ t.kx = slot["client"].kx /\ notices' = notices
               \/ /\ t.result \in {"FREE", "OK"}
                  /\ \E n : n.attempt = slot["client"].kx /\ notices' = Append(notices, n)
      BY <3>2, Zenon DEF Outcome
    <3>4. slot'["client"] = t
      BY <1>1, <3>3, Zenon DEF Settle
    <3>5. CASE t.result = "IN_PROGRESS" /\ t.kx = slot["client"].kx /\ notices' = notices
      <4>1. \A a : Open(a)' <=> Open(a)
        BY <3>1, <3>4, <3>5, Zenon DEF Open
      <4> QED
        BY <3>1, <3>5, <4>1, OnceQuiet, Zenon
    <3>6. CASE /\ t.result \in {"FREE", "OK"}
               /\ \E n : n.attempt = slot["client"].kx /\ notices' = Append(notices, n)
      <4>1. slot'["client"].result # "IN_PROGRESS"
        BY <3>4, <3>6, Zenon
      <4> QED
        BY <3>1, <3>6, <4>1, OnceTold, Zenon
    <3> QED
      BY <3>3, <3>5, <3>6, Zenon
  <2> QED
    BY <1>4, <1>5, <2>1, Zenon DEF HandleLocked
<1>6. CASE Complete("client")
  <2>1. ASSUME slot["client"].result # "FREE", Report("client", slot["client"], "CONNECT_FAILED"),
               slot' = [slot EXCEPT !["client"] = Failed(slot["client"])]
        PROVE  ReportedOnce'
    <3>1. /\ slot["client"].result = "IN_PROGRESS" /\ setups' = setups /\ met' = met
      BY <1>1, <1>6, <2>1, Zenon DEF Complete, ThreadsOK
    <3>2. slot'["client"].result # "IN_PROGRESS"
      BY <1>1, <2>1, FailedFields, Zenon
    <3>3. PICK n : n.attempt = slot["client"].kx /\ notices' = Append(notices, n)
      BY <2>1, CompleteNotice, Zenon
    <3> QED
      BY <3>1, <3>2, <3>3, OnceTold, Zenon
  <2> QED
    BY <1>4, <1>6, <2>1, Zenon DEF Complete
<1>7. CASE Reset("client")
  <2>1. /\ slot["client"].result # "IN_PROGRESS" /\ notices' = notices /\ setups' = setups
        /\ met' = met /\ slot' = [slot EXCEPT !["client"] = FreeSlot]
    BY <1>1, <1>7, Zenon DEF Reset, ThreadsOK
  <2>2. slot'["client"].result # "IN_PROGRESS"
    BY <1>1, <2>1, Zenon DEF FreeSlot
  <2>3. \A a : Open(a)' <=> Open(a)
    BY <2>1, <2>2, Zenon DEF Open
  <2> QED
    BY <2>1, <2>3, OnceQuiet, Zenon
<1> QED
  BY <1>3, <1>5, <1>6, <1>7, Zenon DEF Receive

-----------------------------------------------------------------------------
(***************************************************************************)
(* The theorems.                                                           *)
(***************************************************************************)

\* Whatever is lost, duplicated, reordered or left over from earlier attempts, and
\* however the worker's timeout and the socket thread meet at a slot, the slots, the
\* datagrams and the notices stay as HandshakeInv says, and the two threads of a
\* peer as ThreadsInv says: no thread handles a part, completes or resets a
\* handshake other than the one it was about.
THEOREM HandshakeInvariant == Spec => [](HandshakeInv /\ ThreadsInv)
<1>1. Init => HandshakeInv
  <2> SUFFICES ASSUME Init PROVE HandshakeInv
    BY Zenon
  <2>1. /\ slot = [p \in Side |-> FreeSlot] /\ setups = [p \in Side |-> 0]
        /\ \A p \in Side : slot[p] = FreeSlot /\ setups[p] = 0
        /\ slot["client"] = FreeSlot /\ slot["server"] = FreeSlot
        /\ setups["client"] = 0 /\ setups["server"] = 0
        /\ wire = {} /\ notices = <<>> /\ DOMAIN notices = {}
    BY SMT DEF Init, Side
  <2>2. /\ FreeSlot.result = "FREE" /\ FreeSlot.expected = "NOT_STARTED"
        /\ FreeSlot.stage = "KEY_EXCHANGE" /\ FreeSlot.kx = 0 /\ FreeSlot.pin = "none"
        /\ FreeSlot.key = NoKey
    BY Zenon DEF FreeSlot
  <2>3. Sendable = {}
    BY <2>1, <2>2, Zenon DEF Sendable
  <2>4. /\ encryption \in Security /\ slot \in [Side -> SlotState] /\ setups \in [Side -> Nat]
        /\ setups["client"] <= MaxConnects /\ setups["server"] <= MaxIncoming
        /\ notices \in Seq(Notice)
    BY <2>1, FreeSlotType, BoundAssumption, SMT DEF Init
  <2>5. \A p \in Side : SlotOK(p)
    BY <2>1, <2>2, Zenon DEF SlotOK
  <2>6. RolesOK /\ NoticesOK /\ SucceedsOnce /\ IdentityVerified
    BY <2>1, <2>2, SMT DEF RolesOK, NoticesOK, SucceedsOnce, IdentityVerified
  <2>7. KeysOK
    BY <2>1, <2>2, <2>3, Zenon DEF KeysOK, ServerKey, ClientKey
  <2> QED
    BY <2>1, <2>2, <2>3, <2>4, <2>5, <2>6, <2>7, Zenon DEF HandshakeInv
<1>2. Init => ThreadsInv
  <2> SUFFICES ASSUME Init PROVE ThreadsInv
    BY Zenon
  <2>1. \A p \in Side : worker[p] = "idle" /\ reader[p] = "idle" /\ slot[p].result = "FREE"
    BY Zenon DEF Init, FreeSlot
  <2>2. /\ worker \in [Side -> {"idle", "expired"}]
        /\ reader \in [Side -> {"idle", "handle", "attempt", "reset", "crashed"}]
        /\ DOMAIN held = Side
    BY Zenon DEF Init
  <2>3. MetOK
    BY <2>1, Zenon DEF MetOK, Side
  <2>4. \A p \in Side : ThreadsOK(p)
    BY <2>1, Zenon DEF ThreadsOK
  <2> QED
    BY <2>2, <2>3, <2>4, Zenon DEF ThreadsInv
<1>3. HandshakeInv /\ ThreadsInv /\ [Next]_vars => HandshakeInv' /\ ThreadsInv'
  <2> SUFFICES ASSUME HandshakeInv, ThreadsInv, [Next]_vars PROVE HandshakeInv' /\ ThreadsInv'
    BY Zenon
  <2>1. CASE Connect
    BY <2>1, Connecting, OtherPlace, Zenon
  <2>2. ASSUME NEW p \in Side, Work(p) PROVE HandshakeInv' /\ ThreadsInv'
    BY <2>2, Updating, Expiring, WorkerPlace, Zenon DEF Work
  <2>3. ASSUME NEW p \in Side, SendLink(p) PROVE HandshakeInv' /\ ThreadsInv'
    BY <2>3, SendingLink, OtherPlace, Zenon
  <2>4. ASSUME NEW p \in Side, Drop(p) PROVE HandshakeInv' /\ ThreadsInv'
    <3>1. HandshakeInv'
      BY <2>4, Freeing, Zenon DEF Drop
    <3> QED
      BY <2>4, <3>1, OtherPlace, Zenon
  <2>5. ASSUME NEW p \in Side, Receive(p) PROVE HandshakeInv' /\ ThreadsInv'
    <3>1. CASE Read(p)
      BY <3>1, Reading, ReadPlace, Zenon
    <3>2. CASE HandleLocked(p) \/ Complete(p)
      BY <3>2, Handling, Completing, ReaderPlace, Zenon
    <3>3. CASE Reset(p)
      <4>1. HandshakeInv'
        BY <3>3, Freeing, Zenon DEF Reset
      <4> QED
        BY <3>3, <4>1, ReaderPlace, Zenon
    <3> QED
      BY <2>5, <3>1, <3>2, <3>3, Zenon DEF Receive
  <2>6. CASE UNCHANGED vars
    <3>1. /\ encryption' = encryption /\ slot' = slot /\ setups' = setups /\ wire' = wire
          /\ notices' = notices /\ worker' = worker /\ reader' = reader /\ held' = held
          /\ met' = met
      BY <2>6, Zenon DEF vars, threads
    <3>2. HandshakeInv'
      BY <3>1, Unmoved, Zenon
    <3>3. ThreadsInv'
      BY <3>1, Zenon DEF ThreadsInv, ThreadsOK, MetOK
    <3> QED
      BY <3>2, <3>3, Zenon
  <2> QED
    BY <2>1, <2>2, <2>3, <2>4, <2>5, <2>6, Zenon DEF Next
<1> QED
  BY <1>1, <1>2, <1>3, PTL DEF Spec

\* An attempt of Connect has been reported if and only if it is over, and it was
\* reported once unless the worker's timeout met the socket thread at its slot
\* (SendHandshakeCompleteNotification).
THEOREM AttemptsReportedOnce == Spec => []ReportedOnce
<1>1. Init => ReportedOnce
  <2> SUFFICES ASSUME Init PROVE ReportedOnce
    BY Zenon
  <2>1. setups["client"] = 0
    BY Zenon DEF Init, Side
  <2>2. 1 .. setups["client"] = {}
    BY <2>1, SMT
  <2> QED
    BY <2>2, Zenon DEF ReportedOnce
<1>2. HandshakeInv /\ ThreadsInv /\ ReportedOnce /\ [Next]_vars => ReportedOnce'
  <2> SUFFICES ASSUME HandshakeInv, ThreadsInv, ReportedOnce, [Next]_vars PROVE ReportedOnce'
    BY Zenon
  <2>1. CASE Connect
    BY <2>1, OnceConnect, Zenon
  <2>2. CASE Work("server") \/ SendLink("server") \/ Drop("server") \/ Receive("server")
    BY <2>2, OnceServer, Zenon
  <2>3. CASE Work("client")
    BY <2>3, OnceWork, Zenon
  <2>4. CASE SendLink("client")
    <3>1. slot' = slot /\ notices' = notices /\ setups' = setups /\ met' = met
      BY <2>4, Zenon DEF SendLink, threads
    <3> QED
      BY <3>1, OnceQuiet, Zenon DEF Open
  <2>5. CASE Drop("client")
    <3>1. /\ slot["client"].result # "IN_PROGRESS" /\ notices' = notices /\ setups' = setups
          /\ met' = met /\ slot' = [slot EXCEPT !["client"] = FreeSlot]
      BY <2>5, Zenon DEF Drop, threads
    <3>2. slot'["client"].result # "IN_PROGRESS"
      BY <3>1, Zenon DEF HandshakeInv, FreeSlot, Side
    <3>3. \A a : Open(a)' <=> Open(a)
      BY <3>1, <3>2, Zenon DEF Open
    <3> QED
      BY <3>1, <3>3, OnceQuiet, Zenon
  <2>6. CASE Receive("client")
    BY <2>6, OnceReceive, Zenon
  <2>7. CASE UNCHANGED vars
    <3>1. slot' = slot /\ notices' = notices /\ setups' = setups /\ met' = met
      BY <2>7, Zenon DEF vars, threads
    <3> QED
      BY <3>1, OnceQuiet, Zenon DEF Open
  <2> QED
    BY <2>1, <2>2, <2>3, <2>4, <2>5, <2>6, <2>7, Zenon DEF Next, Side
<1> QED
  BY <1>1, <1>2, HandshakeInvariant, PTL DEF Spec

\* A client that was given another peer's public key never regards itself as
\* connected (HandleChallengeResponse).
THEOREM IdentityIsVerified == Spec => []IdentityVerified
<1>1. HandshakeInv => IdentityVerified
  BY Zenon DEF HandshakeInv
<1> QED
  BY <1>1, HandshakeInvariant, PTL

\* The two sides of an established connection agree on what was exchanged: the
\* server's key is one that the client completed, and with a verified identity
\* the keys of both are the same.
THEOREM KeysAlwaysAgree == Spec => []KeysAgree
<1>1. HandshakeInv => KeysAgree
  <2> SUFFICES ASSUME HandshakeInv, slot["server"].result = "OK", slot["server"].key # NoKey
               PROVE  /\ Completed(slot["server"].key)
                      /\ slot["client"].result = "OK" /\ slot["client"].pin # "none"
                           => slot["client"].key = slot["server"].key
    BY Zenon DEF KeysAgree, Completed
  <2>1. Completed(slot["server"].key)
    BY Zenon DEF HandshakeInv
  <2>2. ASSUME slot["client"].result = "OK", slot["client"].pin # "none"
        PROVE  slot["client"].key = slot["server"].key
    <3> DEFINE C == slot["client"].key
               S == slot["server"].key
    <3>1. /\ slot["client"] \in SlotState /\ slot["server"] \in SlotState
          /\ SlotOK("client") /\ SlotOK("server")
          /\ setups["client"] \in Nat /\ setups["server"] \in Nat
      BY Zenon DEF HandshakeInv, Side
    <3>2. C # NoKey /\ S # NoKey /\ C \in Key /\ S \in Key
      BY <2>2, <3>1, Zenon DEF HandshakeInv, RolesOK, SlotState
    <3>3. /\ C[1] \in Nat /\ C[2] \in Nat /\ S[1] \in Nat /\ S[2] \in Nat
      BY <3>2, KeyFields, Zenon
    <3>4. /\ C[1] = setups["client"] /\ slot["client"].kx = setups["client"]
          /\ C[2] <= setups["server"] /\ setups["client"] > 0
          /\ S[2] = setups["server"] /\ slot["server"].kx = setups["server"]
          /\ S[1] <= setups["client"]
      BY <2>2, <3>1, <3>2, Zenon DEF SlotOK
    <3>5. PICK j \in DOMAIN notices : notices[j].result = "OK" /\ notices[j].key = S
      BY <2>1, Zenon DEF Completed
    <3>6. PICK k \in DOMAIN notices :
            notices[k].attempt = slot["client"].kx /\ notices[k].result = "OK" /\ notices[k].key = C
      BY <2>2, Zenon DEF HandshakeInv, RolesOK
    <3>7. CASE S[1] = C[1]
      <4>1. notices[j].attempt = setups["client"] /\ notices[k].attempt = setups["client"]
        BY <3>2, <3>4, <3>5, <3>6, <3>7, Zenon DEF HandshakeInv, NoticesOK
      <4>2. SucceedsOnce
        BY Zenon DEF HandshakeInv
      <4>3. j = k
        BY <3>5, <3>6, <4>1, <4>2, Zenon DEF SucceedsOnce
      <4> QED
        BY <3>5, <3>6, <4>3, Zenon
    <3>8. CASE S[1] # C[1]
      <4>1. S[1] < C[1]
        BY <3>3, <3>4, <3>8, SMT
      <4>2. ServerKey(C) /\ ClientKey(S)
        BY <2>2, <3>5, Zenon DEF ServerKey, ClientKey
      <4>3. S[2] <= C[2]
        BY <3>2, <4>1, <4>2 DEF HandshakeInv, KeysOK
      <4>4. C[2] = slot["server"].kx
        BY <3>3, <3>4, <4>3, SMT
      <4> QED
        BY <3>2, <4>2, <4>4, Zenon DEF HandshakeInv, KeysOK
    <3> QED
      BY <3>7, <3>8, Zenon
  <2> QED
    BY <2>1, <2>2, Zenon
<1> QED
  BY <1>1, HandshakeInvariant, PTL

\* TypeOK holds throughout.
THEOREM HandshakeTypes == Spec => []TypeOK
<1>1. HandshakeInv => TypeOK
  <2> SUFFICES ASSUME HandshakeInv PROVE TypeOK
    BY Zenon
  <2>1. \A m \in wire : m.to \in Side /\ m.key \in Key
    BY DEF HandshakeInv, Sendable, MessageOK
  <2>2. \A k \in DOMAIN notices : notices[k].result \in Problem \cup {"OK"}
    <3>1. \A k \in DOMAIN notices : notices[k] \in Notice
      BY SMT DEF HandshakeInv
    <3> QED
      BY <3>1, Zenon DEF Notice
  <2>3. \A p \in Side :
          /\ slot[p].result \in {"FREE", "IN_PROGRESS", "OK", "FAILED"}
          /\ slot[p].expected \in {"NOT_STARTED", "INITIAL_SERVER", "AUTH_MSG", "UNENCRYPTED_ACK"}
          /\ slot[p].stage \in {"KEY_EXCHANGE", "AUTHENTICATION", "DONE"}
          /\ slot[p].key \in Key
          /\ slot[p].attempts \in 0 .. CONNECT_RETRY_COUNT
    <3>1. \A p \in Side : slot[p] \in SlotState
      BY Zenon DEF HandshakeInv
    <3> QED
      BY <3>1, Zenon DEF SlotState
  <2>4. /\ encryption \in Security
        /\ setups["client"] \in 0 .. MaxConnects /\ setups["server"] \in 0 .. MaxIncoming
    BY BoundAssumption, SMT DEF HandshakeInv, Side
  <2> QED
    BY <2>1, <2>2, <2>3, <2>4, Zenon DEF TypeOK
<1> QED
  BY <1>1, HandshakeInvariant, PTL
=============================================================================
