--------------------------- MODULE PeerSlots_proofs ---------------------------
(***************************************************************************)
(* Proofs about PeerSlots for any number of slots, any set of remotes that *)
(* may share addresses and ids, and any number of outstanding callbacks.   *)
(***************************************************************************)
EXTENDS PeerSlots, WellFoundedInduction, TLAPS

-----------------------------------------------------------------------------
(***************************************************************************)
(* Extremes of sets of slots.                                              *)
(***************************************************************************)

\* A nonempty set of natural numbers has a least element.
LEMMA LeastExists ==
  ASSUME NEW S, S \subseteq Nat, S # {}
  PROVE  \E m \in S : \A k \in S : m <= k
<1>1. PICK m \in S : \A k \in S : ~ (<<k, m>> \in OpToRel(<, Nat))
  BY WFMin, NatLessThanWellFounded, Zenon
<1>2. \A k \in S : k \in Nat /\ m \in Nat /\ ~ (k < m)
  BY <1>1, Zenon DEF OpToRel
<1> QED
  BY <1>2

\* Max of a set of one slot.
LEMMA MaxSingle ==
  ASSUME NEW k \in Int
  PROVE  Max({k}) = k
<1>1. \A y \in {k} : k >= y
  OBVIOUS
<1> QED
  BY <1>1, Zenon DEF Max

\* Max picks an element of a nonempty set of slots.
LEMMA MaxIn ==
  ASSUME NEW S, S \subseteq Index, S # {}
  PROVE  Max(S) \in S
<1> DEFINE B == {n \in Nat : \A x \in S : x <= n}
<1>0. \A x \in S : x \in Nat /\ x >= 1
  BY SlotsAssumption DEF Index
<1>1. Slots \in B
  BY SlotsAssumption DEF Index
<1>2. PICK m \in B : \A n \in B : m <= n
  BY <1>1, LeastExists, Zenon
<1>3. m \in S
  <2> SUFFICES ASSUME m \notin S PROVE FALSE
    BY Zenon
  <2>1. \A x \in S : x <= m - 1
    BY <1>0, <1>2
  <2>2. m - 1 \in B
    BY <1>0, <1>2, <2>1
  <2> QED
    BY <1>2, <2>2
<1>4. \A y \in S : m >= y
  BY <1>0, <1>2, Zenon
<1> QED
  BY <1>3, <1>4, Zenon DEF Max

-----------------------------------------------------------------------------
(***************************************************************************)
(* GetRemoteByID.                                                          *)
(***************************************************************************)

\* The part of the invariant that is about the slots and the quick lookup alone.
TableTypes ==
  /\ slot \in [Index -> SlotState]
  /\ lookup \in [DOMAIN lookup -> Index] /\ DOMAIN lookup \subseteq ID
TableInv == TableTypes /\ IdsAreTold /\ IdsAreFound

\* What it takes for an id to lead to slot i.
Leads(x, i) ==
  IF x \in DOMAIN lookup THEN lookup[x] = i
  ELSE /\ Active(i) /\ slot[i].id = x
       /\ \A k \in 1 .. i - 1 : ~ (Active(k) /\ slot[k].id = x)

\* Of two slots at most one is the first.
LEMMA FirstIsUnique ==
  ASSUME NEW i \in Index, NEW j \in Index, i \notin 1 .. j - 1, j \notin 1 .. i - 1
  PROVE  i = j
BY SlotsAssumption DEF Index

\* GetRemoteByID finds a slot if the id leads there.
LEMMA FoundIff ==
  ASSUME NEW x, NEW i \in Index
  PROVE  Found(x) = {i} <=> Leads(x, i)
<1>1. CASE x \in DOMAIN lookup
  BY <1>1, Zenon DEF Found, Leads
<1>2. CASE x \notin DOMAIN lookup
  <2>1. Leads(x, i) => Found(x) = {i}
    BY <1>2, FirstIsUnique, Zenon DEF Found, Leads
  <2>2. Found(x) = {i} => i \in Found(x)
    BY Zenon
  <2>3. i \in Found(x) => Leads(x, i)
    BY <1>2, Zenon DEF Found, Leads
  <2> QED
    BY <2>1, <2>2, <2>3, Zenon
<1> QED
  BY <1>1, <1>2, Zenon

\* GetRemoteByID finds no two slots.
LEMMA FoundOne ==
  ASSUME TableTypes, NEW x
  PROVE  Found(x) = {} \/ \E i \in Index : Found(x) = {i}
<1>1. CASE x \in DOMAIN lookup
  BY <1>1, Zenon DEF Found, TableTypes
<1>2. CASE x \notin DOMAIN lookup
  <2> SUFFICES ASSUME NEW i \in Found(x) PROVE i \in Index /\ Found(x) = {i}
    BY Zenon
  <2>1. i \in Index /\ Leads(x, i)
    BY <1>2, Zenon DEF Found, Leads
  <2> QED
    BY <2>1, FoundIff, Zenon
<1> QED
  BY <1>1, <1>2, Zenon

-----------------------------------------------------------------------------
(***************************************************************************)
(* Tables that GetRemoteByID may leave behind.                             *)
(***************************************************************************)

\* A table from ids to slots that is right about the identified ones.
Agrees(table) ==
  /\ table \in [DOMAIN table -> Index] /\ DOMAIN table \subseteq ID
  /\ \A k \in Index : Identified(k) /\ slot[k].id \in DOMAIN table => table[slot[k].id] = k

\* No two identified slots share an id.
Apart ==
  \A i, k \in Index : Identified(i) /\ Identified(k) /\ slot[i].id = slot[k].id => i = k

\* Identified slots that can be found are apart, and the quick lookup agrees.
LEMMA FoundAreApart ==
  ASSUME TableInv
  PROVE  Apart /\ Agrees(lookup)
<1>1. \A k \in Index : Identified(k) => Found(slot[k].id) = {k}
  BY Zenon DEF TableInv, IdsAreFound
<1>2. Apart
  <2> SUFFICES ASSUME NEW i \in Index, NEW k \in Index, Identified(i), Identified(k),
                      slot[i].id = slot[k].id
               PROVE  i = k
    BY Zenon DEF Apart
  <2>1. Found(slot[i].id) = {i} /\ Found(slot[i].id) = {k}
    BY <1>1, Zenon
  <2> QED
    BY <2>1, Zenon
<1>3. ASSUME NEW k \in Index, Identified(k), slot[k].id \in DOMAIN lookup
      PROVE  lookup[slot[k].id] = k
  <2>1. Found(slot[k].id) = {lookup[slot[k].id]}
    BY <1>3, Zenon DEF Found
  <2> QED
    BY <1>1, <1>3, <2>1, Zenon
<1> QED
  BY <1>2, <1>3, Zenon DEF Agrees, TableInv, TableTypes

\* The converse: nothing else is needed to find them.
LEMMA ApartAreFound == Apart /\ Agrees(lookup) => IdsAreFound
<1> SUFFICES ASSUME Apart, Agrees(lookup), NEW k \in Index, Identified(k)
             PROVE  Found(slot[k].id) = {k}
  BY Zenon DEF IdsAreFound
<1>1. PICK x : x = slot[k].id
  BY Zenon
<1>2. CASE x \in DOMAIN lookup
  BY <1>1, <1>2, Zenon DEF Agrees, Found
<1>3. CASE x \notin DOMAIN lookup
  <2>1. \A j \in 1 .. k - 1 : j \in Index /\ j # k
    BY SlotsAssumption DEF Index
  <2>2. \A j \in 1 .. k - 1 : ~ (Active(j) /\ slot[j].id = x)
    BY <1>1, <2>1, Zenon DEF Apart, Identified
  <2>3. Leads(x, k)
    BY <1>1, <1>3, <2>2, Zenon DEF Leads, Identified
  <2> QED
    BY <1>1, <2>3, FoundIff, Zenon
<1> QED
  BY <1>1, <1>2, <1>3, Zenon

\* What a call of GetRemoteByID adds to the quick lookup.
LEMMA CachedValues ==
  ASSUME TableTypes, NEW x \in ID
  PROVE  /\ DOMAIN Cached(x) = DOMAIN lookup \cup {y \in {x} : Found(y) # {}}
         /\ \A y \in DOMAIN lookup : y # x => Cached(x)[y] = lookup[y]
         /\ x \in DOMAIN Cached(x) <=> Found(x) # {}
         /\ \A i \in Index : Found(x) = {i} => Cached(x)[x] = i
<1>1. DOMAIN Cached(x) = DOMAIN lookup \cup {y \in {x} : Found(y) # {}}
  BY Zenon DEF Cached
<1>2. \A y \in DOMAIN lookup : y # x => Cached(x)[y] = lookup[y]
  BY Zenon DEF Cached
<1>3. x \in DOMAIN lookup => Found(x) # {}
  BY Zenon DEF Found
<1>4. x \in DOMAIN Cached(x) <=> Found(x) # {}
  BY <1>1, <1>3, Zenon
<1>5. ASSUME NEW i \in Index, Found(x) = {i}
      PROVE  Cached(x)[x] = i
  <2>1. Max(Found(x)) = i
    BY <1>5, MaxSingle, SlotsAssumption DEF Index
  <2>2. x \in DOMAIN lookup \cup {y \in {x} : Found(y) # {}}
    BY <1>5, Zenon
  <2> QED
    BY <2>1, <2>2, Zenon DEF Cached
<1> QED
  BY <1>1, <1>2, <1>4, <1>5, Zenon

\* What GetRemoteByID leaves behind agrees with the slots.
LEMMA CachedAgrees ==
  ASSUME TableInv, NEW x \in ID
  PROVE  Agrees(Cached(x))
<1>0. TableTypes
  BY Zenon DEF TableInv
<1> DEFINE t == Cached(x)
<1>1. /\ DOMAIN t = DOMAIN lookup \cup {y \in {x} : Found(y) # {}}
      /\ \A y \in DOMAIN lookup : y # x => t[y] = lookup[y]
      /\ x \in DOMAIN t <=> Found(x) # {}
      /\ \A i \in Index : Found(x) = {i} => t[x] = i
  BY <1>0, CachedValues, Zenon
<1>2. t = [y \in DOMAIN t |-> t[y]]
  BY <1>0, CachedValues, Zenon DEF Cached
<1> HIDE DEF t
<1>3. DOMAIN lookup \subseteq ID /\ lookup \in [DOMAIN lookup -> Index]
  BY <1>0, Zenon DEF TableTypes
<1>4. DOMAIN t \subseteq ID
  BY <1>1, <1>3, Zenon
<1>5. ASSUME NEW y \in DOMAIN t
      PROVE  t[y] \in Index
  <2>1. CASE y = x
    <3>1. PICK i \in Index : Found(x) = {i}
      BY <1>0, <1>1, <1>5, <2>1, FoundOne, Zenon
    <3> QED
      BY <1>1, <2>1, <3>1, Zenon
  <2>2. CASE y # x
    <3>1. y \in DOMAIN lookup
      BY <1>1, <1>5, <2>2, Zenon
    <3> QED
      BY <1>1, <1>3, <2>2, <3>1, Zenon
  <2> QED
    BY <2>1, <2>2, Zenon
<1>6. t \in [DOMAIN t -> Index]
  BY <1>2, <1>5, Zenon
<1>7. ASSUME NEW k \in Index, Identified(k), slot[k].id \in DOMAIN t
      PROVE  t[slot[k].id] = k
  <2>1. Found(slot[k].id) = {k}
    BY <1>7, Zenon DEF TableInv, IdsAreFound
  <2>2. CASE slot[k].id = x
    BY <1>1, <2>1, <2>2, Zenon
  <2>3. CASE slot[k].id # x
    <3>1. slot[k].id \in DOMAIN lookup
      BY <1>1, <1>7, <2>3, Zenon
    <3>2. lookup[slot[k].id] = k
      BY <1>7, <3>1, FoundAreApart, Zenon DEF Agrees
    <3> QED
      BY <1>1, <2>3, <3>1, <3>2, Zenon
  <2> QED
    BY <2>2, <2>3, Zenon
<1>8. Agrees(t)
  BY <1>4, <1>6, <1>7, Zenon DEF Agrees
<1> QED
  BY <1>8, Zenon DEF t

\* Stop looks every established connection up by its id.
LEMMA StopBeginAgrees ==
  ASSUME TableInv, StopBegin
  PROVE  Agrees(lookup')
<1> DEFINE X == DOMAIN lookup \cup {slot[i].id : i \in {k \in Index : Connected(k)}}
           t == [x \in X |-> Max(Found(x))]
<1>0. TableTypes /\ IdsAreTold
  BY Zenon DEF TableInv
<1>1. lookup' = t
  BY Zenon DEF StopBegin
<1>2. \A k \in Index : Connected(k) => slot[k].id \in ID /\ Identified(k)
  BY <1>0, Zenon DEF TableTypes, IdsAreTold, Connected, Identified, SlotState
<1>3. X \subseteq ID
  BY <1>0, <1>2, Zenon DEF TableTypes
<1>4. ASSUME NEW k \in Index, Identified(k), slot[k].id \in X
      PROVE  t[slot[k].id] = k
  <2>1. Found(slot[k].id) = {k}
    BY <1>4, Zenon DEF TableInv, IdsAreFound
  <2>2. Max(Found(slot[k].id)) = k
    BY <2>1, MaxSingle, SlotsAssumption DEF Index
  <2> QED
    BY <1>4, <2>2, Zenon
<1>5. ASSUME NEW x \in X
      PROVE  t[x] \in Index
  <2>1. CASE x \in DOMAIN lookup
    <3>1. Found(x) = {lookup[x]} /\ lookup[x] \in Index
      BY <1>0, <2>1, Zenon DEF Found, TableTypes
    <3>2. Max(Found(x)) = lookup[x]
      BY <3>1, MaxSingle, SlotsAssumption DEF Index
    <3> QED
      BY <3>1, <3>2, Zenon
  <2>2. CASE x \notin DOMAIN lookup
    <3>1. PICK k \in Index : Connected(k) /\ x = slot[k].id
      BY <2>2, Zenon
    <3> QED
      BY <1>2, <1>4, <3>1, Zenon
  <2> QED
    BY <2>1, <2>2, Zenon
<1>6. DOMAIN t = X /\ t \in [X -> Index]
  BY <1>5, Zenon
<1> HIDE DEF t, X
<1>7. Agrees(t)
  BY <1>3, <1>4, <1>6, Zenon DEF Agrees
<1> QED
  BY <1>1, <1>7, Zenon

-----------------------------------------------------------------------------
(***************************************************************************)
(* Steps of the table.                                                     *)
(***************************************************************************)

\* A step after which fewer slots are identified, and the quick lookup has fewer
\* entries than a table that agrees.
LEMMA FewerIds ==
  ASSUME TableInv, TableTypes', IdsAreTold', NEW table, Agrees(table),
         \A x \in DOMAIN lookup' : x \in DOMAIN table /\ lookup'[x] = table[x],
         \A k \in Index : Identified(k)' => Identified(k) /\ slot'[k].id = slot[k].id
  PROVE  TableInv'
<1>1. Apart'
  BY FoundAreApart, Zenon DEF Apart
<1>2. Agrees(lookup)'
  <2>1. \A k \in Index : Identified(k)' /\ slot'[k].id \in DOMAIN lookup' => lookup'[slot'[k].id] = k
    BY Zenon DEF Agrees
  <2> QED
    BY <2>1, Zenon DEF Agrees, TableTypes
<1>3. (Apart /\ Agrees(lookup))' => IdsAreFound'
  BY ApartAreFound, PTL
<1> QED
  BY <1>1, <1>2, <1>3, Zenon DEF TableInv

\* A step that leaves the ids alone and establishes nothing: a slot that becomes
\* active has no id yet.
LEMMA QuietTable ==
  ASSUME TableInv, slot' \in [Index -> SlotState],
         \A k \in Index : /\ slot'[k].id = slot[k].id /\ (Active(k) => Active(k)')
                          /\ slot'[k].result = slot[k].result \/ slot'[k].result = "FAILED",
         Agrees(lookup')
  PROVE  TableInv'
<1>1. \A k \in Index : /\ ~ Active(k) => slot[k].id = None /\ slot[k].result # "OK"
                       /\ slot[k].result = "OK" => slot[k].id # None
  BY Zenon DEF TableInv, IdsAreTold
<1>2. \A k \in Index : slot'[k].result = "OK" => slot[k].result = "OK"
  <2>1. "FAILED" # "OK"
    OBVIOUS
  <2> QED
    BY <2>1, Zenon
<1>3. IdsAreTold'
  BY <1>1, <1>2, Zenon DEF IdsAreTold
<1>4. TableTypes'
  BY Zenon DEF TableTypes, Agrees
<1>5. \A k \in Index : Identified(k)' => Identified(k) /\ slot'[k].id = slot[k].id
  BY <1>1, Zenon DEF Identified
<1> QED
  BY <1>3, <1>4, <1>5, FewerIds, Zenon

\* A step that leaves the table alone.
LEMMA SameTable ==
  ASSUME TableInv, slot' = slot, lookup' = lookup
  PROVE  TableInv'
<1>1. Agrees(lookup)
  BY FoundAreApart, Zenon
<1>2. /\ slot' \in [Index -> SlotState]
      /\ \A k \in Index : /\ slot'[k].id = slot[k].id /\ (Active(k) => Active(k)')
                          /\ slot'[k].result = slot[k].result
  BY Zenon DEF TableInv, TableTypes, Active
<1> QED
  BY <1>1, <1>2, QuietTable, Zenon

\* OnDisconnect removes an id from the quick lookup.
LEMMA ErasedTable ==
  ASSUME TableInv, slot' = slot, NEW x, lookup' = Restrict(lookup, DOMAIN lookup \ {x})
  PROVE  TableInv'
<1>1. Agrees(lookup)
  BY FoundAreApart, Zenon
<1>2. /\ DOMAIN lookup' = DOMAIN lookup \ {x}
      /\ \A y \in DOMAIN lookup' : y \in DOMAIN lookup /\ lookup'[y] = lookup[y]
  BY Zenon DEF Restrict
<1>3. lookup' \in [DOMAIN lookup' -> Index] /\ DOMAIN lookup' \subseteq ID
  BY <1>1, <1>2, Zenon DEF Restrict, Agrees
<1>4. TableTypes' /\ IdsAreTold'
  BY <1>3, Zenon DEF TableTypes, TableInv, IdsAreTold, Active
<1>5. \A k \in Index : Identified(k)' => Identified(k) /\ slot'[k].id = slot[k].id
  BY Zenon DEF Identified, Active
<1> QED
  BY <1>1, <1>2, <1>4, <1>5, FewerIds, Zenon

\* What Reset leaves of a slot.
LEMMA FreeSlotValues ==
  /\ FreeSlot \in SlotState
  /\ FreeSlot.use # "active" /\ FreeSlot.id = None /\ FreeSlot.result # "OK"
BY DEF FreeSlot, SlotState

\* Reset.
LEMMA ResetTable ==
  ASSUME TableInv, NEW i \in Index, slot' = [slot EXCEPT ![i] = FreeSlot], lookup' = lookup
  PROVE  TableInv'
<1>0. slot \in [Index -> SlotState]
  BY Zenon DEF TableInv, TableTypes
<1>1. /\ slot' \in [Index -> SlotState] /\ slot'[i] = FreeSlot
      /\ \A k \in Index \ {i} : slot'[k] = slot[k]
  BY <1>0, FreeSlotValues, Zenon
<1>2. Agrees(lookup)
  BY FoundAreApart, Zenon
<1>3. TableTypes'
  BY <1>1, <1>2, Zenon DEF TableTypes, Agrees
<1>4. IdsAreTold'
  <2> SUFFICES ASSUME NEW k \in Index
               PROVE  /\ ~ Active(k)' => slot'[k].id = None /\ slot'[k].result # "OK"
                      /\ slot'[k].result = "OK" => slot'[k].id # None
    BY Zenon DEF IdsAreTold
  <2>1. CASE k = i
    BY <1>1, <2>1, FreeSlotValues, Zenon
  <2>2. CASE k # i
    BY <1>1, <2>2, Zenon DEF TableInv, IdsAreTold, Active
  <2> QED
    BY <2>1, <2>2, Zenon
<1>5. \A k \in Index : Identified(k)' => Identified(k) /\ slot'[k].id = slot[k].id
  <2> SUFFICES ASSUME NEW k \in Index, Identified(k)'
               PROVE  Identified(k) /\ slot'[k].id = slot[k].id
    BY Zenon
  <2>1. k # i
    BY <1>1, FreeSlotValues, Zenon DEF Identified
  <2> QED
    BY <1>1, <2>1, Zenon DEF Identified, Active
<1> QED
  BY <1>2, <1>3, <1>4, <1>5, FewerIds, Zenon

\* What becomes of a slot that takes an id.
LEMMA SlotTakesId ==
  ASSUME NEW s \in SlotState, NEW x \in ID, NEW outcome
  PROVE  /\ Identify(s, x, outcome) \in SlotState
         /\ Identify(s, x, outcome).use = s.use /\ Identify(s, x, outcome).id = x
         /\ outcome = "success" => Identify(s, x, outcome).result = "OK"
         /\ outcome # "success" => Identify(s, x, outcome).result = s.result
BY Zenon DEF SlotState, Identify

\* Handle: a slot takes an id only if the id leads nowhere or to this slot.
LEMMA HandledTable ==
  ASSUME TableInv, NEW i \in Index, Active(i), NEW x \in ID, NEW outcome, Handled(i, x, outcome)
  PROVE  TableInv'
<1> DEFINE fails == Competes(i, x) \/ outcome = "failure"
           new == Identify(slot[i], x, outcome)
<1>0. TableTypes /\ IdsAreTold /\ x # None /\ slot \in [Index -> SlotState]
  BY NoneAssumption, Zenon DEF TableInv, TableTypes
<1>1. lookup' = Cached(x) /\ slot' = [slot EXCEPT ![i] = IF fails THEN FreeSlot ELSE new]
  BY Zenon DEF Handled
<1>2. /\ new \in SlotState /\ new.use = slot[i].use /\ new.id = x
      /\ outcome = "success" => new.result = "OK"
      /\ outcome # "success" => new.result = slot[i].result
  <2>1. PICK s \in SlotState : s = slot[i]
    BY <1>0, Zenon
  <2>2. /\ Identify(s, x, outcome) \in SlotState
        /\ Identify(s, x, outcome).use = s.use /\ Identify(s, x, outcome).id = x
        /\ outcome = "success" => Identify(s, x, outcome).result = "OK"
        /\ outcome # "success" => Identify(s, x, outcome).result = s.result
    BY SlotTakesId
  <2>3. new = Identify(s, x, outcome)
    BY <2>1, Zenon
  <2> HIDE DEF new
  <2> QED
    BY <2>1, <2>2, <2>3, Zenon
<1>3. ~ fails => Found(x) \subseteq {i}
  BY Zenon DEF Competes
<1> HIDE DEF fails, new
<1>4. Agrees(Cached(x))
  BY CachedAgrees, Zenon
<1>5. /\ slot' \in [Index -> SlotState] /\ slot'[i] = IF fails THEN FreeSlot ELSE new
      /\ \A k \in Index \ {i} : slot'[k] = slot[k]
  BY <1>0, <1>1, <1>2, FreeSlotValues, Zenon
<1>6. TableTypes'
  BY <1>1, <1>4, <1>5, Zenon DEF TableTypes, Agrees
<1>7. IdsAreTold'
  <2> SUFFICES ASSUME NEW k \in Index
               PROVE  /\ ~ Active(k)' => slot'[k].id = None /\ slot'[k].result # "OK"
                      /\ slot'[k].result = "OK" => slot'[k].id # None
    BY Zenon DEF IdsAreTold
  <2>1. CASE k = i
    BY <1>0, <1>2, <1>5, <2>1, FreeSlotValues, Zenon DEF Active
  <2>2. CASE k # i
    BY <1>0, <1>5, <2>2, Zenon DEF IdsAreTold, Active
  <2> QED
    BY <2>1, <2>2, Zenon
<1>8. CASE fails
  <2>1. \A k \in Index : Identified(k)' => Identified(k) /\ slot'[k].id = slot[k].id
    <3> SUFFICES ASSUME NEW k \in Index, Identified(k)'
                 PROVE  Identified(k) /\ slot'[k].id = slot[k].id
      BY Zenon
    <3>1. k # i
      BY <1>5, <1>8, FreeSlotValues, Zenon DEF Identified
    <3> QED
      BY <1>5, <3>1, Zenon DEF Identified, Active
  <2>2. \A y \in DOMAIN lookup' : y \in DOMAIN Cached(x) /\ lookup'[y] = Cached(x)[y]
    BY <1>1, Zenon
  <2> QED
    BY <1>4, <1>6, <1>7, <2>1, <2>2, FewerIds, Zenon
<1>9. CASE ~ fails
  <2>1. slot'[i].id = x
    BY <1>2, <1>5, <1>9, Zenon
  <2>2. \A k \in Index \ {i} : Identified(k)' => Identified(k) /\ slot'[k].id = slot[k].id
    BY <1>5, Zenon DEF Identified, Active
  <2>3. \A k \in Index \ {i} : Identified(k) => slot[k].id # x
    <3> SUFFICES ASSUME NEW k \in Index \ {i}, Identified(k), slot[k].id = x PROVE FALSE
      BY Zenon
    <3>1. Found(x) = {k}
      BY Zenon DEF TableInv, IdsAreFound
    <3> QED
      BY <1>3, <1>9, <3>1, Zenon
  <2>4. Apart'
    <3> SUFFICES ASSUME NEW k \in Index, NEW j \in Index, Identified(k)', Identified(j)',
                        slot'[k].id = slot'[j].id
                 PROVE  k = j
      BY Zenon DEF Apart
    <3>1. k # i /\ j # i => k = j
      BY <2>2, FoundAreApart, Zenon DEF Apart
    <3> QED
      BY <2>1, <2>2, <2>3, <3>1, Zenon
  <2>5. x \in DOMAIN Cached(x) => Cached(x)[x] = i
    <3>1. x \in DOMAIN Cached(x) => Found(x) # {}
      BY <1>0, CachedValues, Zenon
    <3>2. x \in DOMAIN Cached(x) => Found(x) = {i}
      BY <1>3, <1>9, <3>1, Zenon
    <3> QED
      BY <1>0, <3>2, CachedValues, Zenon
  <2>6. \A k \in Index : Identified(k)' /\ slot'[k].id \in DOMAIN lookup' => lookup'[slot'[k].id] = k
    BY <1>1, <1>4, <2>1, <2>2, <2>5, Zenon DEF Agrees
  <2>7. Agrees(lookup)'
    BY <1>6, <2>6, Zenon DEF Agrees, TableTypes
  <2>8. (Apart /\ Agrees(lookup))' => IdsAreFound'
    BY ApartAreFound, PTL
  <2> QED
    BY <1>6, <1>7, <2>4, <2>7, <2>8, Zenon DEF TableInv
<1> QED
  BY <1>8, <1>9, Zenon

-----------------------------------------------------------------------------
(***************************************************************************)
(* Threads at their slots, and the notices.                                *)
(***************************************************************************)

\* The rest of the invariant, slot by slot.
NoticesTypes ==
  /\ doing \in [Thread -> Visit \cup Sweep \cup {Idle}]
  /\ told \in [Index -> Int]
  /\ mixed \subseteq Index
Due(i) == IF Connected(i) /\ ~ Reported(i) THEN 1 ELSE 0
Quiet(i) == i \in mixed \/ (Undisturbed(i) /\ told[i] = Due(i))
NoticesInv ==
  /\ NoticesTypes
  /\ doing["app"].step = "sweep" => mixed = Index
  /\ \A i \in Index : Quiet(i)

\* The two parts make up the whole.
LEMMA PartsOfInv == SlotsInv <=> TableInv /\ NoticesInv
<1>1. TypeOK <=> TableTypes /\ NoticesTypes
  BY Zenon DEF TypeOK, TableTypes, NoticesTypes
<1>2. NoticesPaired <=> \A i \in Index \ mixed : told[i] = Due(i)
  BY Zenon DEF NoticesPaired, Due
<1>3. (\A i \in Index : Quiet(i)) <=> /\ \A i \in Index \ mixed : Undisturbed(i)
                                    /\ \A i \in Index \ mixed : told[i] = Due(i)
  BY Zenon DEF Quiet
<1> QED
  BY <1>1, <1>2, <1>3, Zenon DEF SlotsInv, TableInv, NoticesInv

\* Slot 0 is left out.
LEMMA ZeroIsNoSlot == 0 \notin Index
BY DEF Index

\* The parts of Idle.
LEMMA IdleParts ==
  Idle.step = "idle" /\ Idle.slot = 0 /\ Idle.step # "sweep" /\ Idle.step # "reset"
BY DEF Idle

\* Stop goes on to the next slot.
LEMMA SweepGoesOn ==
  ASSUME NEW e \in Sweep
  PROVE  [e EXCEPT !.slot = e.slot + 1] \in Sweep
<1>1. e.slot + 1 \in Nat
  BY DEF Sweep
<1> QED
  BY <1>1, Zenon DEF Sweep

\* A thread that is to do something at a slot is at one.
LEMMA AtVisit ==
  ASSUME NoticesTypes, NEW t \in Thread,
         doing[t].step \in {"established", "attempt", "expired", "drop", "reset", "handle"}
  PROVE  doing[t] \in Visit /\ doing[t].slot \in Index
<1>1. doing[t] \in Visit \cup Sweep \cup {Idle}
  BY Zenon DEF NoticesTypes
<1>2. doing[t] \notin Sweep
  BY DEF Sweep
<1>3. doing[t] # Idle
  BY IdleParts
<1> QED
  BY <1>1, <1>2, <1>3, Zenon DEF Visit

\* A slot where nothing happens stays as quiet as it was.
LEMMA ElsewhereQuiet ==
  ASSUME NEW j \in Index, Quiet(j), j \in mixed => j \in mixed', told'[j] = told[j],
         Connected(j)' <=> Connected(j),
         \A u \in Thread : doing[u].slot = j \/ doing'[u].slot = j => doing'[u] = doing[u]
  PROVE  Quiet(j)'
<1>1. CASE j \in mixed
  BY <1>1, Zenon DEF Quiet
<1>2. CASE j \notin mixed
  <2>1. Reported(j)' <=> Reported(j)
    BY Zenon DEF Reported
  <2>2. Due(j)' = Due(j)
    BY <2>1, Zenon DEF Due
  <2>3. Undisturbed(j) /\ told[j] = Due(j)
    BY <1>2, Zenon DEF Quiet
  <2>4. Undisturbed(j)'
    BY <2>3, Zenon DEF Undisturbed
  <2> QED
    BY <2>2, <2>3, <2>4, Zenon DEF Quiet
<1> QED
  BY <1>1, <1>2, Zenon

\* A step of thread t at slot i, after which that slot is quiet.
LEMMA VisitKeeps ==
  ASSUME NoticesInv, NEW t \in Thread, NEW i \in Index, NEW d \in Visit \cup {Idle},
         doing' = [doing EXCEPT ![t] = d], d.slot \in {0, i},
         doing[t].slot \in {0, i}, d.step # "sweep",
         told' \in [Index -> Int], mixed' \subseteq Index,
         \A j \in Index : j # i => told'[j] = told[j],
         \A j \in Index : j # i => (Connected(j)' <=> Connected(j)),
         \A j \in Index : j # i => (j \in mixed => j \in mixed'),
         doing["app"].step = "sweep" /\ i \in mixed => i \in mixed',
         Quiet(i)'
  PROVE  NoticesInv'
<1>1. doing \in [Thread -> Visit \cup Sweep \cup {Idle}]
  BY Zenon DEF NoticesInv, NoticesTypes
<1>2. /\ doing' \in [Thread -> Visit \cup Sweep \cup {Idle}] /\ doing'[t] = d
      /\ \A u \in Thread \ {t} : doing'[u] = doing[u]
  BY <1>1, Zenon
<1>3. ASSUME NEW j \in Index, j # i
      PROVE  Quiet(j)'
  <2>1. doing[t].slot # j /\ doing'[t].slot # j
    <3>1. 0 # j /\ i # j
      BY <1>3, ZeroIsNoSlot, Zenon
    <3>2. doing[t].slot = 0 \/ doing[t].slot = i
      BY Zenon
    <3>3. d.slot = 0 \/ d.slot = i
      BY Zenon
    <3> QED
      BY <1>2, <3>1, <3>2, <3>3, Zenon
  <2>2. \A u \in Thread : doing[u].slot = j \/ doing'[u].slot = j => doing'[u] = doing[u]
    BY <1>2, <2>1, Zenon
  <2>3. Quiet(j)
    BY Zenon DEF NoticesInv
  <2>4. told'[j] = told[j] /\ (Connected(j)' <=> Connected(j)) /\ (j \in mixed => j \in mixed')
    BY <1>3, Zenon
  <2> QED
    BY <2>2, <2>3, <2>4, ElsewhereQuiet, Zenon
<1>4. ASSUME doing'["app"].step = "sweep"
      PROVE  mixed' = Index
  <2>1. "app" \in Thread
    BY Zenon DEF Thread
  <2>2. doing["app"].step = "sweep"
    <3>1. CASE t = "app"
      BY <1>2, <1>4, <3>1, Zenon
    <3>2. CASE t # "app"
      <4>1. doing'["app"] = doing["app"]
        BY <1>2, <2>1, <3>2, Zenon
      <4> QED
        BY <1>4, <4>1, Zenon
    <3> QED
      BY <3>1, <3>2, Zenon
  <2>3. mixed = Index
    BY <2>2, Zenon DEF NoticesInv
  <2>4. i \in mixed'
    BY <2>2, <2>3, Zenon
  <2>5. \A j \in Index : j \in mixed'
    BY <2>3, <2>4, Zenon
  <2> QED
    BY <2>5, Zenon
<1> QED
  BY <1>2, <1>3, <1>4, Zenon DEF NoticesInv, NoticesTypes

\* A step at no slot.
LEMMA NoVisitKeeps ==
  ASSUME NoticesInv, doing' = doing, told' = told, mixed' = mixed,
         \A j \in Index : Connected(j)' <=> Connected(j)
  PROVE  NoticesInv'
<1>1. \A j \in Index : Quiet(j)'
  BY ElsewhereQuiet, Zenon DEF NoticesInv
<1> QED
  BY <1>1, Zenon DEF NoticesInv, NoticesTypes

\* The ways in which the test of a slot can turn out.
Tested(i, step) ==
  \/ step = "established" /\ Connected(i)
  \/ step \in {"attempt", "expired", "handle"} /\ ~ Connected(i)

\* What Tested says of the step.
LEMMA TestedSteps ==
  ASSUME NEW i, NEW step, Tested(i, step)
  PROVE  /\ step \in {"established", "attempt", "expired", "drop", "reset", "handle"}
         /\ step # "sweep" /\ step # "reset"
         /\ step = "established" => Connected(i)
         /\ step \in {"attempt", "expired", "drop", "handle"} => ~ Connected(i)
BY DEF Tested

\* A thread comes to a slot.
LEMMA EntersKeeps ==
  ASSUME NoticesInv, NEW t \in Thread, NEW i \in Index, NEW step, NEW last \in BOOLEAN,
         Tested(i, step), Enters(t, i, step, last), told' = told,
         \A j \in Index : Connected(j)' <=> Connected(j)
  PROVE  NoticesInv'
<1> DEFINE d == [step |-> step, slot |-> i, last |-> last]
<1>1. d \in Visit /\ d.slot = i /\ d.step = step
  BY TestedSteps, Zenon DEF Visit
<1>2. doing' = [doing EXCEPT ![t] = d] /\ doing[t] = Idle
  BY Zenon DEF Enters
<1> HIDE DEF d
<1>3. doing \in [Thread -> Visit \cup Sweep \cup {Idle}] /\ told \in [Index -> Int]
      /\ mixed \subseteq Index
  BY Zenon DEF NoticesInv, NoticesTypes
<1>4. doing'[t] = d /\ \A u \in Thread \ {t} : doing'[u] = doing[u]
  BY <1>2, <1>3, Zenon
<1>5. mixed' = IF Met(t, i) THEN mixed \cup {i} ELSE mixed
  BY Zenon DEF Enters
<1>6. Quiet(i)'
  <2>1. CASE i \in mixed \/ Met(t, i)
    BY <1>5, <2>1, Zenon DEF Quiet
  <2>2. CASE i \notin mixed /\ ~ Met(t, i)
    <3>1. \A u \in Thread : doing[u].slot # i
      BY <1>2, <2>2, IdleParts, ZeroIsNoSlot, Zenon DEF Met
    <3>2. told[i] = Due(i) /\ ~ Reported(i)
      BY <2>2, <3>1, Zenon DEF NoticesInv, Quiet, Reported
    <3>3. \A u \in Thread : doing'[u].slot = i => u = t
      BY <1>4, <3>1, Zenon
    <3>4. ~ Reported(i)'
      BY <1>1, <1>4, <3>3, TestedSteps, Zenon DEF Reported
    <3>5. Due(i)' = Due(i)
      BY <3>2, <3>4, Zenon DEF Due
    <3>6. Undisturbed(i)'
      BY <1>1, <1>4, <3>3, TestedSteps, Zenon DEF Undisturbed
    <3> QED
      BY <3>2, <3>5, <3>6, Zenon DEF Quiet
  <2> QED
    BY <2>1, <2>2, Zenon
<1>7. mixed' \subseteq Index /\ mixed \subseteq mixed'
  BY <1>3, <1>5, Zenon
<1>8. d.step # "sweep" /\ doing[t].slot \in {0, i} /\ d.slot \in {0, i} /\ d \in Visit \cup {Idle}
  BY <1>1, <1>2, IdleParts, TestedSteps, Zenon
<1>9. told' \in [Index -> Int]
  BY <1>3, Zenon
<1> QED
  BY <1>2, <1>6, <1>7, <1>8, <1>9, VisitKeeps, Zenon

\* The effect of Notice.
LEMMA NoticeEffect ==
  ASSUME told \in [Index -> Int], NEW i \in Index, NEW n \in Int, Notice(i, n)
  PROVE  /\ told' \in [Index -> Int]
         /\ \A j \in Index : j # i => told'[j] = told[j]
         /\ i \in mixed => told'[i] = 0
         /\ i \notin mixed => told'[i] = told[i] + n
BY DEF Notice

\* A thread at a slot where no threads have met has found what is there.
LEMMA AloneAt ==
  ASSUME NoticesInv, NEW t \in Thread, NEW i \in Index, doing[t].slot = i, i \notin mixed
  PROVE  /\ \A u \in Thread : doing[u].slot = i => u = t
         /\ doing[t].step = "established" => Connected(i)
         /\ doing[t].step \in {"attempt", "expired", "drop", "handle"} => ~ Connected(i)
         /\ doing[t].step = "reset" \/ ~ Connected(i) => told[i] = 0
         /\ doing[t].step # "reset" /\ Connected(i) => told[i] = 1
<1>1. Undisturbed(i) /\ told[i] = Due(i)
  BY Zenon DEF NoticesInv, Quiet
<1>2. /\ \A u \in Thread : doing[u].slot = i => u = t
      /\ doing[t].step = "established" => Connected(i)
      /\ doing[t].step \in {"attempt", "expired", "drop", "handle"} => ~ Connected(i)
  BY <1>1, Zenon DEF Undisturbed
<1>3. Reported(i) <=> doing[t].step = "reset"
  BY <1>2, Zenon DEF Reported
<1>4. /\ doing[t].step = "reset" \/ ~ Connected(i) => told[i] = 0
      /\ doing[t].step # "reset" /\ Connected(i) => told[i] = 1
  BY <1>1, <1>3, Zenon DEF Due
<1> QED
  BY <1>2, <1>4, Zenon

\* The slot is quiet while the thread that is alone there still has to reset it.
LEMMA StayQuiet ==
  ASSUME NEW t \in Thread, NEW i \in Index, doing'[t].slot = i,
         \A u \in Thread : doing'[u].slot = i => u = t,
         doing'[t].step = "reset" \/ (doing'[t].step = "drop" /\ ~ Connected(i)'),
         told'[i] = 0
  PROVE  Quiet(i)'
<1>1. Due(i)' = 0
  <2>1. doing'[t].step = "reset" => Reported(i)'
    BY Zenon DEF Reported
  <2> QED
    BY <2>1, Zenon DEF Due
<1>2. Undisturbed(i)'
  <2>1. doing'[t].step # "established"
    OBVIOUS
  <2>2. doing'[t].step \in {"attempt", "expired", "drop", "handle"} => ~ Connected(i)'
    OBVIOUS
  <2> QED
    BY <2>1, <2>2, Zenon DEF Undisturbed
<1> QED
  BY <1>1, <1>2, Zenon DEF Quiet

\* The slot is quiet when that thread has left.
LEMMA LeaveQuiet ==
  ASSUME NEW i \in Index, \A u \in Thread : doing'[u].slot # i,
         Connected(i)' => told'[i] = 1, ~ Connected(i)' => told'[i] = 0
  PROVE  Quiet(i)'
<1>1. ~ Reported(i)'
  BY Zenon DEF Reported
<1>2. told'[i] = Due(i)'
  BY <1>1, Zenon DEF Due
<1>3. Undisturbed(i)'
  BY Zenon DEF Undisturbed
<1> QED
  BY <1>2, <1>3, Zenon DEF Quiet

\* Goes changes the step of a visit.
LEMMA GoesTo ==
  ASSUME NoticesTypes, NEW t \in Thread, doing[t] \in Visit, NEW step \in {"drop", "reset"},
         Goes(t, step)
  PROVE  \E d \in Visit : /\ doing' = [doing EXCEPT ![t] = d] /\ doing'[t] = d
                          /\ d.slot = doing[t].slot /\ d.step = step
                          /\ \A u \in Thread : u # t => doing'[u] = doing[u]
<1>0. doing \in [Thread -> Visit \cup Sweep \cup {Idle}]
  BY Zenon DEF NoticesTypes
<1> DEFINE d == [doing[t] EXCEPT !.step = step]
<1>1. d \in Visit /\ d.slot = doing[t].slot /\ d.step = step
  BY DEF Visit
<1>2. doing' = [doing EXCEPT ![t] = d]
  BY Zenon DEF Goes
<1> HIDE DEF d
<1>3. doing'[t] = d /\ \A u \in Thread : u # t => doing'[u] = doing[u]
  BY <1>0, <1>2, Zenon
<1> QED
  BY <1>1, <1>2, <1>3, Zenon

\* The steps drop and reset are no part of Stop.
LEMMA NoSweep ==
  ASSUME NEW step \in {"drop", "reset"}
  PROVE  step # "sweep"
OBVIOUS

\* A step at slot i of a thread that has to reset it then.
LEMMA StayKeeps ==
  ASSUME NoticesInv, NEW t \in Thread, NEW i \in Index, doing[t] \in Visit, doing[t].slot = i,
         NEW step \in {"drop", "reset"}, Goes(t, step), mixed' = mixed,
         step = "reset" \/ ~ Connected(i)',
         told' \in [Index -> Int], \A j \in Index : j # i => told'[j] = told[j],
         \A j \in Index : j # i => (Connected(j)' <=> Connected(j)),
         i \notin mixed => told'[i] = 0
  PROVE  NoticesInv'
<1>0. NoticesTypes /\ mixed \subseteq Index
  BY Zenon DEF NoticesInv, NoticesTypes
<1>1. PICK d \in Visit : /\ doing' = [doing EXCEPT ![t] = d] /\ doing'[t] = d
                         /\ d.slot = doing[t].slot /\ d.step = step
                         /\ \A u \in Thread : u # t => doing'[u] = doing[u]
  BY <1>0, GoesTo, Zenon
<1>2. Quiet(i)'
  <2>1. CASE i \in mixed
    BY <2>1, Zenon DEF Quiet
  <2>2. CASE i \notin mixed
    <3>1. \A u \in Thread : doing'[u].slot = i => u = t
      BY <1>1, <2>2, AloneAt, Zenon
    <3>2. doing'[t].slot = i /\ doing'[t].step = step
      BY <1>1, Zenon
    <3>3. doing'[t].step = "reset" \/ (doing'[t].step = "drop" /\ ~ Connected(i)')
      BY <3>2, Zenon
    <3> QED
      BY <2>2, <3>1, <3>2, <3>3, StayQuiet, Zenon
  <2> QED
    BY <2>1, <2>2, Zenon
<1>3. d.step # "sweep" /\ d.slot \in {0, i} /\ doing[t].slot \in {0, i} /\ d \in Visit \cup {Idle}
  BY <1>1, NoSweep, Zenon
<1>4. /\ mixed' \subseteq Index
      /\ \A j \in Index : j # i => (j \in mixed => j \in mixed')
      /\ doing["app"].step = "sweep" /\ i \in mixed => i \in mixed'
  BY <1>0, Zenon
<1> QED
  BY <1>1, <1>2, <1>3, <1>4, VisitKeeps, Zenon

\* A step at slot i of a thread that leaves it.
LEMMA LeaveKeeps ==
  ASSUME NoticesInv, NEW t \in Thread, NEW i \in Index, doing[t].slot = i, Leaves(t),
         told' \in [Index -> Int], \A j \in Index : j # i => told'[j] = told[j],
         \A j \in Index : j # i => (Connected(j)' <=> Connected(j)),
         mixed' = mixed \/ (mixed' = mixed \ {i} /\ ~ Met(t, i) /\ doing["app"].step # "sweep"),
         i \notin mixed' => (Connected(i)' => told'[i] = 1) /\ (~ Connected(i)' => told'[i] = 0)
  PROVE  NoticesInv'
<1>0. NoticesTypes /\ mixed \subseteq Index /\ doing \in [Thread -> Visit \cup Sweep \cup {Idle}]
  BY Zenon DEF NoticesInv, NoticesTypes
<1>1. doing' = [doing EXCEPT ![t] = Idle]
  BY Zenon DEF Leaves
<1>2. doing'[t] = Idle /\ \A u \in Thread : u # t => doing'[u] = doing[u]
  BY <1>0, <1>1, Zenon
<1>3. Quiet(i)'
  <2>1. CASE i \in mixed'
    BY <2>1, Zenon DEF Quiet
  <2>2. CASE i \notin mixed'
    <3>1. \A u \in Thread : doing[u].slot = i => u = t
      <4>1. CASE mixed' = mixed
        BY <2>2, <4>1, AloneAt, Zenon
      <4>2. CASE ~ Met(t, i)
        BY <4>2, Zenon DEF Met
      <4> QED
        BY <4>1, <4>2, Zenon
    <3>2. doing'[t].slot # i
      BY <1>2, IdleParts, ZeroIsNoSlot, Zenon
    <3>3. \A u \in Thread : doing'[u].slot # i
      BY <1>2, <3>1, <3>2, Zenon
    <3> QED
      BY <2>2, <3>3, LeaveQuiet, Zenon
  <2> QED
    BY <2>1, <2>2, Zenon
<1>4. /\ Idle.step # "sweep" /\ Idle.slot \in {0, i} /\ doing[t].slot \in {0, i}
      /\ Idle \in Visit \cup {Idle}
  BY IdleParts, Zenon
<1>5. /\ mixed' \subseteq Index
      /\ \A j \in Index : j # i => (j \in mixed => j \in mixed')
      /\ doing["app"].step = "sweep" /\ i \in mixed => i \in mixed'
  BY <1>0, Zenon
<1> QED
  BY <1>1, <1>3, <1>4, <1>5, VisitKeeps, Zenon

-----------------------------------------------------------------------------
(***************************************************************************)
(* The steps of a thread at its slot.                                      *)
(***************************************************************************)

\* Nothing is connected in a slot that was reset, or whose handshake has failed.
LEMMA ResetConnected ==
  ASSUME slot \in [Index -> SlotState], NEW i \in Index, slot' = [slot EXCEPT ![i] = FreeSlot]
  PROVE  ~ Connected(i)' /\ \A j \in Index : j # i => (Connected(j)' <=> Connected(j))
<1>1. slot'[i] = FreeSlot /\ \A j \in Index : j # i => slot'[j] = slot[j]
  BY Zenon
<1>2. ~ Connected(i)'
  BY <1>1, FreeSlotValues, Zenon DEF Connected
<1>3. \A j \in Index : j # i => (Connected(j)' <=> Connected(j))
  BY <1>1, Zenon DEF Connected, Active
<1> QED
  BY <1>2, <1>3, Zenon

\* A handshake that fails.
LEMMA SlotFails ==
  ASSUME NEW s \in SlotState
  PROVE  \E f \in SlotState : /\ f = [s EXCEPT !.result = "FAILED"] /\ f.result = "FAILED"
                              /\ f.use = s.use /\ f.id = s.id
<1> DEFINE f == [s EXCEPT !.result = "FAILED"]
<1>1. f \in SlotState /\ f.result = "FAILED" /\ f.use = s.use /\ f.id = s.id
  BY Zenon DEF SlotState
<1> HIDE DEF f
<1>2. \E g \in SlotState : g = f /\ g.result = "FAILED" /\ g.use = s.use /\ g.id = s.id
  BY <1>1, Zenon
<1> QED
  BY <1>2, Zenon DEF f

\* The two parts of the invariant, and the types that the steps below need.
LEMMA InvParts ==
  ASSUME SlotsInv
  PROVE  /\ TableInv /\ NoticesInv /\ NoticesTypes
         /\ slot \in [Index -> SlotState] /\ told \in [Index -> Int]
<1>1. TableInv /\ NoticesInv
  BY PartsOfInv, Zenon
<1> QED
  BY <1>1, Zenon DEF TableInv, TableTypes, NoticesInv, NoticesTypes

\* Both parts after a step make up the whole.
LEMMA InvPartsNext ==
  ASSUME TableInv', NoticesInv'
  PROVE  SlotsInv'
<1>1. (TableInv /\ NoticesInv)' => SlotsInv'
  BY PartsOfInv, PTL
<1> QED
  BY <1>1, Zenon

\* OnDisconnect.
LEMMA OnDisconnectKeeps ==
  ASSUME SlotsInv, NEW t \in Thread, OnDisconnect(t)
  PROVE  SlotsInv'
<1>0. /\ TableInv /\ NoticesInv /\ NoticesTypes
      /\ slot \in [Index -> SlotState] /\ told \in [Index -> Int]
  BY InvParts, Zenon
<1>1. doing[t].step = "established" /\ slot' = slot /\ mixed' = mixed /\ Goes(t, "reset")
  BY Zenon DEF OnDisconnect, At
<1>2. doing[t] \in Visit /\ doing[t].slot \in Index
  BY <1>0, <1>1, AtVisit, Zenon
<1>3. PICK i \in Index : i = doing[t].slot
  BY <1>2, Zenon
<1>4. lookup' = Restrict(lookup, DOMAIN lookup \ {slot[i].id}) /\ Notice(i, -1)
  BY <1>3, Zenon DEF OnDisconnect
<1>5. TableInv'
  BY <1>0, <1>1, <1>4, ErasedTable, Zenon
<1>6. /\ told' \in [Index -> Int] /\ \A j \in Index : j # i => told'[j] = told[j]
      /\ i \notin mixed => told'[i] = told[i] + (-1)
  BY <1>0, <1>4, NoticeEffect
<1>7. i \notin mixed => told'[i] = 0
  <2>1. doing[t].step # "reset"
    BY <1>1
  <2>2. i \notin mixed => told[i] = 1
    BY <1>0, <1>1, <1>3, <2>1, AloneAt, Zenon
  <2> QED
    BY <1>6, <2>2
<1>8. \A j \in Index : Connected(j)' <=> Connected(j)
  BY <1>1, Zenon DEF Connected, Active
<1>9. NoticesInv'
  BY <1>0, <1>1, <1>2, <1>3, <1>6, <1>7, <1>8, StayKeeps, Zenon
<1> QED
  BY <1>5, <1>9, InvPartsNext, Zenon

\* Complete.
LEMMA CompleteKeeps ==
  ASSUME SlotsInv, NEW t \in Thread, Complete(t)
  PROVE  SlotsInv'
<1>0. /\ TableInv /\ NoticesInv /\ NoticesTypes
      /\ slot \in [Index -> SlotState] /\ told \in [Index -> Int]
  BY InvParts, Zenon
<1>1. /\ doing[t].step \in {"attempt", "expired"}
      /\ lookup' = lookup /\ mixed' = mixed /\ told' = told
  BY Zenon DEF Complete, At
<1>2. doing[t] \in Visit /\ doing[t].slot \in Index
  BY <1>0, <1>1, AtVisit, Zenon
<1>3. PICK i \in Index : i = doing[t].slot
  BY <1>2, Zenon
<1>4. CASE slot' = slot /\ doing' = doing
  <2>1. \A j \in Index : Connected(j)' <=> Connected(j)
    BY <1>4, Zenon DEF Connected, Active
  <2>2. NoticesInv'
    BY <1>0, <1>1, <1>4, <2>1, NoVisitKeeps, Zenon
  <2> QED
    BY <1>0, <1>1, <1>4, <2>2, SameTable, InvPartsNext, Zenon
<1>5. CASE slot' = [slot EXCEPT ![i].result = "FAILED"]
           /\ \E step \in {"drop", "reset"} : Goes(t, step)
  <2>1. slot[i] \in SlotState
    BY <1>0, Zenon
  <2>2. PICK f \in SlotState : /\ f = [slot[i] EXCEPT !.result = "FAILED"] /\ f.result = "FAILED"
                              /\ f.use = slot[i].use /\ f.id = slot[i].id
    BY <2>1, SlotFails, Zenon
  <2>3. slot' = [slot EXCEPT ![i] = f]
    BY <1>5, <2>2, Zenon
  <2>4. /\ slot' \in [Index -> SlotState] /\ slot'[i] = f
        /\ \A j \in Index : j # i => slot'[j] = slot[j]
    BY <1>0, <2>3, Zenon
  <2>5. /\ ~ Connected(i)'
        /\ \A j \in Index : j # i => (Connected(j)' <=> Connected(j))
    <3>1. "FAILED" # "OK"
      OBVIOUS
    <3> QED
      BY <2>2, <2>4, <3>1, Zenon DEF Connected, Active
  <2>6. TableInv'
    <3>1. \A k \in Index : /\ slot'[k].id = slot[k].id /\ (Active(k) => Active(k)')
                           /\ slot'[k].result = slot[k].result \/ slot'[k].result = "FAILED"
      BY <2>2, <2>4, Zenon DEF Active
    <3>2. Agrees(lookup')
      <4>1. Agrees(lookup)
        BY <1>0, FoundAreApart, Zenon
      <4> QED
        BY <1>1, <4>1, Zenon
    <3> QED
      BY <1>0, <2>4, <3>1, <3>2, QuietTable, Zenon
  <2>7. i \notin mixed => told'[i] = 0
    <3>1. doing[t].step \in {"attempt", "expired", "drop", "handle"}
      BY <1>1, Zenon
    <3> QED
      BY <1>0, <1>1, <1>3, <3>1, AloneAt, Zenon
  <2>8. PICK step \in {"drop", "reset"} : Goes(t, step)
    BY <1>5, Zenon
  <2>9. told' \in [Index -> Int] /\ \A j \in Index : j # i => told'[j] = told[j]
    BY <1>0, <1>1, Zenon
  <2>10. NoticesInv'
    BY <1>0, <1>1, <1>2, <1>3, <2>5, <2>7, <2>8, <2>9, StayKeeps, Zenon
  <2> QED
    BY <2>6, <2>10, InvPartsNext, Zenon
<1>6. \/ slot' = slot /\ doing' = doing
      \/ /\ slot' = [slot EXCEPT ![i].result = "FAILED"]
         /\ Goes(t, IF At(t, "attempt") /\ Active(i) THEN "drop" ELSE "reset")
  BY <1>3, Zenon DEF Complete
<1>7. (IF At(t, "attempt") /\ Active(i) THEN "drop" ELSE "reset") \in {"drop", "reset"}
  BY Zenon
<1> QED
  BY <1>4, <1>5, <1>6, <1>7, Zenon

\* Reset.
LEMMA ResetKeeps ==
  ASSUME SlotsInv, NEW t \in Thread, Reset(t)
  PROVE  SlotsInv'
<1>0. /\ TableInv /\ NoticesInv /\ NoticesTypes
      /\ slot \in [Index -> SlotState] /\ told \in [Index -> Int]
  BY InvParts, Zenon
<1>1. doing[t].step \in {"drop", "reset"} /\ lookup' = lookup
  BY Zenon DEF Reset, At
<1>2. doing[t] \in Visit /\ doing[t].slot \in Index
  BY <1>0, <1>1, AtVisit, Zenon
<1>3. PICK i \in Index : i = doing[t].slot
  BY <1>2, Zenon
<1>4. /\ slot' = [slot EXCEPT ![i] = FreeSlot] /\ Notice(i, 0)
      /\ IF At(t, "drop") THEN Goes(t, "reset") ELSE Leaves(t)
      /\ mixed' = IF At(t, "drop") \/ Met(t, i) \/ doing["app"].step = "sweep"
                  THEN mixed ELSE mixed \ {i}
  BY <1>3, Zenon DEF Reset
<1>5. TableInv'
  BY <1>0, <1>1, <1>4, ResetTable, Zenon
<1>6. ~ Connected(i)' /\ \A j \in Index : j # i => (Connected(j)' <=> Connected(j))
  BY <1>0, <1>4, ResetConnected, Zenon
<1>7. /\ told' \in [Index -> Int] /\ \A j \in Index : j # i => told'[j] = told[j]
      /\ i \in mixed => told'[i] = 0
      /\ i \notin mixed => told'[i] = told[i] + 0
  BY <1>0, <1>4, NoticeEffect
<1>8. told'[i] = 0
  <2>1. doing[t].step \in {"attempt", "expired", "drop", "handle"} \/ doing[t].step = "reset"
    BY <1>1, Zenon
  <2>2. i \notin mixed => told[i] = 0
    BY <1>0, <1>3, <2>1, AloneAt, Zenon
  <2> QED
    BY <1>7, <2>2
<1>9. NoticesInv'
  <2>1. CASE At(t, "drop")
    <3>1. mixed' = mixed /\ Goes(t, "reset")
      BY <1>4, <2>1, Zenon
    <3> QED
      BY <1>0, <1>2, <1>3, <1>6, <1>7, <1>8, <3>1, StayKeeps, Zenon
  <2>2. CASE ~ At(t, "drop")
    <3>1. Leaves(t)
      BY <1>4, <2>2, Zenon
    <3>2. \/ mixed' = mixed
          \/ mixed' = mixed \ {i} /\ ~ Met(t, i) /\ doing["app"].step # "sweep"
      BY <1>4, Zenon
    <3> QED
      BY <1>0, <1>3, <1>6, <1>7, <1>8, <3>1, <3>2, LeaveKeeps, Zenon
  <2> QED
    BY <2>1, <2>2, Zenon
<1> QED
  BY <1>5, <1>9, InvPartsNext, Zenon

\* Handle.
LEMMA HandleKeeps ==
  ASSUME SlotsInv, Handle
  PROVE  SlotsInv'
<1>0. /\ TableInv /\ NoticesInv /\ NoticesTypes
      /\ slot \in [Index -> SlotState] /\ told \in [Index -> Int]
  BY InvParts, Zenon
<1>1. doing["socket"].step = "handle" /\ mixed' = mixed /\ Leaves("socket")
  BY Zenon DEF Handle, At
<1>2. "socket" \in Thread
  BY Zenon DEF Thread
<1>3. doing["socket"].slot \in Index
  BY <1>0, <1>1, <1>2, AtVisit, Zenon
<1>4. PICK i \in Index : i = doing["socket"].slot
  BY <1>3, Zenon
<1>5. i \notin mixed => ~ Connected(i) /\ told[i] = 0
  <2>1. doing["socket"].step \in {"attempt", "expired", "drop", "handle"}
    BY <1>1, Zenon
  <2> QED
    BY <1>0, <1>2, <1>4, <2>1, AloneAt, Zenon
<1>6. CASE slot' = slot /\ lookup' = lookup /\ told' = told
  <2>1. \A j \in Index : Connected(j)' <=> Connected(j)
    BY <1>6, Zenon DEF Connected, Active
  <2>2. told' \in [Index -> Int] /\ \A j \in Index : j # i => told'[j] = told[j]
    BY <1>0, <1>6, Zenon
  <2>3. i \notin mixed' => (Connected(i)' => told'[i] = 1) /\ (~ Connected(i)' => told'[i] = 0)
    BY <1>1, <1>5, <1>6, <2>1, Zenon
  <2>4. NoticesInv'
    BY <1>0, <1>1, <1>2, <1>4, <2>1, <2>2, <2>3, LeaveKeeps, Zenon
  <2> QED
    BY <1>0, <1>6, <2>4, SameTable, InvPartsNext, Zenon
<1>7. ASSUME NEW x \in ID, NEW outcome, Active(i), Handled(i, x, outcome)
      PROVE  SlotsInv'
  <2> DEFINE fails == Competes(i, x) \/ outcome = "failure"
             success == ~ fails /\ outcome = "success"
  <2>1. TableInv'
    BY <1>0, <1>7, HandledTable, Zenon
  <2>2. /\ slot' = [slot EXCEPT ![i] = IF fails THEN FreeSlot ELSE Identify(slot[i], x, outcome)]
        /\ Notice(i, IF success THEN 1 ELSE 0)
    BY <1>7, Zenon DEF Handled
  <2>3. success <=> ~ fails /\ outcome = "success"
    BY Zenon
  <2> HIDE DEF fails, success
  <2>4. PICK n \in Int : n = IF success THEN 1 ELSE 0
    OBVIOUS
  <2>5. (success => n = 1) /\ (~ success => n = 0)
    BY <2>4, Zenon
  <2>6. Notice(i, n)
    BY <2>2, <2>4, Zenon
  <2>7. /\ told' \in [Index -> Int] /\ \A j \in Index : j # i => told'[j] = told[j]
        /\ i \notin mixed => told'[i] = told[i] + n
    BY <1>0, <2>6, NoticeEffect, Zenon
  <2>8. PICK s \in SlotState : s = slot[i]
    BY <1>0, Zenon
  <2>9. /\ Identify(s, x, outcome) \in SlotState
        /\ outcome = "success" => Identify(s, x, outcome).result = "OK"
        /\ outcome # "success" => Identify(s, x, outcome).result = s.result
        /\ Identify(s, x, outcome).use = s.use
    BY <1>7, SlotTakesId
  <2>10. PICK r : r = IF fails THEN FreeSlot ELSE Identify(s, x, outcome)
    BY Zenon
  <2>11. /\ slot'[i] = r
         /\ \A j \in Index : j # i => slot'[j] = slot[j]
    BY <1>0, <2>2, <2>8, <2>10, Zenon
  <2>12. \A j \in Index : j # i => (Connected(j)' <=> Connected(j))
    BY <2>11, Zenon DEF Connected, Active
  <2>13. i \notin mixed => (Connected(i)' <=> success)
    <3>1. CASE fails
      BY <2>3, <2>10, <2>11, <3>1, FreeSlotValues, Zenon DEF Connected
    <3>2. CASE ~ fails
      <4>1. r.use = "active"
        BY <1>7, <2>8, <2>9, <2>10, <3>2, Zenon DEF Active
      <4>2. i \notin mixed => s.result # "OK"
        BY <1>5, <1>7, <2>8, Zenon DEF Connected
      <4>3. i \notin mixed => (r.result = "OK" <=> outcome = "success")
        BY <2>9, <2>10, <3>2, <4>2, Zenon
      <4> QED
        BY <2>3, <2>11, <3>2, <4>1, <4>3, Zenon DEF Connected, Active
    <3> QED
      BY <3>1, <3>2, Zenon
  <2>14. i \notin mixed => told'[i] = n
    BY <1>5, <2>7
  <2>15. i \notin mixed' => (Connected(i)' => told'[i] = 1) /\ (~ Connected(i)' => told'[i] = 0)
    BY <1>1, <2>5, <2>13, <2>14, Zenon
  <2>16. NoticesInv'
    BY <1>0, <1>1, <1>2, <1>4, <2>7, <2>12, <2>15, LeaveKeeps, Zenon
  <2> QED
    BY <2>1, <2>16, InvPartsNext, Zenon
<1>8. \/ slot' = slot /\ lookup' = lookup /\ told' = told
      \/ Active(i) /\ \E r \in Remote, outcome \in {"progress", "success", "failure"} :
                        Handled(i, r[2], outcome)
  BY <1>4, Zenon DEF Handle
<1>9. \A r \in Remote : r[2] \in ID
  BY Zenon DEF ID
<1> QED
  BY <1>6, <1>7, <1>8, <1>9, Zenon

-----------------------------------------------------------------------------
(***************************************************************************)
(* The invariant.                                                          *)
(***************************************************************************)

\* Marking a slot that is to be gone.
LEMMA SlotMarked ==
  ASSUME NEW s \in SlotState, NEW t, t = [s EXCEPT !.disconnecting = TRUE]
  PROVE  t \in SlotState /\ t.use = s.use /\ t.id = s.id /\ t.result = s.result
BY Zenon DEF SlotState

\* Reserving a slot.
LEMMA SlotReserved ==
  ASSUME NEW s \in SlotState, NEW t, t = [s EXCEPT !.use = "reserved", !.origin = "SELF"]
  PROVE  t \in SlotState /\ t.id = s.id /\ t.result = s.result
BY Zenon DEF SlotState

\* Beginning the handshake of a slot.
LEMMA SlotBegun ==
  ASSUME NEW s \in SlotState, NEW a \in Addr
  PROVE  \E t \in SlotState : /\ t = [s EXCEPT !.use = "active", !.addr = a]
                              /\ t.use = "active" /\ t.id = s.id /\ t.result = s.result
<1> DEFINE t == [s EXCEPT !.use = "active", !.addr = a]
<1>1. t \in SlotState /\ t.use = "active" /\ t.id = s.id /\ t.result = s.result
  BY Zenon DEF SlotState
<1> HIDE DEF t
<1>2. \E u \in SlotState : u = t /\ u.use = "active" /\ u.id = s.id /\ u.result = s.result
  BY <1>1, Zenon
<1> QED
  BY <1>2, Zenon DEF t

\* A slot that is set up for a newcomer.
LEMMA SlotTaken ==
  ASSUME NEW s \in SlotState, NEW a \in Addr
  PROVE  \E t \in SlotState : /\ t = [s EXCEPT !.use = "active", !.addr = a, !.origin = "REMOTE"]
                              /\ t.use = "active" /\ t.id = s.id /\ t.result = s.result
<1> DEFINE t == [s EXCEPT !.use = "active", !.addr = a, !.origin = "REMOTE"]
<1>1. t \in SlotState /\ t.use = "active" /\ t.id = s.id /\ t.result = s.result
  BY Zenon DEF SlotState
<1> HIDE DEF t
<1>2. \E u \in SlotState : u = t /\ u.use = "active" /\ u.id = s.id /\ u.result = s.result
  BY <1>1, Zenon
<1> QED
  BY <1>2, Zenon DEF t

\* Steps that change neither ids nor results and do not end the use of a slot.
Mild ==
  /\ slot' \in [Index -> SlotState]
  /\ \A k \in Index : /\ slot'[k].id = slot[k].id /\ slot'[k].result = slot[k].result
                      /\ Active(k) => Active(k)'

\* They keep the table in order and connections what they are.
LEMMA MildSteps ==
  ASSUME TableInv, Mild, Agrees(lookup')
  PROVE  TableInv' /\ \A k \in Index : Connected(k)' <=> Connected(k)
<1>1. TableInv'
  BY QuietTable, Zenon DEF Mild
<1>2. \A k \in Index : slot[k].result = "OK" => Active(k)
  BY Zenon DEF TableInv, IdsAreTold
<1>3. \A k \in Index : Connected(k)' <=> Connected(k)
  BY <1>2, Zenon DEF Connected, Mild
<1> QED
  BY <1>1, <1>3, Zenon

\* Steps that replace one slot by one with the same id and result.
LEMMA MildSlot ==
  ASSUME slot \in [Index -> SlotState], NEW i \in Index, NEW s \in SlotState,
         s.id = slot[i].id, s.result = slot[i].result, Active(i) => s.use = "active",
         slot' = [slot EXCEPT ![i] = s]
  PROVE  Mild
<1>1. /\ slot' \in [Index -> SlotState] /\ slot'[i] = s
      /\ \A k \in Index : k # i => slot'[k] = slot[k]
  BY Zenon
<1>2. ASSUME NEW k \in Index
      PROVE  /\ slot'[k].id = slot[k].id /\ slot'[k].result = slot[k].result
             /\ Active(k) => Active(k)'
  <2>1. CASE k = i
    BY <1>1, <2>1, Zenon DEF Active
  <2>2. CASE k # i
    BY <1>1, <2>2, Zenon DEF Active
  <2> QED
    BY <2>1, <2>2, Zenon
<1> QED
  BY <1>1, <1>2, Zenon DEF Mild

\* Leaving the slots alone is mild.
LEMMA SameSlotsMild ==
  ASSUME slot \in [Index -> SlotState], slot' = slot
  PROVE  Mild
BY Zenon DEF Mild, Active

\* Mild steps at no slot.
LEMMA MildKeeps ==
  ASSUME SlotsInv, Mild, Agrees(lookup'), doing' = doing, told' = told, mixed' = mixed
  PROVE  SlotsInv'
<1>1. TableInv /\ NoticesInv
  BY InvParts, Zenon
<1>2. TableInv' /\ \A k \in Index : Connected(k)' <=> Connected(k)
  BY <1>1, MildSteps, Zenon
<1>3. NoticesInv'
  BY <1>1, <1>2, NoVisitKeeps, Zenon
<1> QED
  BY <1>2, <1>3, InvPartsNext, Zenon

\* Mild steps with which a thread comes to a slot.
LEMMA MildEnters ==
  ASSUME SlotsInv, Mild, Agrees(lookup'), told' = told,
         NEW t \in Thread, NEW i \in Index, NEW step, NEW last \in BOOLEAN,
         Tested(i, step), Enters(t, i, step, last)
  PROVE  SlotsInv'
<1>1. TableInv /\ NoticesInv
  BY InvParts, Zenon
<1>2. TableInv' /\ \A k \in Index : Connected(k)' <=> Connected(k)
  BY <1>1, MildSteps, Zenon
<1>3. NoticesInv'
  BY <1>1, <1>2, EntersKeeps, Zenon
<1> QED
  BY <1>2, <1>3, InvPartsNext, Zenon

\* DisconnectImmediate begins on some thread.
LEMMA DisconnectImmediateKeeps ==
  ASSUME SlotsInv, slot' = slot, Agrees(lookup'), told' = told,
         NEW t \in Thread, NEW i \in Index, NEW last \in BOOLEAN, DisconnectImmediate(t, i, last)
  PROVE  SlotsInv'
<1>1. Mild
  BY InvParts, SameSlotsMild, Zenon
<1>2. PICK step : step = IF Connected(i) THEN "established" ELSE "attempt"
  BY Zenon
<1>3. Enters(t, i, step, last)
  BY <1>2, Zenon DEF DisconnectImmediate
<1>4. Tested(i, step)
  BY <1>2, Zenon DEF Tested
<1> QED
  BY <1>1, <1>3, <1>4, MildEnters, Zenon

\* Initially nobody is at a slot, and nothing was told.
LEMMA InitInv ==
  ASSUME Init
  PROVE  SlotsInv
<1>1. \A i \in Index : slot[i] = FreeSlot /\ told[i] = 0
  BY Zenon DEF Init
<1>2. \A i \in Index : ~ Connected(i) /\ ~ Identified(i)
  BY <1>1, FreeSlotValues, Zenon DEF Connected, Identified, Active
<1>3. IdsAreTold
  BY <1>1, FreeSlotValues, Zenon DEF IdsAreTold
<1>4. TypeOK
  <2>1. slot \in [Index -> SlotState] /\ doing \in [Thread -> Visit \cup Sweep \cup {Idle}]
    BY FreeSlotValues, Zenon DEF Init
  <2>2. /\ lookup \in [DOMAIN lookup -> Index] /\ DOMAIN lookup \subseteq ID
        /\ told \in [Index -> Int] /\ mixed \subseteq Index
    BY DEF Init
  <2> QED
    BY <2>1, <2>2, Zenon DEF TypeOK
<1>5. \A t \in Thread : doing[t] = Idle
  BY Zenon DEF Init
<1>6. \A i \in Index, t \in Thread : doing[t].slot # i
  BY <1>5, IdleParts, ZeroIsNoSlot, Zenon
<1>7. \A i \in Index : Undisturbed(i)
  BY <1>6, Zenon DEF Undisturbed
<1>8. doing["app"].step # "sweep"
  <2>1. doing["app"] = Idle
    BY <1>5, Zenon DEF Thread
  <2> QED
    BY <2>1, IdleParts, Zenon
<1>9. NoticesPaired
  BY <1>1, <1>2, Zenon DEF NoticesPaired
<1> QED
  BY <1>2, <1>3, <1>4, <1>7, <1>8, <1>9, Zenon DEF SlotsInv, IdsAreFound

\* The end of Stop: all slots count as mixed.
LEMMA SweepKeeps ==
  ASSUME SlotsInv, StopEnd \/ StopReset \/ Unbind
  PROVE  SlotsInv'
<1>0. /\ TableInv /\ NoticesInv /\ NoticesTypes
      /\ slot \in [Index -> SlotState] /\ told \in [Index -> Int]
      /\ doing \in [Thread -> Visit \cup Sweep \cup {Idle}]
  BY InvParts, Zenon DEF NoticesTypes
<1>1. mixed' = Index
  <2>1. CASE StopEnd
    BY <2>1, Zenon DEF StopEnd
  <2>2. CASE StopReset \/ Unbind
    <3>1. mixed' = mixed /\ doing["app"].step = "sweep"
      BY <2>2, Zenon DEF StopReset, Unbind, At
    <3> QED
      BY <1>0, <3>1, Zenon DEF NoticesInv
  <2> QED
    BY <2>1, <2>2, Zenon
<1>2. TableInv'
  <2>1. CASE StopEnd \/ Unbind
    BY <1>0, <2>1, SameTable, Zenon DEF StopEnd, Unbind
  <2>2. CASE StopReset
    <3>1. PICK i \in Index : slot' = [slot EXCEPT ![i] = FreeSlot]
      BY <2>2, Zenon DEF StopReset
    <3>2. lookup' = lookup
      BY <2>2, Zenon DEF StopReset
    <3> QED
      BY <1>0, <3>1, <3>2, ResetTable, Zenon
  <2> QED
    BY <2>1, <2>2, Zenon
<1>3. doing' \in [Thread -> Visit \cup Sweep \cup {Idle}]
  <2>1. CASE StopEnd
    <3> DEFINE d == [step |-> "sweep", slot |-> 1, last |-> FALSE]
    <3>1. d \in Sweep
      BY DEF Sweep
    <3>2. doing' = [doing EXCEPT !["app"] = d]
      BY <2>1, Zenon DEF StopEnd
    <3> HIDE DEF d
    <3> QED
      BY <1>0, <3>1, <3>2, Zenon
  <2>2. CASE StopReset
    <3> DEFINE e == doing["app"]
               d == [e EXCEPT !.slot = e.slot + 1]
    <3>1. e \in Visit \cup Sweep \cup {Idle} /\ e.step = "sweep"
      BY <1>0, <2>2, Zenon DEF Thread, StopReset, At
    <3>2. doing' = [doing EXCEPT !["app"] = d]
      BY <2>2, Zenon DEF StopReset
    <3> HIDE DEF e
    <3>3. e \notin Visit /\ e # Idle
      <4>1. e \notin Visit
        BY <3>1 DEF Visit
      <4> QED
        BY <3>1, <4>1, IdleParts, Zenon
    <3>4. d \in Sweep
      <4>1. e \in Sweep
        BY <3>1, <3>3, Zenon
      <4> QED
        BY <4>1, SweepGoesOn, Zenon
    <3> HIDE DEF d
    <3> QED
      BY <1>0, <3>2, <3>4, Zenon
  <2>3. CASE Unbind
    BY <1>0, <2>3, Zenon DEF Unbind, Leaves
  <2> QED
    BY <2>1, <2>2, <2>3, Zenon
<1>4. told' \in [Index -> Int]
  BY <1>0, Zenon DEF StopEnd, StopReset, Unbind
<1>5. \A i \in Index : Quiet(i)'
  BY <1>1, Zenon DEF Quiet
<1>6. NoticesInv'
  BY <1>1, <1>3, <1>4, <1>5, Zenon DEF NoticesInv, NoticesTypes
<1> QED
  BY <1>2, <1>6, InvPartsNext, Zenon

\* The calls of the application but for the end of Stop.
LEMMA CallsKeep ==
  ASSUME SlotsInv, \/ Connect \/ StopBegin
                   \/ \E x \in ID : Disconnect(x) \/ Kick(x)
  PROVE  SlotsInv'
<1>0. TableInv /\ slot \in [Index -> SlotState]
  BY InvParts, Zenon
<1>1. CASE Connect
  <2>1. PICK i \in Index :
          /\ IsConnectSlot(i)
          /\ slot' = [slot EXCEPT ![i] = [@ EXCEPT !.use = "reserved", !.origin = "SELF"]]
    BY <1>1, Zenon DEF Connect
  <2> DEFINE new == [slot[i] EXCEPT !.use = "reserved", !.origin = "SELF"]
  <2>2. new \in SlotState /\ new.id = slot[i].id /\ new.result = slot[i].result
    <3>1. slot[i] \in SlotState
      BY <1>0, Zenon
    <3> QED
      BY <3>1, SlotReserved, Zenon
  <2>3. slot' = [slot EXCEPT ![i] = new] /\ slot[i].use = "free"
    BY <2>1, Zenon DEF IsConnectSlot
  <2> HIDE DEF new
  <2>4. ~ Active(i)
    BY <2>3, Zenon DEF Active
  <2>5. Mild
    BY <1>0, <2>2, <2>3, <2>4, MildSlot, Zenon
  <2>6. lookup' = lookup /\ doing' = doing /\ told' = told /\ mixed' = mixed
    BY <1>1, Zenon DEF Connect
  <2>7. Agrees(lookup')
    BY <1>0, <2>6, FoundAreApart, Zenon
  <2> QED
    BY <2>5, <2>6, <2>7, MildKeeps, Zenon
<1>2. CASE StopBegin
  <2>1. /\ slot' = [i \in Index |-> [slot[i] EXCEPT !.disconnecting = TRUE]]
        /\ doing' = doing /\ told' = told /\ mixed' = mixed
    BY <1>2, Zenon DEF StopBegin
  <2>2. Mild
    <3> DEFINE new(i) == [slot[i] EXCEPT !.disconnecting = TRUE]
    <3>0. \A i \in Index : slot[i] \in SlotState
      BY <1>0, Zenon
    <3>1. \A i \in Index : /\ new(i) \in SlotState /\ new(i).use = slot[i].use
                           /\ new(i).id = slot[i].id /\ new(i).result = slot[i].result
      BY <3>0, SlotMarked, Zenon
    <3>2. slot' = [i \in Index |-> new(i)]
      BY <2>1, Zenon
    <3> HIDE DEF new
    <3>3. slot' \in [Index -> SlotState] /\ \A i \in Index : slot'[i] = new(i)
      BY <3>1, <3>2, Zenon
    <3> QED
      BY <3>1, <3>3, Zenon DEF Mild, Active
  <2>3. Agrees(lookup')
    BY <1>0, <1>2, StopBeginAgrees, Zenon
  <2> QED
    BY <2>1, <2>2, <2>3, MildKeeps, Zenon
<1>3. ASSUME NEW x \in ID, Disconnect(x)
      PROVE  SlotsInv'
  <2>1. lookup' = Cached(x) /\ doing' = doing /\ told' = told /\ mixed' = mixed
    BY <1>3, Zenon DEF Disconnect
  <2>2. slot' = slot \/ \E i \in Index : slot' = [slot EXCEPT ![i].disconnecting = TRUE]
    <3>1. Found(x) \subseteq Index
      BY <1>0, FoundOne, Zenon DEF TableInv
    <3> QED
      BY <1>3, <3>1, Zenon DEF Disconnect
  <2>3. ASSUME NEW i \in Index, slot' = [slot EXCEPT ![i].disconnecting = TRUE]
        PROVE  Mild
    <3> DEFINE new == [slot[i] EXCEPT !.disconnecting = TRUE]
    <3>1. /\ new \in SlotState /\ new.use = slot[i].use
          /\ new.id = slot[i].id /\ new.result = slot[i].result
      <4>1. slot[i] \in SlotState
        BY <1>0, Zenon
      <4> QED
        BY <4>1, SlotMarked, Zenon
    <3>2. slot' = [slot EXCEPT ![i] = new]
      BY <2>3, Zenon
    <3> HIDE DEF new
    <3>3. Active(i) => new.use = "active"
      BY <3>1, Zenon DEF Active
    <3> QED
      BY <1>0, <3>1, <3>2, <3>3, MildSlot, Zenon
  <2>4. Mild
    BY <1>0, <2>2, <2>3, SameSlotsMild, Zenon
  <2>5. Agrees(lookup')
    BY <1>0, <2>1, CachedAgrees, Zenon
  <2> QED
    BY <2>1, <2>4, <2>5, MildKeeps, Zenon
<1>4. ASSUME NEW x \in ID, Kick(x)
      PROVE  SlotsInv'
  <2>1. PICK i \in Found(x) : DisconnectImmediate("app", i, FALSE)
    BY <1>4, Zenon DEF Kick
  <2>2. i \in Index
    BY <1>0, FoundOne, Zenon DEF TableInv
  <2>3. lookup' = Cached(x) /\ slot' = slot /\ told' = told
    BY <1>4, Zenon DEF Kick
  <2>4. Agrees(lookup')
    BY <1>0, <2>3, CachedAgrees, Zenon
  <2>5. "app" \in Thread /\ FALSE \in BOOLEAN
    BY Zenon DEF Thread
  <2> QED
    BY <2>1, <2>2, <2>3, <2>4, <2>5, DisconnectImmediateKeeps, Zenon
<1> QED
  BY <1>1, <1>2, <1>3, <1>4, Zenon

\* The turns of the worker.
LEMMA WorkerKeeps ==
  ASSUME SlotsInv, NEW i \in Index, DisconnectTimeout(i) \/ GiveUp(i) \/ Expires(i)
  PROVE  SlotsInv'
<1>0. TableInv /\ slot \in [Index -> SlotState]
  BY InvParts, Zenon
<1>1. slot' = slot /\ lookup' = lookup /\ told' = told
  BY Zenon DEF DisconnectTimeout, GiveUp, Expires, WorkerEnds
<1>2. Agrees(lookup')
  BY <1>0, <1>1, FoundAreApart, Zenon
<1>3. "worker" \in Thread /\ TRUE \in BOOLEAN /\ FALSE \in BOOLEAN
  BY Zenon DEF Thread
<1>4. CASE DisconnectTimeout(i) \/ GiveUp(i)
  <2>1. PICK last \in BOOLEAN : DisconnectImmediate("worker", i, last)
    BY <1>3, <1>4, Zenon DEF DisconnectTimeout, GiveUp, WorkerEnds
  <2> QED
    BY <1>1, <1>2, <1>3, <2>1, DisconnectImmediateKeeps, Zenon
<1>5. CASE Expires(i)
  <2>1. Enters("worker", i, "expired", FALSE) /\ slot[i].result = "IN_PROGRESS"
    BY <1>5, Zenon DEF Expires
  <2>2. slot[i].result # "OK"
    BY <2>1
  <2>3. Tested(i, "expired")
    BY <2>2, Zenon DEF Tested, Connected
  <2>4. Mild
    BY <1>0, <1>1, SameSlotsMild, Zenon
  <2> QED
    BY <1>1, <1>2, <1>3, <2>1, <2>3, <2>4, MildEnters, Zenon
<1> QED
  BY <1>4, <1>5, Zenon

\* The callback of Connect.
LEMMA ConnectCallbackKeeps ==
  ASSUME SlotsInv, NEW i \in Index, NEW a \in Addr, ConnectCallback(i, a)
  PROVE  SlotsInv'
<1>0. TableInv /\ slot \in [Index -> SlotState]
  BY InvParts, Zenon
<1>1. lookup' = lookup /\ told' = told /\ doing' = doing /\ mixed' = mixed
  BY Zenon DEF ConnectCallback
<1>2. Agrees(lookup')
  BY <1>0, <1>1, FoundAreApart, Zenon
<1>3. \/ slot' = slot
      \/ slot' = [slot EXCEPT ![i] = [@ EXCEPT !.use = "active", !.addr = a]]
  BY Zenon DEF ConnectCallback
<1>4. PICK new \in SlotState :
        /\ new = [slot[i] EXCEPT !.use = "active", !.addr = a]
        /\ new.use = "active" /\ new.id = slot[i].id /\ new.result = slot[i].result
  <2>1. slot[i] \in SlotState
    BY <1>0, Zenon
  <2> QED
    BY <2>1, SlotBegun, Zenon
<1>5. slot' = slot \/ slot' = [slot EXCEPT ![i] = new]
  BY <1>3, <1>4, Zenon
<1>6. Mild
  BY <1>0, <1>4, <1>5, MildSlot, SameSlotsMild, Zenon
<1> QED
  BY <1>1, <1>2, <1>6, MildKeeps, Zenon

\* A newcomer takes a slot.
LEMMA OnNewIncomingPeerKeeps ==
  ASSUME SlotsInv, NEW a \in Addr, OnNewIncomingPeer(a)
  PROVE  SlotsInv'
<1>0. TableInv /\ slot \in [Index -> SlotState] /\ IdsAreTold
  BY InvParts, Zenon DEF TableInv
<1>1. lookup' = lookup /\ told' = told
  BY Zenon DEF OnNewIncomingPeer, Arrives
<1>2. Agrees(lookup')
  BY <1>0, <1>1, FoundAreApart, Zenon
<1> DEFINE free == {k \in Index : IsIncomingSlot(k) /\ slot[k].use = "free"}
<1>3. PICK i : i = Max(free)
  BY Zenon
<1>4. i \in Index /\ slot[i].use = "free"
  <2>1. free \subseteq Index /\ free # {}
    BY Zenon DEF OnNewIncomingPeer
  <2>2. Max(free) \in free
    BY <2>1, MaxIn, Zenon
  <2> QED
    BY <1>3, <2>2, Zenon
<1>5. /\ slot' = [slot EXCEPT ![i] = [@ EXCEPT !.use = "active", !.addr = a, !.origin = "REMOTE"]]
      /\ Enters("socket", i, "handle", FALSE)
  BY <1>3, Zenon DEF OnNewIncomingPeer
<1>6. PICK new \in SlotState :
        /\ new = [slot[i] EXCEPT !.use = "active", !.addr = a, !.origin = "REMOTE"]
        /\ new.use = "active" /\ new.id = slot[i].id /\ new.result = slot[i].result
  <2>1. slot[i] \in SlotState
    BY <1>0, <1>4, Zenon
  <2> QED
    BY <2>1, SlotTaken, Zenon
<1>7. slot' = [slot EXCEPT ![i] = new]
  BY <1>5, <1>6, Zenon
<1>8. Mild
  BY <1>0, <1>4, <1>6, <1>7, MildSlot, Zenon
<1>9. ~ Active(i)
  BY <1>4, Zenon DEF Active
<1>10. Tested(i, "handle")
  BY <1>9, Zenon DEF Tested, Connected
<1>11. "socket" \in Thread /\ FALSE \in BOOLEAN
  BY Zenon DEF Thread
<1> QED
  BY <1>1, <1>2, <1>4, <1>5, <1>8, <1>10, <1>11, MildEnters, Zenon

\* The other events of the socket thread.
LEMMA SocketKeeps ==
  ASSUME SlotsInv, \/ \E i \in Index : WriteFailed(i)
                   \/ \E a \in Addr : \/ HandshakePart(a) \/ DisconnectAck(a)
                                     \/ DisconnectRequest(a) \/ ReadFailed(a)
  PROVE  SlotsInv'
<1>0. TableInv /\ slot \in [Index -> SlotState]
  BY InvParts, Zenon
<1>1. slot' = slot /\ lookup' = lookup /\ told' = told
  BY Zenon DEF WriteFailed, HandshakePart, DisconnectAck, DisconnectRequest, ReadFailed, Arrives
<1>2. Agrees(lookup')
  BY <1>0, <1>1, FoundAreApart, Zenon
<1>3. "socket" \in Thread /\ FALSE \in BOOLEAN
  BY Zenon DEF Thread
<1>4. Mild
  BY <1>0, <1>1, SameSlotsMild, Zenon
<1>5. \A a : FoundAt(a) \subseteq Index
  BY Zenon DEF FoundAt
<1>6. \/ \E i \in Index : DisconnectImmediate("socket", i, FALSE)
      \/ \E i \in Index : Connected(i) /\ Enters("socket", i, "established", FALSE)
      \/ \E i \in Index : slot[i].result = "IN_PROGRESS" /\ Enters("socket", i, "handle", FALSE)
      \/ doing' = doing /\ mixed' = mixed
  BY <1>5, Zenon DEF WriteFailed, HandshakePart, DisconnectAck, DisconnectRequest, ReadFailed
<1>7. CASE \E i \in Index : DisconnectImmediate("socket", i, FALSE)
  BY <1>1, <1>2, <1>3, <1>7, DisconnectImmediateKeeps, Zenon
<1>8. CASE \E i \in Index : Connected(i) /\ Enters("socket", i, "established", FALSE)
  <2>1. PICK i \in Index : Connected(i) /\ Enters("socket", i, "established", FALSE)
    BY <1>8, Zenon
  <2>2. Tested(i, "established")
    BY <2>1, Zenon DEF Tested
  <2> QED
    BY <1>1, <1>2, <1>3, <1>4, <2>1, <2>2, MildEnters, Zenon
<1>9. CASE \E i \in Index : slot[i].result = "IN_PROGRESS" /\ Enters("socket", i, "handle", FALSE)
  <2>1. PICK i \in Index : slot[i].result = "IN_PROGRESS" /\ Enters("socket", i, "handle", FALSE)
    BY <1>9, Zenon
  <2>2. slot[i].result # "OK"
    BY <2>1
  <2>3. Tested(i, "handle")
    BY <2>2, Zenon DEF Tested, Connected
  <2> QED
    BY <1>1, <1>2, <1>3, <1>4, <2>1, <2>3, MildEnters, Zenon
<1>10. CASE doing' = doing /\ mixed' = mixed
  BY <1>1, <1>2, <1>4, <1>10, MildKeeps, Zenon
<1> QED
  BY <1>6, <1>7, <1>8, <1>9, <1>10, Zenon

\* SlotsInv is inductive: the table of slots and the quick lookup fit together
\* whatever the application, the worker and the socket thread do and however their
\* steps interleave, and so do the notices of a slot where threads do not meet.
THEOREM SlotsInvariant == Spec => []SlotsInv
<1>1. Init => SlotsInv
  BY InitInv, Zenon
<1>2. SlotsInv /\ [Next]_vars => SlotsInv'
  <2> SUFFICES ASSUME SlotsInv, [Next]_vars PROVE SlotsInv'
    BY Zenon
  <2>0. \A t \in {"app", "worker", "socket"} : t \in Thread
    BY Zenon DEF Thread
  <2>1. CASE BeginRead \/ UNCHANGED vars
    <3>1. slot' = slot /\ lookup' = lookup /\ doing' = doing /\ told' = told /\ mixed' = mixed
      BY <2>1, Zenon DEF BeginRead, vars
    <3>2. TableInv /\ slot \in [Index -> SlotState]
      BY InvParts, Zenon
    <3>3. Mild
      BY <3>1, <3>2, SameSlotsMild, Zenon
    <3>4. Agrees(lookup')
      BY <3>1, <3>2, FoundAreApart, Zenon
    <3> QED
      BY <3>1, <3>3, <3>4, MildKeeps, Zenon
  <2>2. CASE Connect \/ StopBegin \/ \E x \in ID : Disconnect(x) \/ Kick(x)
    BY <2>2, CallsKeep, Zenon
  <2>3. CASE StopEnd \/ StopReset \/ Unbind
    BY <2>3, SweepKeeps, Zenon
  <2>4. ASSUME NEW t \in Thread, OnDisconnect(t) \/ Complete(t) \/ Reset(t)
        PROVE  SlotsInv'
    BY <2>4, OnDisconnectKeeps, CompleteKeeps, ResetKeeps, Zenon
  <2>5. CASE Handle
    BY <2>5, HandleKeeps, Zenon
  <2>6. ASSUME NEW i \in Index, DisconnectTimeout(i) \/ GiveUp(i) \/ Expires(i)
        PROVE  SlotsInv'
    BY <2>6, WorkerKeeps, Zenon
  <2>7. ASSUME NEW i \in Index, NEW a \in Addr, ConnectCallback(i, a)
        PROVE  SlotsInv'
    BY <2>7, ConnectCallbackKeeps, Zenon
  <2>8. ASSUME NEW a \in Addr, OnNewIncomingPeer(a)
        PROVE  SlotsInv'
    BY <2>8, OnNewIncomingPeerKeeps, Zenon
  <2>9. CASE \/ \E i \in Index : WriteFailed(i)
             \/ \E a \in Addr : \/ HandshakePart(a) \/ DisconnectAck(a)
                               \/ DisconnectRequest(a) \/ ReadFailed(a)
    BY <2>9, SocketKeeps, Zenon
  <2>10. CASE AppStep \/ WorkerStep \/ SocketStep
    BY <2>0, <2>3, <2>4, <2>5, <2>10, Zenon DEF AppStep, WorkerStep, SocketStep
  <2> QED
    BY <2>1, <2>2, <2>3, <2>6, <2>7, <2>8, <2>9, <2>10, Zenon DEF Next
<1> QED
  BY <1>1, <1>2, PTL DEF Spec

\* Whatever the cache of GetRemoteByID has gathered, and however the threads meet,
\* the id of an established connection leads to its slot.
THEOREM EstablishedFound == Spec => []EstablishedIsFound
<1>1. SlotsInv => EstablishedIsFound
  <2> SUFFICES ASSUME SlotsInv, NEW i \in Index, Connected(i)
               PROVE  Found(slot[i].id) = {i}
    BY Zenon DEF EstablishedIsFound
  <2>1. Identified(i)
    BY Zenon DEF SlotsInv, IdsAreTold, Identified, Connected
  <2> QED
    BY <2>1, Zenon DEF SlotsInv, IdsAreFound
<1> QED
  BY <1>1, SlotsInvariant, PTL

\* The application is told of the beginning and of the end of a connection once,
\* whichever thread ends it, unless threads have met at its slot.
THEOREM NoticesArePaired == Spec => []NoticesPaired
<1>1. SlotsInv => NoticesPaired
  BY Zenon DEF SlotsInv
<1> QED
  BY <1>1, SlotsInvariant, PTL
=============================================================================
