--------------------------- MODULE RegistryProofs ---------------------------
(***************************************************************************)
(* Proofs about the table of databases and their handles, for any set of   *)
(* addresses and any number of databases made one after the other.         *)
(***************************************************************************)
EXTENDS Registry, FiniteSetTheorems, SequenceTheorems, TLAPS

-----------------------------------------------------------------------------
(* The inductive invariant.                                                *)

\* PushHandle takes m_iLuaRef # 0 for a userdata that exists: it is 0 in an
\* object just made, whatever was at its address before.
FreshUnreferenced == \A a \in Addrs \ alive : iLuaRef[a] = 0

\* A connect callback is lost once, with the object it was given to.
LostOnce ==
  /\ IsFiniteSet(callbacks)
  /\ lost + Cardinality(callbacks) <= made

IInv == HandlesExact /\ FreshUnreferenced /\ LostOnce

-----------------------------------------------------------------------------
(* Making a database.                                                      *)

\* The facts about a userdata made for the object at a.
LEMMA NewHandle ==
  ASSUME IInv, NEW a \in Addrs, a \notin alive, PushHandle(a),
         alive' = alive \cup {a}
  PROVE  /\ points' \in Seq(Addrs \cup {Null})
         /\ Len(points) \in Nat /\ Len(points') = Len(points) + 1
         /\ \A u \in 1 .. Len(points) : points'[u] = points[u]
         /\ points'[Len(points) + 1] = a
         /\ iLuaRef' \in [Addrs -> 0 .. Len(points')]
         /\ iLuaRef'[a] = Len(points) + 1
         /\ \A b \in Addrs : b # a => iLuaRef'[b] = iLuaRef[b]
         /\ refs' = refs \cup {Len(points) + 1}
<1>1. iLuaRef[a] = 0
  BY DEF IInv, FreshUnreferenced
<1>2. points \in Seq(Addrs \cup {Null}) /\ Len(points) \in Nat
  BY DEF IInv, HandlesExact, TypeOK
<1>3. /\ points' = Append(points, a)
      /\ iLuaRef' = [iLuaRef EXCEPT ![a] = Len(points) + 1]
      /\ refs' = refs \cup {Len(points) + 1}
  BY <1>1 DEF PushHandle
<1>4. iLuaRef \in [Addrs -> 0 .. Len(points)]
  BY DEF IInv, HandlesExact, TypeOK
<1>5. /\ points' \in Seq(Addrs \cup {Null})
      /\ Len(points') = Len(points) + 1
      /\ \A u \in 1 .. Len(points) : points'[u] = points[u]
      /\ points'[Len(points) + 1] = a
  BY <1>2, <1>3
<1> QED
  BY <1>2, <1>3, <1>4, <1>5

\* A new object gets a handle of its own and is listed.
LEMMA MadeHandles ==
  ASSUME RegistryAssumption, IInv, NEW a \in Addrs, a \notin alive, PushHandle(a),
         alive' = alive \cup {a}, RegisterDatabase(a), UNCHANGED <<failed, fault>>
  PROVE  (LiveListed /\ OneHandle /\ RefsExact /\ DanglingOnlyByFailure /\ FreshUnreferenced)'
<1> DEFINE n == Len(points) + 1
<1>1. /\ Len(points) \in Nat /\ Len(points') = n
      /\ \A u \in 1 .. Len(points) : points'[u] = points[u]
      /\ points'[n] = a /\ iLuaRef'[a] = n
      /\ \A b \in Addrs : b # a => iLuaRef'[b] = iLuaRef[b]
      /\ refs' = refs \cup {n}
  BY NewHandle
<1>2. /\ alive \subseteq Addrs
      /\ \A b \in alive : iLuaRef[b] \in 1 .. Len(points) /\ points[iLuaRef[b]] = b
  BY <1>1 DEF IInv, HandlesExact, TypeOK, OneHandle
<1>3. /\ \A u \in 1 .. Len(points) : points[u] # Null => points[u] \in alive
      /\ \A u, v \in 1 .. Len(points) : points[u] = points[v] /\ points[u] # Null => u = v
  BY DEF IInv, HandlesExact, OneHandle
<1>4. \A u \in 1 .. Len(points') : u = n \/ (u \in 1 .. Len(points) /\ points'[u] = points[u])
  BY <1>1
<1>5. a # Null /\ \A u \in 1 .. Len(points) : points[u] # a
  BY <1>3 DEF RegistryAssumption
<1> HIDE DEF n
<1>6. OneHandle'
  <2>1. \A u, v \in 1 .. Len(points') : points'[u] = points'[v] /\ points'[u] # Null => u = v
    BY <1>1, <1>3, <1>4, <1>5
  <2>2. \A u \in 1 .. Len(points') : points'[u] # Null => points'[u] \in alive'
    BY <1>1, <1>3, <1>4
  <2>3. \A b \in alive' : iLuaRef'[b] # 0 /\ points'[iLuaRef'[b]] = b
    <3>1. n # 0
      BY <1>1 DEF n
    <3>2. \A b \in alive : b # a /\ iLuaRef'[b] = iLuaRef[b] /\ iLuaRef[b] # 0
      BY <1>1, <1>2
    <3> QED
      BY <1>1, <1>2, <3>1, <3>2
  <2> QED
    BY <2>1, <2>2, <2>3 DEF OneHandle
<1>7. RefsExact'
  <2>1. refs = {iLuaRef[b] : b \in alive}
    BY DEF IInv, HandlesExact, RefsExact
  <2>2. \A b \in alive : iLuaRef'[b] = iLuaRef[b]
    BY <1>1, <1>2
  <2> QED
    BY <1>1, <2>1, <2>2 DEF RefsExact
<1>8. (LiveListed /\ DanglingOnlyByFailure)'
  BY DEF IInv, HandlesExact, LiveListed, RegisterDatabase, DanglingOnlyByFailure
<1>9. FreshUnreferenced'
  BY <1>1 DEF IInv, FreshUnreferenced
<1> QED
  BY <1>6, <1>7, <1>8, <1>9

LEMMA MakingIInv ==
  ASSUME RegistryAssumption, IInv, NEW a \in Addrs, NEW cb \in BOOLEAN,
         lua_Create(a, cb) \/ tmysql_Connect(a, cb)
  PROVE  IInv'
<1>1. /\ made < MaxMade /\ made' = made + 1 /\ a \notin alive
      /\ alive' = alive \cup {a} /\ PushHandle(a) /\ RegisterDatabase(a)
      /\ callbacks' \in {callbacks, callbacks \cup {a}}
      /\ connected' \in {connected, connected \cup {a}}
      /\ UNCHANGED <<lost, failed, closing, fault>>
  BY DEF lua_Create, tmysql_Connect, Create
<1>2. (LiveListed /\ OneHandle /\ RefsExact /\ DanglingOnlyByFailure /\ FreshUnreferenced)'
  BY <1>1, MadeHandles
<1>3. /\ points' \in Seq(Addrs \cup {Null})
      /\ Len(points) \in Nat /\ Len(points') = Len(points) + 1
      /\ iLuaRef' \in [Addrs -> 0 .. Len(points')]
      /\ refs' = refs \cup {Len(points) + 1}
  BY <1>1, NewHandle
<1>4. TypeOK'
  <2>1. TypeOK
    BY DEF IInv, HandlesExact
  <2>2. made' \in 0 .. MaxMade
    BY <1>1, <2>1 DEF RegistryAssumption, TypeOK
  <2>3. refs' \subseteq 1 .. Len(points')
    <3>1. refs \subseteq 1 .. Len(points)
      BY <2>1 DEF TypeOK
    <3>2. 1 .. Len(points) \cup {Len(points) + 1} = 1 .. Len(points')
      BY <1>3
    <3> QED
      BY <1>3, <3>1, <3>2
  <2>4. m_databases' \subseteq Addrs /\ alive' \subseteq Addrs
    BY <1>1, <2>1 DEF TypeOK, RegisterDatabase
  <2>5. connected' \subseteq alive' /\ callbacks' \subseteq alive'
    BY <1>1, <2>1 DEF TypeOK
  <2> QED
    BY <1>1, <1>3, <2>2, <2>3, <2>1, <2>4, <2>5 DEF TypeOK
<1>5. LostOnce'
  <2>1. /\ IsFiniteSet(callbacks) /\ lost + Cardinality(callbacks) <= made
        /\ lost \in Nat /\ made \in Nat
    BY DEF IInv, HandlesExact, TypeOK, LostOnce
  <2>2. Cardinality(callbacks) \in Nat
    BY <2>1, FS_CardinalityType
  <2>3. /\ IsFiniteSet(callbacks \cup {a})
        /\ Cardinality(callbacks \cup {a}) \in {Cardinality(callbacks), Cardinality(callbacks) + 1}
    BY <2>1, FS_AddElement
  <2> QED
    BY <1>1, <2>1, <2>2, <2>3 DEF LostOnce
<1> QED
  BY <1>2, <1>4, <1>5 DEF IInv, HandlesExact

\* tmysql.Connect deletes the object and leaves the pointer in the table.
LEMMA ConnectFailsIInv ==
  ASSUME RegistryAssumption, IInv, NEW a \in Addrs, NEW cb \in BOOLEAN,
         tmysql_ConnectFails(a, cb)
  PROVE  IInv'
<1>1. /\ made < MaxMade /\ made' = made + 1 /\ a \notin alive
      /\ RegisterDatabase(a) /\ failed' = failed \cup {a}
      /\ lost' \in {lost, lost + 1}
      /\ UNCHANGED <<alive, connected, iLuaRef, callbacks, points, refs, closing, fault>>
  BY DEF tmysql_ConnectFails, Create
<1>2. LostOnce'
  <2>1. /\ IsFiniteSet(callbacks) /\ lost + Cardinality(callbacks) <= made
        /\ lost \in Nat /\ made \in Nat
    BY DEF IInv, HandlesExact, TypeOK, LostOnce
  <2>2. Cardinality(callbacks) \in Nat
    BY <2>1, FS_CardinalityType
  <2> QED
    BY <1>1, <2>1, <2>2 DEF LostOnce
<1>3. TypeOK'
  <2>1. TypeOK /\ LostOnce
    BY DEF IInv, HandlesExact
  <2>2. made' \in 0 .. MaxMade
    BY <1>1, <2>1 DEF RegistryAssumption, TypeOK
  <2>3. lost' \in 0 .. MaxMade
    <3>1. /\ Cardinality(callbacks) \in Nat /\ lost + Cardinality(callbacks) <= made
      BY <2>1, FS_CardinalityType DEF LostOnce
    <3> QED
      BY <1>1, <2>1, <3>1 DEF RegistryAssumption, TypeOK
  <2> QED
    BY <1>1, <2>1, <2>2, <2>3 DEF TypeOK, RegisterDatabase
<1>4. (LiveListed /\ OneHandle /\ RefsExact /\ DanglingOnlyByFailure /\ FreshUnreferenced)'
  BY <1>1 DEF IInv, HandlesExact, LiveListed, OneHandle, RefsExact, DanglingOnlyByFailure,
              FreshUnreferenced, RegisterDatabase
<1> QED
  BY <1>2, <1>3, <1>4 DEF IInv, HandlesExact

-----------------------------------------------------------------------------
(* Using and deleting a database.                                          *)

\* Steps that leave objects, handles and the table alone.
LEMMA UsingIInv ==
  ASSUME RegistryAssumption, IInv,
         connected' \subseteq alive, callbacks' \subseteq callbacks,
         UNCHANGED <<made, m_databases, alive, iLuaRef, points, refs, lost, failed>>,
         closing' \in BOOLEAN, fault' \in {"none", "dangling", "no_thread"},
         fault' = "dangling" => failed # {}
  PROVE  IInv'
<1>1. TypeOK /\ LostOnce /\ LiveListed /\ OneHandle /\ RefsExact /\ DanglingOnlyByFailure
      /\ FreshUnreferenced
  BY DEF IInv, HandlesExact
<1>2. TypeOK'
  BY <1>1 DEF TypeOK
<1>3. (LiveListed /\ OneHandle /\ RefsExact /\ DanglingOnlyByFailure /\ FreshUnreferenced)'
  BY <1>1 DEF LiveListed, OneHandle, RefsExact, DanglingOnlyByFailure, FreshUnreferenced
<1>4. LostOnce'
  <2>1. IsFiniteSet(callbacks) /\ lost + Cardinality(callbacks) <= made
    BY <1>1 DEF LostOnce
  <2>2. IsFiniteSet(callbacks') /\ Cardinality(callbacks') <= Cardinality(callbacks)
    BY <2>1, FS_Subset
  <2>3. Cardinality(callbacks) \in Nat /\ Cardinality(callbacks') \in Nat
    BY <2>1, <2>2, FS_CardinalityType
  <2>4. lost \in Nat /\ made \in Nat
    BY <1>1 DEF TypeOK
  <2> QED
    BY <2>1, <2>2, <2>3, <2>4 DEF LostOnce
<1> QED
  BY <1>2, <1>3, <1>4 DEF IInv, HandlesExact

\* A database is disconnected through its only handle.
LEMMA DisconnectIInv ==
  ASSUME RegistryAssumption, IInv, NEW u \in 1 .. Len(points), Usable(u), Disconnect(u),
         UNCHANGED <<made, failed, closing, fault>>
  PROVE  IInv'
<1> DEFINE a == points[u]
<1>1. TypeOK /\ LostOnce /\ LiveListed /\ OneHandle /\ RefsExact /\ DanglingOnlyByFailure
      /\ FreshUnreferenced
  BY DEF IInv, HandlesExact
<1>2. /\ points' = [points EXCEPT ![u] = Null] /\ refs' = refs \ {u}
      /\ m_databases' = m_databases \ {a} /\ alive' = alive \ {a}
      /\ connected' = connected \ {a} /\ iLuaRef' = [iLuaRef EXCEPT ![a] = 0]
      /\ callbacks' = callbacks \ {a}
      /\ lost' = IF a \in callbacks THEN lost + 1 ELSE lost
  BY DEF Disconnect, NullifyReference, DeregisterDatabase, ResetConnected
<1>3. a # Null /\ a \in alive /\ a \in Addrs /\ iLuaRef[a] = u
  <2>1. a # Null /\ a \in alive /\ a \in Addrs
    BY <1>1 DEF Usable, OneHandle, TypeOK
  <2>2. iLuaRef[a] \in 1 .. Len(points) /\ points[iLuaRef[a]] = a
    BY <1>1, <2>1 DEF OneHandle, TypeOK
  <2> QED
    BY <1>1, <2>1, <2>2 DEF OneHandle
<1> HIDE DEF a
<1>4. /\ points \in Seq(Addrs \cup {Null}) /\ Len(points) \in Nat
      /\ iLuaRef \in [Addrs -> 0 .. Len(points)]
  BY <1>1 DEF TypeOK
<1>5. /\ points' \in Seq(Addrs \cup {Null}) /\ Len(points') = Len(points)
      /\ points'[u] = Null
      /\ \A v \in 1 .. Len(points) : v # u => points'[v] = points[v]
  BY <1>2, <1>4
<1>6. /\ iLuaRef' \in [Addrs -> 0 .. Len(points)] /\ iLuaRef'[a] = 0
      /\ \A b \in Addrs : b # a => iLuaRef'[b] = iLuaRef[b]
  BY <1>2, <1>3, <1>4
<1>7. \A b \in alive : b # a => iLuaRef[b] \in 1 .. Len(points) /\ iLuaRef[b] # u /\ points[iLuaRef[b]] = b
  BY <1>1, <1>3, <1>4 DEF OneHandle, TypeOK, a
<1>8. OneHandle'
  <2>1. \A v, w \in 1 .. Len(points') : points'[v] = points'[w] /\ points'[v] # Null => v = w
    BY <1>1, <1>5 DEF OneHandle
  <2>2. \A v \in 1 .. Len(points') : points'[v] # Null => points'[v] \in alive'
    BY <1>1, <1>2, <1>5 DEF OneHandle, a
  <2>3. \A b \in alive' : iLuaRef'[b] # 0 /\ points'[iLuaRef'[b]] = b
    <3>1. \A b \in alive' : b \in alive /\ b # a /\ b \in Addrs
      BY <1>1, <1>2 DEF TypeOK
    <3>2. \A b \in alive' : iLuaRef[b] # 0
      BY <1>1, <3>1 DEF OneHandle
    <3> QED
      BY <1>5, <1>6, <1>7, <3>1, <3>2
  <2> QED
    BY <2>1, <2>2, <2>3 DEF OneHandle
<1>9. RefsExact'
  <2>1. refs = {iLuaRef[b] : b \in alive} /\ alive \subseteq Addrs
    BY <1>1 DEF RefsExact, TypeOK
  <2>2. \A b \in alive' : b \in alive /\ b # a /\ iLuaRef'[b] = iLuaRef[b] /\ iLuaRef[b] # u
    BY <1>2, <1>6, <1>7, <2>1
  <2>3. \A b \in alive : b = a \/ b \in alive'
    BY <1>2
  <2> QED
    BY <1>2, <1>3, <2>1, <2>2, <2>3 DEF RefsExact
<1>10. (LiveListed /\ DanglingOnlyByFailure)'
  BY <1>1, <1>2 DEF LiveListed, DanglingOnlyByFailure
<1>11. FreshUnreferenced'
  BY <1>1, <1>2, <1>6 DEF FreshUnreferenced
<1>12. lost' \in Nat /\ lost' <= made /\ LostOnce'
  <2>1. /\ IsFiniteSet(callbacks) /\ lost + Cardinality(callbacks) <= made
        /\ lost \in Nat /\ made \in Nat
    BY <1>1 DEF LostOnce, TypeOK
  <2>2. /\ IsFiniteSet(callbacks')
        /\ Cardinality(callbacks') =
             IF a \in callbacks THEN Cardinality(callbacks) - 1 ELSE Cardinality(callbacks)
    BY <1>2, <2>1, FS_RemoveElement
  <2>3. Cardinality(callbacks) \in Nat /\ Cardinality(callbacks') \in Nat
    BY <2>1, <2>2, FS_CardinalityType
  <2>4. lost' + Cardinality(callbacks') <= made /\ lost' \in Nat
    BY <1>2, <2>1, <2>2, <2>3
  <2> QED
    BY <2>1, <2>2, <2>3, <2>4 DEF LostOnce
<1>13. TypeOK'
  <2>1. lost' \in 0 .. MaxMade
    BY <1>1, <1>12 DEF TypeOK, RegistryAssumption
  <2>2. refs' \subseteq 1 .. Len(points')
    BY <1>1, <1>2, <1>5 DEF TypeOK
  <2> QED
    BY <1>1, <1>2, <1>5, <1>6, <2>1, <2>2 DEF TypeOK
<1> QED
  BY <1>8, <1>9, <1>10, <1>11, <1>12, <1>13 DEF IInv, HandlesExact

-----------------------------------------------------------------------------
(* The theorem.                                                            *)

LEMMA InitIInv ==
  ASSUME RegistryAssumption, Init
  PROVE  IInv
<1>1. << >> \in Seq(Addrs \cup {Null}) /\ Len(<< >>) = 0
  BY EmptySeq
<1>2. TypeOK
  <2>1. 0 \in 0 .. MaxMade
    BY DEF RegistryAssumption
  <2>2. [a \in Addrs |-> 0] \in [Addrs -> 0 .. 0]
    OBVIOUS
  <2> QED
    BY <1>1, <2>1, <2>2 DEF Init, TypeOK
<1>3. LiveListed /\ OneHandle /\ RefsExact /\ DanglingOnlyByFailure /\ FreshUnreferenced
  BY <1>1 DEF Init, LiveListed, OneHandle, RefsExact, DanglingOnlyByFailure, FreshUnreferenced
<1>4. LostOnce
  BY FS_EmptySet DEF Init, LostOnce
<1> QED
  BY <1>2, <1>3, <1>4 DEF IInv, HandlesExact

LEMMA NextIInv ==
  ASSUME RegistryAssumption, IInv, [Next]_vars
  PROVE  IInv'
<1>1. ASSUME NEW a \in Addrs, NEW cb \in BOOLEAN,
             lua_Create(a, cb) \/ tmysql_Connect(a, cb) \/ tmysql_ConnectFails(a, cb)
      PROVE  IInv'
  BY <1>1, MakingIInv, ConnectFailsIInv
<1>2. ASSUME NEW u \in 1 .. Len(points), lua_Disconnect(u) \/ lua___gc(u)
      PROVE  IInv'
  <2>1. CASE Disconnect(u) /\ UNCHANGED fault
    BY <1>2, <2>1, DisconnectIInv DEF lua_Disconnect, lua___gc
  <2>2. CASE ~(Disconnect(u) /\ UNCHANGED fault)
    <3>1. /\ UNCHANGED <<made, m_databases, alive, iLuaRef, points, refs, lost, failed,
                         connected, callbacks, closing>>
          /\ fault' = "no_thread"
      BY <1>2, <2>2 DEF lua_Disconnect, lua___gc
    <3> QED
      BY <3>1, UsingIInv DEF IInv, HandlesExact, TypeOK
  <2> QED
    BY <2>1, <2>2
<1>3. ASSUME NEW u \in 1 .. Len(points), lua_Connect(u) \/ lua_ConnectFails(u) \/ lua_Poll(u)
      PROVE  IInv'
  <2>1. points[u] \in alive
    BY <1>3 DEF lua_Connect, lua_ConnectFails, lua_Poll, Usable, IInv, HandlesExact, OneHandle
  <2>2. /\ UNCHANGED <<made, m_databases, alive, iLuaRef, points, refs, lost, failed, closing>>
        /\ connected' \in {connected, connected \cup {points[u]}}
        /\ callbacks' \subseteq callbacks
        /\ fault' \in {fault, "no_thread"}
    BY <1>3 DEF lua_Connect, lua_ConnectFails, lua_Poll
  <2>3. TypeOK /\ DanglingOnlyByFailure
    BY DEF IInv, HandlesExact
  <2> QED
    BY <2>1, <2>2, <2>3, UsingIInv DEF TypeOK, DanglingOnlyByFailure
<1>4. CASE lua_GetTable \/ Close \/ UNCHANGED vars
  <2>1. TypeOK /\ DanglingOnlyByFailure
    BY DEF IInv, HandlesExact
  <2>2. /\ UNCHANGED <<made, m_databases, alive, connected, iLuaRef, callbacks, points, refs,
                       lost, failed>>
        /\ closing' \in {closing, TRUE}
        /\ fault' \in {fault, "none", "dangling"}
        /\ fault' = "dangling" => fault = "dangling" \/ ~(m_databases \subseteq alive)
    BY <1>4 DEF lua_GetTable, Close, vars
  <2> QED
    BY <2>1, <2>2, UsingIInv DEF TypeOK, DanglingOnlyByFailure
<1> QED
  BY <1>1, <1>2, <1>3, <1>4 DEF Next

\* GetTable lists every live database, each object has exactly one userdata,
\* kept by exactly its own reference, and an entry of m_databases dangles only
\* where tmysql.Connect failed: for any addresses, reused in any way.
THEOREM HandlesAreExact ==
  ASSUME RegistryAssumption
  PROVE  Spec => []HandlesExact
<1>1. Init => IInv
  BY InitIInv
<1>2. IInv /\ [Next]_vars => IInv'
  BY NextIInv
<1>3. IInv => HandlesExact
  BY DEF IInv
<1> QED
  BY <1>1, <1>2, <1>3, PTL DEF Spec
=============================================================================
