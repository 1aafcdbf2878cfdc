------------------------------ MODULE Registry ------------------------------
(***************************************************************************)
(* The databases a script has made: tmysql.m_databases, the objects, their *)
(* handles in Lua and the references that keep those.                      *)
(*                                                                         *)
(* m_databases holds pointers, and `new' may return the address of an      *)
(* object that was deleted.  A handle is a userdata that holds an address  *)
(* or NULL; m_iLuaRef keeps it alive, so that it is finalised only when    *)
(* the Lua state closes.  A disconnect is one step here; module Database   *)
(* takes it apart.                                                         *)
(***************************************************************************)
EXTENDS Naturals, Sequences

CONSTANTS
  Addrs,        \* addresses of Database objects
  Null,         \* no address
  MaxMade       \* bound: databases made

\* What the constants must be; the modules that instantiate this one assume it.
RegistryAssumption ==
  /\ Null \notin Addrs
  /\ MaxMade \in Nat

VARIABLES
  made,         \* databases made so far
  m_databases,
  alive,        \* addresses of objects that exist
  connected,    \* of those, the ones with m_bIsConnected
  iLuaRef,      \* m_iLuaRef at each address: 0, or the number of a userdata
  callbacks,    \* addresses whose m_iCallback holds a reference
  points,       \* the address in each userdata, or Null
  refs,         \* userdata kept by a reference
  lost,         \* references to connect callbacks that nobody will free
  failed,       \* addresses at which tmysql.Connect deleted an object
  closing,      \* the Lua state is being closed
  fault         \* "none", "dangling" (a deleted object is used), "no_thread"

vars == <<made, m_databases, alive, connected, iLuaRef, callbacks, points, refs,
          lost, failed, closing, fault>>

Running == fault = "none" /\ ~closing

-----------------------------------------------------------------------------
(* Handles.                                                                *)

\* PushHandle: the userdata is made the first time.
PushHandle(a) ==
  IF iLuaRef[a] # 0 THEN UNCHANGED <<points, iLuaRef, refs>>
  ELSE /\ points' = Append(points, a)
       /\ iLuaRef' = [iLuaRef EXCEPT ![a] = Len(points) + 1]
       /\ refs' = refs \cup {Len(points) + 1}

\* Mutant: the userdata keeps the pointer.
KeepPointer(u) == refs' = refs \ {u} /\ UNCHANGED points

\* NullifyReference: the userdata becomes NULL and its reference is freed.
NullifyReference(u) ==
  /\ points' = [points EXCEPT ![u] = Null]
  /\ refs' = refs \ {u}

-----------------------------------------------------------------------------
(* Making a database.                                                      *)

\* m_databases.insert: nothing, for an address that is still there.
RegisterDatabase(a) == m_databases' = m_databases \cup {a}

\* createDatabase; cb: with a connect callback.
Create(a, cb) ==
  /\ Running
  /\ made < MaxMade
  /\ a \notin alive
  /\ made' = made + 1
  /\ RegisterDatabase(a)

\* tmysql.Create.
lua_Create(a, cb) ==
  /\ Create(a, cb)
  /\ alive' = alive \cup {a}
  /\ callbacks' = IF cb THEN callbacks \cup {a} ELSE callbacks
  /\ PushHandle(a)
  /\ UNCHANGED <<connected, lost, failed, closing, fault>>

\* tmysql.Connect; its connect callback is called and freed at once.
tmysql_Connect(a, cb) ==
  /\ Create(a, cb)
  /\ alive' = alive \cup {a}
  /\ connected' = connected \cup {a}
  /\ PushHandle(a)
  /\ UNCHANGED <<callbacks, lost, failed, closing, fault>>

\* Initialize fails: the object is deleted and nothing else is undone.
tmysql_ConnectFails(a, cb) ==
  /\ Create(a, cb)
  /\ lost' = IF cb THEN lost + 1 ELSE lost
  /\ failed' = failed \cup {a}
  /\ UNCHANGED <<alive, connected, iLuaRef, callbacks, points, refs, closing, fault>>

-----------------------------------------------------------------------------
(* Using a database through its handle u.                                  *)

\* getDatabaseFromStack finds an object.
Usable(u) == points[u] # Null

\* Database:Connect, for the first time.
lua_Connect(u) ==
  /\ Running
  /\ Usable(u)
  /\ points[u] \notin connected
  /\ connected' = connected \cup {points[u]}
  /\ UNCHANGED <<made, m_databases, alive, iLuaRef, callbacks, points, refs, lost, failed,
                 closing, fault>>

\* It fails: Release joins a thread that was never started.
lua_ConnectFails(u) ==
  /\ Running
  /\ Usable(u)
  /\ points[u] \notin connected
  /\ fault' = "no_thread"
  /\ UNCHANGED <<made, m_databases, alive, connected, iLuaRef, callbacks, points, refs,
                 lost, failed, closing>>

\* Poll calls and frees the connect callback.
lua_Poll(u) ==
  /\ Running
  /\ Usable(u)
  /\ points[u] \in connected \cap callbacks
  /\ callbacks' = callbacks \ {points[u]}
  /\ UNCHANGED <<made, m_databases, alive, connected, iLuaRef, points, refs, lost, failed,
                 closing, fault>>

\* m_databases.erase.
DeregisterDatabase(a) == m_databases' = m_databases \ {a}

\* m_bIsConnected = false.
ResetConnected(a) == connected' = connected \ {a}

\* Disconnect: Release, DeregisterDatabase, delete this.
Disconnect(u) ==
  LET a == points[u]
  IN /\ NullifyReference(u)
     /\ DeregisterDatabase(a)
     /\ alive' = alive \ {a}
     /\ ResetConnected(a)
     /\ iLuaRef' = [iLuaRef EXCEPT ![a] = 0]
     /\ callbacks' = callbacks \ {a}
     /\ lost' = IF a \in callbacks THEN lost + 1 ELSE lost

lua_Disconnect(u) ==
  /\ Running
  /\ Usable(u)
  /\ points[u] \in connected
  /\ Disconnect(u)
  /\ UNCHANGED <<made, failed, closing, fault>>

\* tmysql.GetTable pushes the handle of every pointer in m_databases; every
\* object has one already.
lua_GetTable ==
  /\ Running
  /\ fault' = IF m_databases \subseteq alive THEN "none" ELSE "dangling"
  /\ UNCHANGED <<made, m_databases, alive, connected, iLuaRef, callbacks, points, refs,
                 lost, failed, closing>>

-----------------------------------------------------------------------------
(* The Lua state closes: every userdata is finalised.                      *)

Close ==
  /\ Running
  /\ closing' = TRUE
  /\ UNCHANGED <<made, m_databases, alive, connected, iLuaRef, callbacks, points, refs,
                 lost, failed, fault>>

\* __gc; a database that never connected has no thread to join.
lua___gc(u) ==
  /\ closing /\ fault = "none"
  /\ Usable(u)
  /\ IF points[u] \in connected
       THEN Disconnect(u) /\ UNCHANGED fault
       ELSE /\ fault' = "no_thread"
            /\ UNCHANGED <<m_databases, alive, connected, iLuaRef, callbacks, points, refs, lost>>
  /\ UNCHANGED <<made, failed, closing>>

-----------------------------------------------------------------------------
Init ==
  /\ made = 0
  /\ m_databases = {}
  /\ alive = {}
  /\ connected = {}
  /\ iLuaRef = [a \in Addrs |-> 0]
  /\ callbacks = {}
  /\ points = << >>
  /\ refs = {}
  /\ lost = 0
  /\ failed = {}
  /\ closing = FALSE
  /\ fault = "none"

Next ==
  \/ \E a \in Addrs, cb \in BOOLEAN :
       lua_Create(a, cb) \/ tmysql_Connect(a, cb) \/ tmysql_ConnectFails(a, cb)
  \/ \E u \in 1 .. Len(points) :
       lua_Connect(u) \/ lua_ConnectFails(u) \/ lua_Poll(u) \/ lua_Disconnect(u) \/ lua___gc(u)
  \/ lua_GetTable
  \/ Close

Spec == Init /\ [][Next]_vars

-----------------------------------------------------------------------------
(* Properties.                                                             *)

\* Every variable has its type.
TypeOK ==
  /\ made \in 0 .. MaxMade
  /\ m_databases \subseteq Addrs
  /\ connected \subseteq alive
  /\ alive \subseteq Addrs
  /\ iLuaRef \in [Addrs -> 0 .. Len(points)]
  /\ callbacks \subseteq alive
  /\ points \in Seq(Addrs \cup {Null})
  /\ refs \subseteq 1 .. Len(points)
  /\ lost \in 0 .. MaxMade
  /\ failed \subseteq Addrs
  /\ closing \in BOOLEAN
  /\ fault \in {"none", "dangling", "no_thread"}

\* GetTable finds every database that exists, although addresses are reused
\* and a stale pointer may stand where a new one is inserted.
LiveListed == alive \subseteq m_databases

\* A script may compare handles: an object has exactly one userdata that
\* points at it, and a userdata that is not NULL points at an object.
OneHandle ==
  /\ \A u, v \in 1 .. Len(points) : points[u] = points[v] /\ points[u] # Null => u = v
  /\ \A u \in 1 .. Len(points) : points[u] # Null => points[u] \in alive
  /\ \A a \in alive : iLuaRef[a] # 0 /\ points[iLuaRef[a]] = a

\* Exactly the handles of existing databases are kept from the collector.
RefsExact == refs = {iLuaRef[a] : a \in alive}

\* m_databases points at a deleted object only where tmysql.Connect failed,
\* and no longer once a new object got that address and was disconnected.
DanglingOnlyByFailure ==
  /\ m_databases \ alive \subseteq failed
  /\ fault = "dangling" => failed # {}

\* What a script finds through tmysql.GetTable and through its handles is
\* right, although addresses are reused and a connect may fail.
HandlesExact ==
  TypeOK /\ LiveListed /\ OneHandle /\ RefsExact /\ DanglingOnlyByFailure

-----------------------------------------------------------------------------
(* What the documentation says.                                            *)

\* README: "Getting all active connections".
ActiveConnections == fault # "dangling"
=============================================================================
