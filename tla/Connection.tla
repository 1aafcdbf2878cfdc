----------------------------- MODULE Connection -----------------------------
(***************************************************************************)
(* The MYSQL structure of one database: its options and its character set, *)
(* from the constructor's malloc to mysql_close, and the calls that both   *)
(* threads make on it without a lock.                                      *)
(*                                                                         *)
(* A call on the connection that talks to the server (a query, the         *)
(* setting of the character set) is two steps, so that the other thread    *)
(* can come in between; `user' says who is inside one.                     *)
(***************************************************************************)
EXTENDS Naturals

CONSTANTS
  Options,      \* values of mysql_option that the script uses
  CharSets,     \* character sets that the script asks for
  Default,      \* the character set of a new session
  Unset,        \* m_strCharSet is empty
  MaxLosses     \* bound: times the connection is lost

\* What the constants must be; the modules that instantiate this one assume it.
ConnectionAssumption ==
  /\ Default \notin CharSets
  /\ Unset \notin CharSets \cup {Default}
  /\ MaxLosses \in Nat

VARIABLES
  phase,        \* "created", "connected", or "closed"
  inited,       \* mysql_init has run on *m_MySQL
  options,      \* the options in *m_MySQL; before mysql_init, of no meaning
  charset,      \* the character set of *m_MySQL and of its session
  saved,        \* m_strCharSet
  link,         \* the connection: "up" or "lost"
  losses,       \* times it was lost
  io,           \* io thread: "idle", "command", "connect", "charset", "again"
  lua,          \* Lua thread: the character set it is setting, or Unset
  \* history
  asked,        \* options for which SetOption returned true
  escaped,      \* what the last Escape went by, if none was set since
  intruded,     \* a thread used the connection while the other was in a call
  refused       \* a new session did not take the saved character set

vars == <<phase, inited, options, charset, saved, link, losses, io, lua, asked,
          escaped, intruded, refused>>

Busy == io # "idle"
Sending == io \in {"command", "again"} /\ link = "up"
Connected == phase = "connected"

\* The Lua thread enters a call on the connection.
Intrude == intruded' = (intruded \/ Busy)

-----------------------------------------------------------------------------
(* The Lua thread.                                                         *)

\* Database:SetOption asks only for a handle that is not NULL.  Before
\* Connect, mysql_options writes into memory that nobody has initialised: it
\* may work, or be refused.
SetOption(o) ==
  /\ phase # "closed"
  /\ lua = Unset
  /\ \/ options' = options \cup {o} /\ asked' = asked \cup {o}
     \/ ~inited /\ UNCHANGED <<options, asked>>
  /\ Intrude
  /\ UNCHANGED <<phase, inited, charset, saved, link, losses, io, lua, escaped, refused>>

\* mysql_init clears the structure.
MysqlInit == inited' = TRUE /\ options' = {}

\* Initialize: mysql_init, the module's own two options, mysql_real_connect.
\* m_strCharSet is empty, as SetCharacterSet asks for a connected database.
Initialize ==
  /\ phase = "created"
  /\ phase' = "connected"
  /\ MysqlInit
  /\ charset' = Default
  /\ link' = "up"
  /\ UNCHANGED <<saved, losses, io, lua, asked, escaped, intruded, refused>>

\* It fails: Release closes the structure.
InitializeFails ==
  /\ phase = "created"
  /\ phase' = "closed"
  /\ MysqlInit
  /\ UNCHANGED <<charset, saved, link, losses, io, lua, asked, escaped, intruded, refused>>

\* Database:SetCharacterSet sends SET NAMES ...
SetCharacterSet(c) ==
  /\ Connected
  /\ lua = Unset
  /\ lua' = c
  /\ Intrude
  /\ UNCHANGED <<phase, inited, options, charset, saved, link, losses, io, asked,
                 escaped, refused>>

\* Mutant: the name is not kept for the next session.
ForgetCharSet(c) == UNCHANGED saved

\* strncpy(m_strCharSet, charset, 64).
SaveCharSet(c) == saved' = c

\* ... and has its answer: set and saved, or an error.
SetCharacterSetReturns(ok) ==
  /\ lua # Unset
  /\ ok => link = "up"
  /\ IF ok
       THEN charset' = lua /\ SaveCharSet(lua) /\ escaped' = Unset
       ELSE UNCHANGED <<charset, saved, escaped>>
  /\ lua' = Unset
  /\ Intrude
  /\ UNCHANGED <<phase, inited, options, link, losses, io, asked, refused>>

\* mysql_real_escape_string reads the character set of *m_MySQL.
EscapeByCharSet == escaped' = charset

\* Database:Escape.
Escape ==
  /\ Connected
  /\ lua = Unset
  /\ EscapeByCharSet
  /\ Intrude
  /\ UNCHANGED <<phase, inited, options, charset, saved, link, losses, io, lua, asked,
                 refused>>

\* GetServerInfo, GetHostInfo, GetServerVersion and GetArgCount read the
\* structure and change nothing.
Getter ==
  /\ Connected
  /\ lua = Unset
  /\ Intrude
  /\ UNCHANGED <<phase, inited, options, charset, saved, link, losses, io, lua, asked,
                 escaped, refused>>

\* Disconnect waits for the io thread, then mysql_close.
Disconnect ==
  /\ Connected
  /\ lua = Unset
  /\ ~Busy
  /\ phase' = "closed"
  /\ UNCHANGED <<inited, options, charset, saved, link, losses, io, lua, asked, escaped,
                 intruded, refused>>

-----------------------------------------------------------------------------
(* The io thread.                                                          *)

\* RunQuery or Execute sends its command.
Command ==
  /\ Connected
  /\ io = "idle"
  /\ io' = "command"
  /\ intruded' = (intruded \/ lua # Unset)
  /\ UNCHANGED <<phase, inited, options, charset, saved, link, losses, lua, asked,
                 escaped, refused>>

\* It is answered.
Answer ==
  /\ Sending
  /\ io' = "idle"
  /\ UNCHANGED <<phase, inited, options, charset, saved, link, losses, lua, asked,
                 escaped, intruded, refused>>

\* The server is lost, and Connect(err, true) is called the first time.
ServerLost ==
  /\ io \in {"command", "again"}
  /\ link = "lost" \/ losses < MaxLosses
  /\ losses' = IF link = "lost" THEN losses ELSE losses + 1
  /\ link' = "lost"
  /\ io' = IF io = "command" THEN "connect" ELSE "idle"
  /\ UNCHANGED <<phase, inited, options, charset, saved, lua, asked, escaped,
                 intruded, refused>>

\* mysql_real_connect makes a new session with the options of *m_MySQL.
Reconnect ==
  /\ io = "connect"
  /\ charset' = Default
  /\ link' = "up"
  /\ io' = IF saved = Unset THEN "again" ELSE "charset"
  /\ UNCHANGED <<phase, inited, options, saved, losses, lua, asked, escaped,
                 intruded, refused>>

\* ... or fails: the query has its own error.
ReconnectFails ==
  /\ io = "connect"
  /\ io' = "idle"
  /\ UNCHANGED <<phase, inited, options, charset, saved, link, losses, lua, asked,
                 escaped, intruded, refused>>

\* SetCharacterSet(m_strCharSet, error).
ApplyCharSet == charset' = saved

ReapplyCharSet ==
  /\ io = "charset"
  /\ ApplyCharSet
  /\ io' = "again"
  /\ UNCHANGED <<phase, inited, options, saved, link, losses, lua, asked, escaped,
                 intruded, refused>>

\* The new session does not take it: Connect returns false and the query
\* fails, but the connection stays up.
ReapplyFails ==
  /\ io = "charset"
  /\ refused' = TRUE
  /\ io' = "idle"
  /\ UNCHANGED <<phase, inited, options, charset, saved, link, losses, lua, asked,
                 escaped, intruded>>

-----------------------------------------------------------------------------
\* The constructor: malloc, and an m_strCharSet of zeros.
Init ==
  /\ phase = "created"
  /\ inited = FALSE
  /\ options = {}
  /\ charset = Default
  /\ saved = Unset
  /\ link = "up"
  /\ losses = 0
  /\ io = "idle"
  /\ lua = Unset
  /\ asked = {}
  /\ escaped = Unset
  /\ intruded = FALSE
  /\ refused = FALSE

LuaStep ==
  \/ \E o \in Options : SetOption(o)
  \/ Initialize \/ InitializeFails
  \/ \E c \in CharSets : SetCharacterSet(c)
  \/ \E ok \in BOOLEAN : SetCharacterSetReturns(ok)
  \/ Escape \/ Getter \/ Disconnect

IoStep ==
  \/ Command \/ Answer \/ ServerLost \/ Reconnect \/ ReconnectFails
  \/ ReapplyCharSet \/ ReapplyFails

Next == LuaStep \/ IoStep

Spec == Init /\ [][Next]_vars

-----------------------------------------------------------------------------
(* Properties.                                                             *)

\* Every variable has its type; the MYSQL of a database that has connected
\* was initialised.
TypeOK ==
  /\ phase \in {"created", "connected", "closed"}
  /\ inited = (phase # "created")
  /\ options \subseteq Options
  /\ charset \in CharSets \cup {Default}
  /\ saved \in CharSets \cup {Unset}
  /\ link \in {"up", "lost"}
  /\ losses \in 0 .. MaxLosses
  /\ io \in {"idle", "command", "connect", "charset", "again"}
  /\ lua \in CharSets \cup {Unset}
  /\ asked \subseteq Options
  /\ escaped \in CharSets \cup {Default, Unset}
  /\ intruded \in BOOLEAN
  /\ refused \in BOOLEAN

\* The character set survives every loss of the server: a command is sent in
\* the last one that SetCharacterSet returned true for, unless the threads
\* met on the connection or a new session refused it (a later query then
\* runs in the default one, silently).
CommandCharSet ==
  Sending =>
    \/ charset = IF saved = Unset THEN Default ELSE saved
    \/ intruded
    \/ refused

\* What Escape went by is what the next command is sent in, also after a
\* reconnect, unless the threads met or a new session refused it.
EscapeMatches == Sending /\ escaped # Unset => escaped = charset \/ intruded \/ refused

\* The character set that was asked for last is the one of every command, and
\* the one that Escape goes by, unless the threads met or a session refused it.
CharSetKept == TypeOK /\ CommandCharSet /\ EscapeMatches

-----------------------------------------------------------------------------
(* What the documentation says.                                            *)

\* README, on SetOption: "Use with tmysql.Create then call Connect() after
\* you set the options you want."
OptionsTaken == Connected => asked \subseteq options

\* lua_Prepare: "We can't intrude on mysql commands or we'll get errors."
NoIntrusion == ~intruded
=============================================================================
