------------------------------ MODULE SocketHub ------------------------------
(***************************************************************************)
(* WebSocket connections (backend/platform/socket): the hub goroutine       *)
(* (Hub.Run), and for every connection its ReadPump, which runs the message *)
(* handlers, and its WritePump.  Register, Unregister and Broadcast are     *)
(* unbuffered channels only the hub receives from; Send is a buffered       *)
(* channel per connection.  A character belongs to the connection that      *)
(* selected it last; the one before is dropped.                             *)
(*                                                                          *)
(* A Client is one connection, used once.  A send on a closed Send channel  *)
(* panics in a goroutine nobody recovers, which restarts the server: all    *)
(* of this state is in memory and starts empty again.  Messages have no     *)
(* contents; the logout callback is represented by what it is called with.  *)
(***************************************************************************)
EXTENDS Integers, FiniteSets

CONSTANTS Client, Character, NoClient, NoCharacter,
          BufSize     \* capacity of Send, 256 in the code

ASSUME BufferHasRoom == BufSize \in Nat \ {0}
ASSUME NothingIsNoValue == NoClient \notin Client /\ NoCharacter \notin Character

VARIABLES
    clients,            \* h.clients
    characterClients,   \* h.characterClients
    CharacterID,        \* client.CharacterID
    queued,             \* len(client.Send)
    closes,             \* times client.Send has been closed
    connected,          \* the connections whose Conn is usable
    reader,             \* where the connection's ReadPump is
    writing,            \* the connections whose WritePump runs
    overridden,         \* AssociateCharacter's oldClient, still to be removed
    stale,              \* the slow consumers Run has yet to drop
    selected,           \* observation: the character a connection selected last
    loggedOut           \* observation: the character onLogout reported for it

hubVars == <<clients, characterClients, CharacterID, closes, loggedOut>>
vars == <<hubVars, queued, connected, reader, writing, overridden, stale, selected>>

Init ==
    /\ clients = {}
    /\ characterClients = [x \in Character |-> NoClient]
    /\ CharacterID = [c \in Client |-> NoCharacter]
    /\ queued = [c \in Client |-> 0]
    /\ closes = [c \in Client |-> 0]
    /\ connected = {}
    /\ reader = [c \in Client |-> "none"]
    /\ writing = {}
    /\ overridden = [c \in Client |-> NoClient]
    /\ stale = {}
    /\ selected = [c \in Client |-> NoCharacter]
    /\ loggedOut = [c \in Client |-> NoCharacter]

ReaderGoto(c, s) == reader' = [reader EXCEPT ![c] = s]

Mutant_removeClient_NoMembershipCheck(c) ==
    /\ clients' = clients \ {c}
    /\ closes' = [closes EXCEPT ![c] = @ + 1]
    /\ loggedOut' = [loggedOut EXCEPT ![c] = CharacterID[c]]
    /\ characterClients' =
         [x \in Character |-> IF x = CharacterID[c] THEN NoClient ELSE characterClients[x]]
    /\ UNCHANGED CharacterID

\* Only the call that finds the client still registered closes its channel.
removeClient(c) ==
    IF c \in clients
    THEN /\ clients' = clients \ {c}
         /\ closes' = [closes EXCEPT ![c] = @ + 1]
         /\ loggedOut' = [loggedOut EXCEPT ![c] = CharacterID[c]]
         /\ characterClients' =
              [x \in Character |-> IF x = CharacterID[c] THEN NoClient ELSE characterClients[x]]
         /\ UNCHANGED CharacterID
    ELSE UNCHANGED hubVars

-----------------------------------------------------------------------------
(* Hub.Run: one case of its select, or one slow consumer, at a time.         *)

HubRegister(c) ==
    /\ stale = {}
    /\ reader[c] = "registering"
    /\ clients' = clients \cup {c}
    /\ writing' = writing \cup {c}
    /\ ReaderGoto(c, "reading")
    /\ UNCHANGED <<characterClients, CharacterID, closes, loggedOut,
                   queued, connected, overridden, stale, selected>>

HubUnregister(c) ==
    /\ stale = {}
    /\ reader[c] = "unregister"
    /\ removeClient(c)
    /\ connected' = connected \ {c}
    /\ ReaderGoto(c, "done")
    /\ UNCHANGED <<queued, writing, overridden, stale, selected>>

\* The sender c goes on; every registered client with room gets the message.
HubBroadcast(c) ==
    /\ stale = {}
    /\ reader[c] = "broadcast"
    /\ ReaderGoto(c, "reading")
    /\ queued' = [d \in Client |-> IF d \in clients /\ queued[d] < BufSize
                                   THEN queued[d] + 1 ELSE queued[d]]
    /\ stale' = {d \in clients : queued[d] = BufSize}
    /\ UNCHANGED <<hubVars, connected, writing, overridden, selected>>

\* Run would wait for itself: only Run receives from Unregister.
Mutant_DropStale_ViaUnregister(c) ==
    /\ c \in stale
    /\ stale = {}
    /\ UNCHANGED vars

DropStale(c) ==
    /\ c \in stale
    /\ removeClient(c)
    /\ stale' = stale \ {c}
    /\ UNCHANGED <<queued, connected, reader, writing, overridden, selected>>

-----------------------------------------------------------------------------
(* ServeWS and ReadPump.                                                     *)

Connect(c) ==
    /\ reader[c] = "none"
    /\ connected' = connected \cup {c}
    /\ ReaderGoto(c, "registering")
    /\ UNCHANGED <<hubVars, queued, writing, overridden, stale, selected>>

\* CHAT, and COMBAT_ATTACK when the attack succeeds.
ReadBroadcast(c) ==
    /\ reader[c] = "reading" /\ c \in connected
    /\ ReaderGoto(c, "broadcast")
    /\ UNCHANGED <<hubVars, queued, connected, writing, overridden, stale, selected>>

\* COMBAT_ATTACK when it fails.
ReadRefused(c) ==
    /\ reader[c] = "reading" /\ c \in connected
    /\ ReaderGoto(c, "reply")
    /\ UNCHANGED <<hubVars, queued, connected, writing, overridden, stale, selected>>

Mutant_AssociateCharacter_KeepsOldID(c, x) ==
    LET old == characterClients[x] IN
    /\ reader[c] = "reading" /\ c \in connected
    /\ characterClients' = [characterClients EXCEPT ![x] = c]
    /\ CharacterID' = [CharacterID EXCEPT ![c] = x]
    /\ overridden' = [overridden EXCEPT ![c] = IF old = c THEN NoClient ELSE old]
    /\ selected' = [selected EXCEPT ![c] = x]
    /\ ReaderGoto(c, IF old \in {c, NoClient} THEN "reply" ELSE "override")
    /\ UNCHANGED <<clients, closes, loggedOut, queued, connected, writing, stale>>

\* SELECT_CHARACTER, up to the unlock of AssociateCharacter.
AssociateCharacter(c, x) ==
    LET old == characterClients[x] IN
    /\ reader[c] = "reading" /\ c \in connected
    /\ characterClients' = [characterClients EXCEPT ![x] = c]
    /\ CharacterID' = [d \in Client |-> IF d = c THEN x
                                        ELSE IF d = old THEN NoCharacter
                                        ELSE CharacterID[d]]
    /\ overridden' = [overridden EXCEPT ![c] = IF old = c THEN NoClient ELSE old]
    /\ selected' = [selected EXCEPT ![c] = x]
    /\ ReaderGoto(c, IF old \in {c, NoClient} THEN "reply" ELSE "override")
    /\ UNCHANGED <<clients, closes, loggedOut, queued, connected, writing, stale>>

\* AssociateCharacter drops the older connection after the unlock.
Override(c) ==
    /\ reader[c] = "override"
    /\ removeClient(overridden[c])
    /\ overridden' = [overridden EXCEPT ![c] = NoClient]
    /\ ReaderGoto(c, "reply")
    /\ UNCHANGED <<queued, connected, writing, stale, selected>>

\* client.Send <- ack waits for room; SELECT_CHARACTER may send AWAY_EVENTS first.
Reply(c) ==
    /\ reader[c] = "reply"
    /\ closes[c] = 0
    /\ queued[c] < BufSize
    /\ queued' = [queued EXCEPT ![c] = @ + 1]
    /\ \E next \in {"reply", "reading"} : ReaderGoto(c, next)
    /\ UNCHANGED <<hubVars, connected, writing, overridden, stale, selected>>

\* A send on a closed channel panics, also one that was waiting for room.
Panic(c) ==
    /\ reader[c] = "reply"
    /\ closes[c] > 0
    /\ clients' = {}
    /\ characterClients' = [x \in Character |-> NoClient]
    /\ CharacterID' = [d \in Client |-> NoCharacter]
    /\ queued' = [d \in Client |-> 0]
    /\ closes' = [d \in Client |-> 0]
    /\ connected' = {}
    /\ reader' = [d \in Client |-> "none"]
    /\ writing' = {}
    /\ overridden' = [d \in Client |-> NoClient]
    /\ stale' = {}
    /\ selected' = [d \in Client |-> NoCharacter]
    /\ loggedOut' = [d \in Client |-> NoCharacter]

\* ReadMessage fails; the deferred function ends at the Unregister channel.
ReadError(c) ==
    /\ reader[c] = "reading"
    /\ c \notin connected
    /\ ReaderGoto(c, "unregister")
    /\ UNCHANGED <<hubVars, queued, connected, writing, overridden, stale, selected>>

\* The peer goes away or misses a pong.
PeerGone(c) ==
    /\ c \in connected
    /\ connected' = connected \ {c}
    /\ UNCHANGED <<hubVars, queued, reader, writing, overridden, stale, selected>>

-----------------------------------------------------------------------------
(* WritePump writes everything queued, then notices that Send is closed, or  *)
(* that the connection is gone; on return it closes the connection.          *)

Write(c) ==
    /\ c \in writing /\ queued[c] > 0 /\ c \in connected
    /\ queued' = [queued EXCEPT ![c] = 0]
    /\ UNCHANGED <<hubVars, connected, reader, writing, overridden, stale, selected>>

Mutant_WriterExit_LeavesConn(c) ==
    /\ c \in writing
    /\ c \notin connected \/ (queued[c] = 0 /\ closes[c] > 0)
    /\ writing' = writing \ {c}
    /\ UNCHANGED <<hubVars, queued, connected, reader, overridden, stale, selected>>

WriterExit(c) ==
    /\ c \in writing
    /\ c \notin connected \/ (queued[c] = 0 /\ closes[c] > 0)
    /\ writing' = writing \ {c}
    /\ connected' = connected \ {c}
    /\ UNCHANGED <<hubVars, queued, reader, overridden, stale, selected>>

Next ==
    \E c \in Client :
        \/ HubRegister(c) \/ HubUnregister(c) \/ HubBroadcast(c) \/ DropStale(c)
        \/ Connect(c) \/ ReadBroadcast(c) \/ ReadRefused(c)
        \/ \E x \in Character : AssociateCharacter(c, x)
        \/ Override(c) \/ Reply(c) \/ Panic(c) \/ ReadError(c) \/ PeerGone(c)
        \/ Write(c) \/ WriterExit(c)

Spec == Init /\ [][Next]_vars

\* Goroutines run on; select chooses at random among the senders that are ready,
\* so none is passed over for ever.
FairSpec ==
    /\ Spec
    /\ \A c \in Client :
        /\ SF_vars(HubRegister(c)) /\ SF_vars(HubUnregister(c)) /\ SF_vars(HubBroadcast(c))
        /\ WF_vars(DropStale(c)) /\ WF_vars(Override(c)) /\ WF_vars(Reply(c))
        /\ WF_vars(Panic(c)) /\ WF_vars(ReadError(c))
        /\ WF_vars(Write(c)) /\ WF_vars(WriterExit(c))

-----------------------------------------------------------------------------

TypeOK ==
    /\ clients \subseteq Client
    /\ characterClients \in [Character -> Client \cup {NoClient}]
    /\ CharacterID \in [Client -> Character \cup {NoCharacter}]
    /\ queued \in [Client -> 0 .. BufSize]
    /\ closes \in [Client -> Nat]
    /\ connected \subseteq Client
    /\ reader \in [Client -> {"none", "registering", "reading", "broadcast", "reply",
                              "override", "unregister", "done"}]
    /\ writing \subseteq Client
    /\ overridden \in [Client -> Client \cup {NoClient}]
    /\ stale \subseteq Client
    /\ selected \in [Client -> Character \cup {NoCharacter}]
    /\ loggedOut \in [Client -> Character \cup {NoCharacter}]

\* However broadcasts, disconnects and overrides overlap, Send is closed at most
\* once ("guards against a double close", hub.go:70-72), and never while Run may
\* still broadcast to it: a registered client's channel is open (hub.go:53-58).
ClosedOnce ==
    \A c \in Client : closes[c] <= 1 /\ (c \in clients => closes[c] = 0)

\* The mapping of a character is never deleted or taken by anyone but the connection
\* that selects it: a registered client that holds a CharacterID is the one
\* characterClients names (hub.go:97-99).
MappingHeld ==
    \A c \in clients :
        CharacterID[c] # NoCharacter => characterClients[CharacterID[c]] = c

\* A registered client has a ReadPump that will unregister it; nothing has happened
\* to one that is not registered yet.
ReaderOwnsClient ==
    \A c \in Client :
        /\ c \in clients => reader[c] \notin {"none", "registering", "done"}
        /\ reader[c] \in {"none", "registering"} => closes[c] = 0 /\ CharacterID[c] = NoCharacter

HubIInv == TypeOK /\ ClosedOnce /\ MappingHeld /\ ReaderOwnsClient

\* Whoever calls the hub is served: Run never waits for itself or for a slow client
\* ("freezing the whole hub", hub.go:48-51).
HubServes ==
    \A c \in Client :
        reader[c] \in {"registering", "broadcast", "unregister"}
            ~> reader[c] \notin {"registering", "broadcast", "unregister"}

\* A connection whose channel was closed winds down: its WritePump closes the
\* connection, its ReadPump sees that and unregisters (client.go:70-149).
DroppedClientsEnd == \A c \in Client : closes[c] > 0 ~> reader[c] \in {"done", "none"}

\* "invoked ... whenever a character's connection is dropped" (hub.go:29-30): when
\* the connection that holds a character leaves the hub, the character is reported.
DropsReported ==
    [][\A c \in clients \ clients' :
         /\ selected[c] # NoCharacter
         /\ characterClients[selected[c]] = c
         /\ reader'[c] # "none"              \* not a restart
         => loggedOut'[c] = selected[c]]_vars
=============================================================================
