-------------------------- MODULE SocketHub_proofs --------------------------
(* The hub's bookkeeping is sound for any number of connections, characters   *)
(* and any buffer size.                                                       *)
EXTENDS SocketHub, TLAPS

\* An empty hub.
LEMMA HubInitOK == Init => HubIInv
  BY BufferHasRoom, NothingIsNoValue
  DEF Init, HubIInv, TypeOK, ClosedOnce, MappingHeld, ReaderOwnsClient

\* What the hub's maps must satisfy; the rest of the state does not matter to them.
HubMaps == ClosedOnce /\ MappingHeld /\ ReaderOwnsClient

\* Removing a client, registered or not, whose ReadPump is past registration.
LEMMA removeKeeps ==
  ASSUME HubIInv, NEW c, removeClient(c),
         reader' \in [Client -> {"none", "registering", "reading", "broadcast", "reply",
                                 "override", "unregister", "done"}],
         \A d \in Client : reader'[d] \in {"none", "registering"} => reader[d] \in {"none", "registering"},
         \A d \in Client : reader'[d] = "done" => d = c \/ reader[d] = "done"
  PROVE  /\ HubMaps'
         /\ clients' \subseteq Client
         /\ characterClients' \in [Character -> Client \cup {NoClient}]
         /\ CharacterID' \in [Client -> Character \cup {NoCharacter}]
         /\ closes' \in [Client -> Nat]
         /\ loggedOut' \in [Client -> Character \cup {NoCharacter}]
<1>1. CASE c \in clients
  <2>1. /\ clients' = clients \ {c}
        /\ closes' = [closes EXCEPT ![c] = closes[c] + 1]
        /\ loggedOut' = [loggedOut EXCEPT ![c] = CharacterID[c]]
        /\ characterClients' = [x \in Character |->
                                  IF x = CharacterID[c] THEN NoClient ELSE characterClients[x]]
        /\ CharacterID' = CharacterID
    BY <1>1 DEF removeClient
  <2>2. c \in Client  BY <1>1 DEF HubIInv, TypeOK
  <2>3. closes[c] = 0  BY <1>1, <2>2 DEF HubIInv, ClosedOnce
  <2>4. clients' \subseteq Client /\ characterClients' \in [Character -> Client \cup {NoClient}]
        /\ CharacterID' \in [Client -> Character \cup {NoCharacter}]
        /\ closes' \in [Client -> Nat]
        /\ loggedOut' \in [Client -> Character \cup {NoCharacter}]
    BY <2>1, <2>2, <2>3 DEF HubIInv, TypeOK
  <2>5. ClosedOnce'
    BY <2>1, <2>2, <2>3 DEF HubIInv, TypeOK, ClosedOnce
  <2>6. MappingHeld'
    <3>1. ASSUME NEW d \in clients', CharacterID'[d] # NoCharacter
          PROVE  characterClients'[CharacterID'[d]] = d
      <4>1. d \in clients /\ d # c /\ d \in Client  BY <2>1 DEF HubIInv, TypeOK
      <4>2. characterClients[CharacterID[d]] = d  BY <2>1, <3>1, <4>1 DEF HubIInv, MappingHeld
      <4>3. CharacterID[d] # CharacterID[c]  BY <1>1, <2>1, <3>1, <4>1, <4>2 DEF HubIInv, MappingHeld
      <4>4. CharacterID[d] \in Character  BY <2>1, <3>1, <4>1 DEF HubIInv, TypeOK
      <4> QED BY <2>1, <4>2, <4>3, <4>4
    <3> QED BY <3>1 DEF MappingHeld
  <2>7. ReaderOwnsClient'
    BY <1>1, <2>1, <2>2 DEF HubIInv, TypeOK, ReaderOwnsClient
  <2> QED BY <2>4, <2>5, <2>6, <2>7 DEF HubMaps
<1>2. CASE c \notin clients
  <2>1. UNCHANGED hubVars  BY <1>2 DEF removeClient
  <2> QED BY <1>2, <2>1 DEF hubVars, HubIInv, TypeOK, HubMaps, ClosedOnce, MappingHeld, ReaderOwnsClient
<1> QED BY <1>1, <1>2

\* A step of c's ReadPump, once it is past registration, that leaves the maps alone.
LEMMA ReaderKeeps ==
  ASSUME HubIInv, NEW c \in Client, NEW s \in {"reading", "broadcast", "reply", "unregister"},
         reader[c] \notin {"none", "registering"}, ReaderGoto(c, s), UNCHANGED hubVars,
         queued' \in [Client -> 0 .. BufSize], connected' \subseteq Client,
         writing' \subseteq Client, stale' \subseteq Client,
         UNCHANGED <<overridden, selected>>
  PROVE  HubIInv'
  BY DEF HubIInv, TypeOK, ClosedOnce, MappingHeld, ReaderOwnsClient, hubVars, ReaderGoto

\* A step that moves no ReadPump and leaves the maps alone.
LEMMA OthersKeep ==
  ASSUME HubIInv, UNCHANGED <<hubVars, reader, overridden, selected>>,
         queued' \in [Client -> 0 .. BufSize], connected' \subseteq Client,
         writing' \subseteq Client, stale' \subseteq Client
  PROVE  HubIInv'
  BY DEF HubIInv, TypeOK, ClosedOnce, MappingHeld, ReaderOwnsClient, hubVars

\* The invariant is inductive.
LEMMA HubStep == HubIInv /\ [Next]_vars => HubIInv'
<1> SUFFICES ASSUME HubIInv, [Next]_vars PROVE HubIInv'
  OBVIOUS
<1>0. TypeOK /\ BufSize \in Nat \ {0}  BY BufferHasRoom DEF HubIInv
<1>1. ASSUME NEW c \in Client, HubRegister(c) PROVE HubIInv'
  <2>1. reader[c] = "registering" /\ closes[c] = 0 /\ CharacterID[c] = NoCharacter
    BY <1>1 DEF HubRegister, HubIInv, ReaderOwnsClient
  <2>2. TypeOK'  BY <1>0, <1>1 DEF HubRegister, ReaderGoto, TypeOK
  <2>3. ClosedOnce' /\ MappingHeld' /\ ReaderOwnsClient'
    BY <1>1, <2>1 DEF HubRegister, ReaderGoto, HubIInv, TypeOK, ClosedOnce, MappingHeld, ReaderOwnsClient
  <2> QED BY <2>2, <2>3 DEF HubIInv
<1>2. ASSUME NEW c \in Client, HubUnregister(c) PROVE HubIInv'
  <2>1. reader[c] = "unregister" /\ removeClient(c) /\ reader' = [reader EXCEPT ![c] = "done"]
        /\ connected' \subseteq Client /\ UNCHANGED <<queued, writing, overridden, stale, selected>>
    BY <1>0, <1>2 DEF HubUnregister, ReaderGoto, TypeOK
  <2>2. \A d \in Client : reader'[d] = (IF d = c THEN "done" ELSE reader[d])
    BY <1>0, <2>1 DEF TypeOK
  <2>3. \A d \in Client : reader'[d] = "done" => d = c \/ reader[d] = "done"
    BY <2>2
  <2>4. reader' \in [Client -> {"none", "registering", "reading", "broadcast", "reply",
                                "override", "unregister", "done"}]
    BY <1>0, <2>1 DEF TypeOK
  <2>5. /\ HubMaps'
        /\ clients' \subseteq Client
        /\ characterClients' \in [Character -> Client \cup {NoClient}]
        /\ CharacterID' \in [Client -> Character \cup {NoCharacter}]
        /\ closes' \in [Client -> Nat]
        /\ loggedOut' \in [Client -> Character \cup {NoCharacter}]
    BY <2>1, <2>2, <2>3, <2>4, removeKeeps
  <2> QED BY <1>0, <2>1, <2>4, <2>5 DEF HubIInv, TypeOK, HubMaps
<1>3. ASSUME NEW c \in Client, HubBroadcast(c) PROVE HubIInv'
  <2>1. queued' \in [Client -> 0 .. BufSize] /\ stale' \subseteq Client
    BY <1>0, <1>3 DEF HubBroadcast, TypeOK
  <2> QED BY <1>0, <1>3, <2>1, ReaderKeeps DEF HubBroadcast, TypeOK
<1>4. ASSUME NEW c \in Client, DropStale(c) PROVE HubIInv'
  <2>1. removeClient(c) /\ stale' \subseteq Client
        /\ UNCHANGED <<queued, connected, reader, writing, overridden, selected>>
    BY <1>0, <1>4 DEF DropStale, TypeOK
  <2>2. /\ HubMaps'
        /\ clients' \subseteq Client
        /\ characterClients' \in [Character -> Client \cup {NoClient}]
        /\ CharacterID' \in [Client -> Character \cup {NoCharacter}]
        /\ closes' \in [Client -> Nat]
        /\ loggedOut' \in [Client -> Character \cup {NoCharacter}]
    <3>1. reader' = reader /\ reader \in [Client -> {"none", "registering", "reading", "broadcast",
                                                     "reply", "override", "unregister", "done"}]
      BY <1>0, <2>1 DEF TypeOK
    <3> QED BY <2>1, <3>1, removeKeeps
  <2> QED BY <1>0, <2>1, <2>2 DEF HubIInv, TypeOK, HubMaps
<1>5. ASSUME NEW c \in Client, Connect(c) PROVE HubIInv'
  BY <1>5 DEF Connect, ReaderGoto, HubIInv, TypeOK, ClosedOnce, MappingHeld, ReaderOwnsClient, hubVars
<1>6. ASSUME NEW c \in Client, ReadBroadcast(c) \/ ReadRefused(c) PROVE HubIInv'
  BY <1>0, <1>6, ReaderKeeps DEF ReadBroadcast, ReadRefused, TypeOK
<1>7. ASSUME NEW c \in Client, NEW x \in Character, AssociateCharacter(c, x) PROVE HubIInv'
  <2> DEFINE old == characterClients[x]
  <2>1. old \in Client \cup {NoClient} /\ c # NoClient /\ x # NoCharacter
    BY <1>0, NothingIsNoValue DEF TypeOK
  <2>2. /\ reader[c] = "reading"
        /\ characterClients' = [characterClients EXCEPT ![x] = c]
        /\ CharacterID' = [d \in Client |-> IF d = c THEN x
                                            ELSE IF d = old THEN NoCharacter
                                            ELSE CharacterID[d]]
        /\ UNCHANGED <<clients, closes, loggedOut>>
    BY <1>7 DEF AssociateCharacter
  <2>3. PICK s \in {"reply", "override"} : reader' = [reader EXCEPT ![c] = s]
    BY <1>7 DEF AssociateCharacter, ReaderGoto
  <2>4. TypeOK'
    <3>1. overridden' \in [Client -> Client \cup {NoClient}]
          /\ selected' \in [Client -> Character \cup {NoCharacter}]
          /\ UNCHANGED <<queued, connected, writing, stale>>
      BY <1>0, <1>7, <2>1 DEF AssociateCharacter, TypeOK
    <3>2. characterClients' \in [Character -> Client \cup {NoClient}]
          /\ CharacterID' \in [Client -> Character \cup {NoCharacter}]
      BY <1>0, <2>2 DEF TypeOK
    <3>3. reader' \in [Client -> {"none", "registering", "reading", "broadcast", "reply",
                                  "override", "unregister", "done"}]
      BY <1>0, <2>3 DEF TypeOK
    <3> QED BY <1>0, <2>2, <3>1, <3>2, <3>3 DEF TypeOK
  <2>5. ClosedOnce'  BY <2>2 DEF HubIInv, ClosedOnce
  <2>6. MappingHeld'
    <3>1. ASSUME NEW d \in clients', CharacterID'[d] # NoCharacter
          PROVE  characterClients'[CharacterID'[d]] = d
      <4>1. d \in Client  BY <1>0, <2>2 DEF TypeOK
      <4>2. CASE d = c
        BY <1>0, <2>2, <4>1, <4>2 DEF TypeOK
      <4>3. CASE d # c
        <5>1. d # old /\ CharacterID'[d] = CharacterID[d]  BY <2>2, <3>1, <4>1, <4>3
        <5>2. characterClients[CharacterID[d]] = d
          BY <2>2, <3>1, <5>1 DEF HubIInv, MappingHeld
        <5>3. CharacterID[d] # x  BY <5>1, <5>2
        <5> QED BY <1>0, <2>2, <3>1, <4>1, <5>1, <5>2, <5>3 DEF TypeOK
      <4> QED BY <4>2, <4>3
    <3> QED BY <3>1 DEF MappingHeld
  <2>7. ReaderOwnsClient'
    BY <1>0, <2>2, <2>3 DEF HubIInv, TypeOK, ReaderOwnsClient
  <2> QED BY <2>4, <2>5, <2>6, <2>7 DEF HubIInv
<1>8. ASSUME NEW c \in Client, Override(c) PROVE HubIInv'
  <2>1. /\ reader[c] = "override" /\ removeClient(overridden[c])
        /\ reader' = [reader EXCEPT ![c] = "reply"]
        /\ overridden' \in [Client -> Client \cup {NoClient}]
        /\ UNCHANGED <<queued, connected, writing, stale, selected>>
    BY <1>0, <1>8 DEF Override, ReaderGoto, TypeOK
  <2>2. \A d \in Client : reader'[d] = (IF d = c THEN "reply" ELSE reader[d])
    BY <1>0, <2>1 DEF TypeOK
  <2>3. reader' \in [Client -> {"none", "registering", "reading", "broadcast", "reply",
                                "override", "unregister", "done"}]
    BY <1>0, <2>1 DEF TypeOK
  <2>4. \A d \in Client : reader'[d] = "done" => reader[d] = "done"
    BY <2>2
  <2>5. /\ HubMaps'
        /\ clients' \subseteq Client
        /\ characterClients' \in [Character -> Client \cup {NoClient}]
        /\ CharacterID' \in [Client -> Character \cup {NoCharacter}]
        /\ closes' \in [Client -> Nat]
        /\ loggedOut' \in [Client -> Character \cup {NoCharacter}]
    BY <2>1, <2>2, <2>3, <2>4, removeKeeps
  <2> QED BY <1>0, <2>1, <2>3, <2>5 DEF HubIInv, TypeOK, HubMaps
<1>9. ASSUME NEW c \in Client, Reply(c) PROVE HubIInv'
  <2>1. queued' \in [Client -> 0 .. BufSize]
    BY <1>0, <1>9 DEF Reply, TypeOK
  <2>2. PICK s \in {"reply", "reading"} : ReaderGoto(c, s)  BY <1>9 DEF Reply
  <2> QED BY <1>0, <1>9, <2>1, <2>2, ReaderKeeps DEF Reply, TypeOK
<1>10. ASSUME NEW c \in Client, Panic(c) PROVE HubIInv'
  BY <1>10, BufferHasRoom, NothingIsNoValue
  DEF Panic, HubIInv, TypeOK, ClosedOnce, MappingHeld, ReaderOwnsClient
<1>11. ASSUME NEW c \in Client, ReadError(c) PROVE HubIInv'
  BY <1>0, <1>11, ReaderKeeps DEF ReadError, TypeOK
<1>12. ASSUME NEW c \in Client, PeerGone(c) \/ Write(c) \/ WriterExit(c) PROVE HubIInv'
  <2>1. queued' \in [Client -> 0 .. BufSize] /\ connected' \subseteq Client
        /\ writing' \subseteq Client /\ stale' \subseteq Client
    BY <1>0, <1>12 DEF PeerGone, Write, WriterExit, TypeOK
  <2>2. UNCHANGED <<hubVars, reader, overridden, selected>>
    BY <1>12 DEF PeerGone, Write, WriterExit
  <2> QED BY <2>1, <2>2, OthersKeep
<1>13. CASE UNCHANGED vars
  BY <1>0, <1>13, OthersKeep DEF vars, TypeOK
<1> QED BY <1>1, <1>2, <1>3, <1>4, <1>5, <1>6, <1>7, <1>8, <1>9, <1>10, <1>11, <1>12, <1>13 DEF Next

\* The hub's maps, the channels and the pumps agree in every reachable state.
THEOREM HubInvariant == Spec => []HubIInv
  BY HubInitOK, HubStep, PTL DEF Spec

\* No interleaving of broadcasts, disconnects and overrides closes a channel twice
\* or leaves a closed one where Run broadcasts (hub.go:69-90).
THEOREM HubClosesOnce == Spec => []ClosedOnce
<1>1. HubIInv => ClosedOnce  BY DEF HubIInv
<1> QED BY <1>1, HubInvariant, PTL

\* The connection that selected a character last keeps its mapping until it leaves
\* or another one selects that character (hub.go:92-112).
THEOREM HubKeepsMapping == Spec => []MappingHeld
<1>1. HubIInv => MappingHeld  BY DEF HubIInv
<1> QED BY <1>1, HubInvariant, PTL
=============================================================================
