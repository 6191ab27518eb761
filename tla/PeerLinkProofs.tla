--------------------------- MODULE PeerLinkProofs ---------------------------
(***************************************************************************)
(* Proofs about PeerLink for every set of connections and endpoints, every *)
(* pair of node ids and every backoff range.                               *)
(***************************************************************************)
EXTENDS PeerLink, TLAPS

(* The groups of variables, for the frame conditions of the actions.       *)
USE DEF entryVars, tableVars, dialVars, connVars

-----------------------------------------------------------------------------
(* Type correctness.                                                       *)

(* A backoff within bounds stays within bounds when it is bumped.          *)
LEMMA BackoffBounds ==
    ASSUME NEW b \in {0} \cup (MinBackoff .. MaxBackoff)
    PROVE  bumpBackoff(b) \in MinBackoff .. MaxBackoff
BY BackoffAssumption DEF bumpBackoff

(* Moving one pump keeps the type of the pump counters.                    *)
LEMMA SetPumpType ==
    ASSUME TypeOK, NEW c \in Conns, NEW p \in Pumps, NEW pc \in PumpPC, SetPump(c, p, pc)
    PROVE  pump' \in [Conns -> [Pumps -> PumpPC]]
BY DEF TypeOK, SetPump

(* A connection that is attached or refused keeps the types of the table.  *)
LEMMA AttachType ==
    ASSUME TypeOK, NEW c \in Conns, attachConnection(c)
    PROVE  /\ conn' \in Conns \cup {NoConn} /\ connected' \in BOOLEAN
           /\ backoff' \in {0} \cup (MinBackoff .. MaxBackoff)
           /\ pump' \in [Conns -> [Pumps -> PumpPC]]
           /\ closed' \subseteq Conns /\ closers' \subseteq Conns
<1>1. CASE Accepted(c)
  <2>1. pump' = [pump EXCEPT ![c] = [p \in Pumps |-> "run"]]
    BY <1>1 DEF attachConnection
  <2>2. [p \in Pumps |-> "run"] \in [Pumps -> PumpPC]
    BY DEF PumpPC
  <2>3. pump' \in [Conns -> [Pumps -> PumpPC]]
    BY <2>1, <2>2 DEF TypeOK
  <2>4. QED
    BY <1>1, <2>3 DEF TypeOK, attachConnection
<1>2. CASE ~Accepted(c)
  BY <1>2 DEF TypeOK, attachConnection
<1>3. QED
  BY <1>1, <1>2

(* A new connection keeps the types of the connection tables.              *)
LEMMA NewConnType ==
    ASSUME TypeOK, NEW c \in Conns, NEW d \in {Inbound, Outbound}, newManagedConn(c, d, PeerID)
    PROVE  /\ dir' \in [Conns -> {Inbound, Outbound}]
           /\ remote' \in [Conns -> {PeerID, OtherID}]
           /\ pump' \in [Conns -> [Pumps -> PumpPC]]
           /\ closed' \subseteq Conns /\ broken' \subseteq Conns
BY DEF TypeOK, newManagedConn, Pumps, PumpPC

(* While dialPeer attaches, it has a connection.                           *)
DialHolds == dial = "attach" => dialConn \in Conns

(* Every step keeps the types.                                             *)
LEMMA TypeStep ==
    ASSUME TypeOK, DialHolds, [Next]_vars
    PROVE  TypeOK' /\ DialHolds'
<1>1. ASSUME NEW e \in Endpoints, handleServiceEntry(e) PROVE TypeOK' /\ DialHolds'
  BY <1>1 DEF TypeOK, DialHolds, handleServiceEntry, BrowsePC
<1>2. CASE BrowseTrigger
  BY <1>2 DEF TypeOK, DialHolds, BrowseTrigger, ensureDialLoop, triggerReconnect, BrowsePC, DialPC
<1>3. CASE BrowseExit
  BY <1>3 DEF TypeOK, DialHolds, BrowseExit, BrowsePC
<1>4. CASE pruneStalePeers
  BY <1>4 DEF TypeOK, DialHolds, pruneStalePeers
<1>5. CASE DialTakeToken
  BY <1>5 DEF TypeOK, DialHolds, DialTakeToken, DialPC
<1>6. CASE DialExit
  BY <1>6 DEF TypeOK, DialHolds, DialExit, DialPC
<1>7. CASE prepareDial
  BY <1>7, BackoffBounds DEF TypeOK, DialHolds, prepareDial, DialPC
<1>8. ASSUME NEW c \in Conns, NEW r \in {PeerID, OtherID}, DialAnswered(c, r)
      PROVE  TypeOK' /\ DialHolds'
  BY <1>8, NewConnType DEF TypeOK, DialHolds, DialAnswered, DialPC
<1>9. CASE DialFailed
  BY <1>9 DEF TypeOK, DialHolds, DialFailed, DialPC
<1>10. CASE DialAttach
  BY <1>10, AttachType DEF TypeOK, DialHolds, DialAttach, DialPC
<1>11. CASE resetBackoff
  BY <1>11 DEF TypeOK, DialHolds, resetBackoff, DialPC
<1>12. CASE DialRetryToken \/ DialRetryTimer
  BY <1>12 DEF TypeOK, DialHolds, DialRetryToken, DialRetryTimer, DialPC
<1>13. ASSUME NEW c \in Conns, handleWebSocket(c) PROVE TypeOK' /\ DialHolds'
  BY <1>13, NewConnType DEF TypeOK, DialHolds, handleWebSocket
<1>14. ASSUME NEW c \in Conns, InboundAttach(c) PROVE TypeOK' /\ DialHolds'
  BY <1>14, AttachType DEF TypeOK, DialHolds, InboundAttach
<1>15. ASSUME NEW c \in Conns, Break(c) \/ SupersededClose(c) \/ ShutdownClose(c)
       PROVE  TypeOK' /\ DialHolds'
  BY <1>15 DEF TypeOK, DialHolds, Break, SupersededClose, ShutdownClose
<1>16. ASSUME NEW c \in Conns,
              ReadFails(c) \/ HandleFrameFails(c) \/ WriterDone(c) \/ WriteFails(c)
       PROVE  TypeOK' /\ DialHolds'
  <2>1. pump' \in [Conns -> [Pumps -> PumpPC]]
    BY <1>16, SetPumpType DEF ReadFails, HandleFrameFails, WriterDone, WriteFails, Pumps, PumpPC
  <2>2. QED
    BY <1>16, <2>1 DEF TypeOK, DialHolds, ReadFails, HandleFrameFails, WriterDone, WriteFails
<1>17. ASSUME NEW c \in Conns, NEW p \in Pumps, PumpStep(c, p)
       PROVE  TypeOK' /\ DialHolds'
  <2>1. pump' \in [Conns -> [Pumps -> PumpPC]]
    BY <1>17, SetPumpType DEF PumpStep, handleConnectionClosed, PumpTrigger, PumpClose, PumpPC
  <2>2. QED
    BY <1>17, <2>1 DEF TypeOK, DialHolds, PumpStep, handleConnectionClosed, PumpTrigger,
       PumpClose, triggerReconnect
<1>18. CASE Cancel
  BY <1>18 DEF TypeOK, DialHolds, Cancel
<1>19. CASE UNCHANGED vars
  BY <1>19 DEF TypeOK, DialHolds, vars
<1>20. QED
  BY <1>1, <1>2, <1>3, <1>4, <1>5, <1>6, <1>7, <1>8, <1>9, <1>10, <1>11, <1>12, <1>13,
     <1>14, <1>15, <1>16, <1>17, <1>18, <1>19 DEF Next, BrowseStep, DialStep, ConnStep

(* A new peer has the right types.                                         *)
LEMMA TypeInit == Init => TypeOK /\ DialHolds
<1>1. [p \in Pumps |-> "none"] \in [Pumps -> PumpPC]
  BY DEF PumpPC
<1>2. Init => pump \in [Conns -> [Pumps -> PumpPC]]
  BY <1>1 DEF Init
<1>3. QED
  BY <1>2 DEF Init, TypeOK, DialHolds, DialPC, BrowsePC

(* Type correctness of peerState and of every goroutine that works on it:  *)
(* the wake-up channel never holds two tokens and bumpBackoff stays within *)
(* the configured bounds.                                                  *)
THEOREM TypeCorrect == Spec => []TypeOK
<1>1. Init => TypeOK /\ DialHolds
  BY TypeInit
<1>2. TypeOK /\ DialHolds /\ [Next]_vars => TypeOK' /\ DialHolds'
  BY TypeStep
<1>3. QED
  BY <1>1, <1>2, PTL DEF Spec

-----------------------------------------------------------------------------
(* Connections on their way into the table.                                *)

(* A connection dialPeer or handleWebSocket still holds is new: it is in   *)
(* no table, nobody has closed it and its pumps have not started.          *)
HeldIsNew ==
    /\ dial = "attach" <=> dialConn # NoConn
    /\ dialConn \notin accepting
    /\ \A c \in Conns : c \in accepting \/ c = dialConn =>
          /\ c # conn /\ c \notin closers \cup closed
          /\ \A p \in Pumps : pump[c][p] = "none"

(* Attaching a connection leaves the other ones that are held alone.       *)
LEMMA AttachHeld ==
    ASSUME TypeOK, HeldIsNew, NEW c \in Conns, attachConnection(c),
           c \in accepting \/ c = dialConn,
           NEW h \in Conns, h \in accepting \/ h = dialConn, h # c
    PROVE  /\ h # conn' /\ h \notin closers' \cup closed'
           /\ \A p \in Pumps : pump'[h][p] = "none"
BY DEF TypeOK, HeldIsNew, attachConnection

(* Every step keeps the held connections new.                              *)
LEMMA HeldStep ==
    ASSUME TypeOK, HeldIsNew, [Next]_vars
    PROVE  HeldIsNew'
<1> USE NameAssumption
<1>1. ASSUME NEW e \in Endpoints, handleServiceEntry(e) PROVE HeldIsNew'
  BY <1>1 DEF HeldIsNew, handleServiceEntry
<1>2. CASE BrowseTrigger
  BY <1>2 DEF HeldIsNew, BrowseTrigger, ensureDialLoop
<1>3. CASE BrowseExit \/ pruneStalePeers \/ Cancel \/ UNCHANGED vars
  BY <1>3 DEF HeldIsNew, BrowseExit, pruneStalePeers, Cancel, vars
<1>4. CASE DialTakeToken \/ DialExit \/ DialFailed \/ DialRetryToken \/ DialRetryTimer
  BY <1>4 DEF HeldIsNew, DialTakeToken, DialExit, DialSelects, DialFailed, DialRetryToken,
     DialRetryTimer
<1>5. CASE prepareDial \/ resetBackoff
  BY <1>5 DEF HeldIsNew, prepareDial, resetBackoff
<1>6. ASSUME NEW c \in Conns, NEW r \in {PeerID, OtherID}, DialAnswered(c, r)
      PROVE  HeldIsNew'
  BY <1>6 DEF TypeOK, HeldIsNew, DialAnswered, Free, newManagedConn, Pumps
<1>7. CASE DialAttach
  <2>1. dialConn \in Conns
    BY <1>7 DEF TypeOK, HeldIsNew, DialAttach
  <2>2. QED
    BY <1>7, <2>1, AttachHeld DEF TypeOK, HeldIsNew, DialAttach
<1>8. ASSUME NEW c \in Conns, handleWebSocket(c) PROVE HeldIsNew'
  BY <1>8 DEF TypeOK, HeldIsNew, handleWebSocket, Free, newManagedConn, Pumps
<1>9. ASSUME NEW c \in Conns, InboundAttach(c) PROVE HeldIsNew'
  BY <1>9, AttachHeld DEF TypeOK, HeldIsNew, InboundAttach
<1>10. ASSUME NEW c \in Conns, Break(c) \/ SupersededClose(c) \/ ShutdownClose(c)
       PROVE  HeldIsNew'
  BY <1>10 DEF TypeOK, HeldIsNew, Break, SupersededClose, ShutdownClose, Attached
<1>11. ASSUME NEW c \in Conns,
              ReadFails(c) \/ HandleFrameFails(c) \/ WriterDone(c) \/ WriteFails(c)
       PROVE  HeldIsNew'
  BY <1>11 DEF TypeOK, HeldIsNew, ReadFails, HandleFrameFails, WriterDone, WriteFails,
     SetPump, Pumps
<1>12. ASSUME NEW c \in Conns, NEW p \in Pumps, PumpStep(c, p)
       PROVE  HeldIsNew'
  BY <1>12 DEF TypeOK, HeldIsNew, PumpStep, handleConnectionClosed, PumpTrigger,
     PumpClose, SetPump, Pumps
<1>13. QED
  BY <1>1, <1>2, <1>3, <1>4, <1>5, <1>6, <1>7, <1>8, <1>9, <1>10, <1>11, <1>12
     DEF Next, BrowseStep, DialStep, ConnStep

-----------------------------------------------------------------------------
(* The connection in the table.                                            *)

(* dialPeer refuses an answer of another node, so only the peer is at the  *)
(* other end of a connection.                                              *)
Genuine == \A c \in Conns : remote[c] = PeerID

(* Every step keeps the connections genuine.                               *)
LEMMA GenuineStep ==
    ASSUME TypeOK, Genuine, [Next]_vars
    PROVE  Genuine'
<1>1. ASSUME NEW c \in Conns, NEW r \in {PeerID, OtherID}, DialAnswered(c, r)
      PROVE  Genuine'
  BY <1>1 DEF TypeOK, Genuine, DialAnswered, newManagedConn
<1>2. ASSUME NEW c \in Conns, handleWebSocket(c) PROVE Genuine'
  BY <1>2 DEF TypeOK, Genuine, handleWebSocket, newManagedConn
<1>3. ASSUME NEW c \in Conns, NEW p \in Pumps, PumpStep(c, p) PROVE Genuine'
  BY <1>3 DEF Genuine, PumpStep, handleConnectionClosed, PumpTrigger, PumpClose
<1>4. ASSUME NEW c \in Conns,
             \/ InboundAttach(c) \/ Break(c) \/ SupersededClose(c) \/ ShutdownClose(c)
             \/ ReadFails(c) \/ HandleFrameFails(c) \/ WriterDone(c) \/ WriteFails(c)
      PROVE  Genuine'
  BY <1>4 DEF Genuine, InboundAttach, Break, SupersededClose, ShutdownClose,
     ReadFails, HandleFrameFails, WriterDone, WriteFails
<1>5. CASE \/ BrowseTrigger \/ BrowseExit \/ pruneStalePeers \/ Cancel \/ UNCHANGED vars
           \/ \E e \in Endpoints : handleServiceEntry(e)
  BY <1>5 DEF Genuine, BrowseTrigger, BrowseExit, pruneStalePeers, Cancel, vars,
     handleServiceEntry
<1>6. CASE \/ DialTakeToken \/ DialExit \/ DialFailed \/ DialRetryToken \/ DialRetryTimer
           \/ prepareDial \/ resetBackoff \/ DialAttach
  BY <1>6 DEF Genuine, DialTakeToken, DialExit, DialFailed, DialRetryToken, DialRetryTimer,
     prepareDial, resetBackoff, DialAttach
<1>7. QED
  BY <1>1, <1>2, <1>3, <1>4, <1>5, <1>6 DEF Next, BrowseStep, DialStep, ConnStep

(* An attached connection is a live table entry.                           *)
LEMMA AttachLive ==
    ASSUME TypeOK, HeldIsNew, Genuine, LiveTable, NEW c \in Conns, attachConnection(c),
           c \in accepting \/ c = dialConn, UNCHANGED remote
    PROVE  LiveTable'
<1>1. CASE Accepted(c)
  <2>1. /\ conn' = c /\ connected' = TRUE /\ closers' = closers \cup ({conn} \ {NoConn})
        /\ \A p \in Pumps : pump'[c][p] = "run"
    BY <1>1 DEF TypeOK, attachConnection
  <2>2. QED
    BY <2>1, NameAssumption DEF HeldIsNew, Genuine, LiveTable
<1>2. CASE ~Accepted(c)
  BY <1>2 DEF attachConnection, LiveTable
<1>3. QED
  BY <1>1, <1>2

(* Every step keeps the table live.                                        *)
LEMMA LiveTableStep ==
    ASSUME TypeOK, HeldIsNew, Genuine, LiveTable, [Next]_vars
    PROVE  LiveTable'
<1> USE NameAssumption
<1>1. CASE \/ BrowseTrigger \/ BrowseExit \/ pruneStalePeers \/ Cancel \/ UNCHANGED vars
           \/ \E e \in Endpoints : handleServiceEntry(e)
  BY <1>1 DEF LiveTable, BrowseTrigger, BrowseExit, pruneStalePeers, Cancel, vars,
     handleServiceEntry
<1>2. CASE \/ DialTakeToken \/ DialExit \/ DialFailed \/ DialRetryToken \/ DialRetryTimer
           \/ prepareDial \/ resetBackoff
  BY <1>2 DEF LiveTable, DialTakeToken, DialExit, DialFailed, DialRetryToken,
     DialRetryTimer, prepareDial, resetBackoff
<1>3. ASSUME NEW c \in Conns, NEW r \in {PeerID, OtherID}, DialAnswered(c, r)
      PROVE  LiveTable'
  BY <1>3 DEF TypeOK, LiveTable, DialAnswered, Free, newManagedConn
<1>4. ASSUME NEW c \in Conns, handleWebSocket(c) PROVE LiveTable'
  BY <1>4 DEF TypeOK, LiveTable, handleWebSocket, Free, newManagedConn
<1>5. CASE DialAttach
  BY <1>5, AttachLive DEF TypeOK, HeldIsNew, DialAttach
<1>6. ASSUME NEW c \in Conns, InboundAttach(c) PROVE LiveTable'
  BY <1>6, AttachLive DEF InboundAttach
<1>7. ASSUME NEW c \in Conns, Break(c) \/ SupersededClose(c) \/ ShutdownClose(c)
      PROVE  LiveTable'
  BY <1>7 DEF LiveTable, Break, SupersededClose, ShutdownClose
<1>8. ASSUME NEW c \in Conns,
             ReadFails(c) \/ HandleFrameFails(c) \/ WriterDone(c) \/ WriteFails(c)
      PROVE  LiveTable'
  BY <1>8 DEF TypeOK, LiveTable, ReadFails, HandleFrameFails, WriterDone, WriteFails,
     SetPump, Pumps
<1>9. ASSUME NEW c \in Conns, NEW p \in Pumps, PumpStep(c, p)
      PROVE  LiveTable'
  BY <1>9 DEF TypeOK, LiveTable, PumpStep, handleConnectionClosed, ClearsTable, PumpTrigger,
     PumpClose, SetPump, Pumps
<1>10. QED
  BY <1>1, <1>2, <1>3, <1>4, <1>5, <1>6, <1>7, <1>8, <1>9
     DEF Next, BrowseStep, DialStep, ConnStep

-----------------------------------------------------------------------------
(* Connections that are not in the table.                                  *)

(* Attaching a connection leaves no other one running unattended.          *)
LEMMA AttachOrphan ==
    ASSUME TypeOK, HeldIsNew, NoOrphanLink, NEW c \in Conns, attachConnection(c),
           c \in accepting \/ c = dialConn
    PROVE  NoOrphanLink'
<1>1. CASE Accepted(c)
  <2>1. /\ conn' = c /\ closed' = closed /\ closers' = closers \cup ({conn} \ {NoConn})
        /\ \A d \in Conns : d # c => pump'[d] = pump[d]
    BY <1>1 DEF TypeOK, attachConnection
  <2>2. QED
    BY <2>1, NameAssumption DEF NoOrphanLink
<1>2. CASE ~Accepted(c)
  BY <1>2 DEF TypeOK, attachConnection, NoOrphanLink
<1>3. QED
  BY <1>1, <1>2

(* Every step keeps running connections in the table or on their way out.  *)
LEMMA NoOrphanStep ==
    ASSUME TypeOK, HeldIsNew, NoOrphanLink, [Next]_vars
    PROVE  NoOrphanLink'
<1> USE NameAssumption
<1>1. CASE \/ BrowseTrigger \/ BrowseExit \/ pruneStalePeers \/ Cancel \/ UNCHANGED vars
           \/ \E e \in Endpoints : handleServiceEntry(e)
  BY <1>1 DEF NoOrphanLink, BrowseTrigger, BrowseExit, pruneStalePeers, Cancel, vars,
     handleServiceEntry
<1>2. CASE \/ DialTakeToken \/ DialExit \/ DialFailed \/ DialRetryToken \/ DialRetryTimer
           \/ prepareDial \/ resetBackoff
  BY <1>2 DEF NoOrphanLink, DialTakeToken, DialExit, DialFailed, DialRetryToken,
     DialRetryTimer, prepareDial, resetBackoff
<1>3. ASSUME NEW c \in Conns, NEW r \in {PeerID, OtherID}, DialAnswered(c, r)
      PROVE  NoOrphanLink'
  BY <1>3 DEF TypeOK, NoOrphanLink, DialAnswered, newManagedConn
<1>4. ASSUME NEW c \in Conns, handleWebSocket(c) PROVE NoOrphanLink'
  BY <1>4 DEF TypeOK, NoOrphanLink, handleWebSocket, newManagedConn
<1>5. CASE DialAttach
  BY <1>5, AttachOrphan DEF TypeOK, HeldIsNew, DialAttach
<1>6. ASSUME NEW c \in Conns, InboundAttach(c) PROVE NoOrphanLink'
  BY <1>6, AttachOrphan DEF InboundAttach
<1>7. ASSUME NEW c \in Conns, Break(c) \/ SupersededClose(c) \/ ShutdownClose(c)
      PROVE  NoOrphanLink'
  BY <1>7 DEF NoOrphanLink, Break, SupersededClose, ShutdownClose
<1>8. ASSUME NEW c \in Conns,
             ReadFails(c) \/ HandleFrameFails(c) \/ WriterDone(c) \/ WriteFails(c)
      PROVE  NoOrphanLink'
  BY <1>8 DEF TypeOK, NoOrphanLink, ReadFails, HandleFrameFails, WriterDone, WriteFails,
     SetPump, Pumps
<1>9. ASSUME NEW c \in Conns, NEW p \in Pumps, PumpStep(c, p)
      PROVE  NoOrphanLink'
  BY <1>9 DEF TypeOK, NoOrphanLink, PumpStep, handleConnectionClosed, ClearsTable,
     PumpTrigger, PumpClose, SetPump, Pumps
<1>10. QED
  BY <1>1, <1>2, <1>3, <1>4, <1>5, <1>6, <1>7, <1>8, <1>9
     DEF Next, BrowseStep, DialStep, ConnStep

-----------------------------------------------------------------------------
(* The preferred connection.                                               *)

(* A connection that is attached takes nothing from a preferred one: the   *)
(* table entry it supersedes has the other direction.                      *)
LEMMA AttachPreferred ==
    ASSUME TypeOK, HeldIsNew, PreferredSurvives, NEW c \in Conns, attachConnection(c),
           c \in accepting \/ c = dialConn, UNCHANGED <<dir, broken, cancelled>>
    PROVE  PreferredSurvives'
<1>1. CASE Accepted(c)
  <2>1. /\ conn' = c /\ closed' = closed /\ closers' = closers \cup ({conn} \ {NoConn})
        /\ \A d \in Conns : d # c => pump'[d] = pump[d]
        /\ pump'[c] = [p \in Pumps |-> "run"]
    BY <1>1 DEF TypeOK, attachConnection
  <2>2. \A d \in Conns : d = conn => dir[d] # Preferred
    BY <1>1, NameAssumption DEF Accepted
  <2>3. Preferred' = Preferred
    BY DEF Preferred
  <2>4. QED
    BY <2>1, <2>2, <2>3 DEF HeldIsNew, PreferredSurvives, Pumps
<1>2. CASE ~Accepted(c)
  <2>1. Preferred' = Preferred
    BY DEF Preferred
  <2>2. QED
    BY <1>2, <2>1 DEF HeldIsNew, TypeOK, attachConnection, PreferredSurvives, Pumps
<1>3. QED
  BY <1>1, <1>2

(* Every step spares a healthy preferred connection.                       *)
LEMMA PreferredStep ==
    ASSUME TypeOK, HeldIsNew, PreferredSurvives, [Next]_vars
    PROVE  PreferredSurvives'
<1> USE NameAssumption
<1>1. CASE \/ BrowseTrigger \/ BrowseExit \/ pruneStalePeers \/ Cancel \/ UNCHANGED vars
           \/ \E e \in Endpoints : handleServiceEntry(e)
  BY <1>1 DEF PreferredSurvives, BrowseTrigger, BrowseExit, pruneStalePeers, Cancel, vars,
     handleServiceEntry
<1>2. CASE \/ DialTakeToken \/ DialExit \/ DialFailed \/ DialRetryToken \/ DialRetryTimer
           \/ prepareDial \/ resetBackoff
  BY <1>2 DEF PreferredSurvives, DialTakeToken, DialExit, DialFailed, DialRetryToken,
     DialRetryTimer, prepareDial, resetBackoff
<1>3. ASSUME NEW c \in Conns, NEW r \in {PeerID, OtherID}, DialAnswered(c, r)
      PROVE  PreferredSurvives'
  BY <1>3 DEF TypeOK, PreferredSurvives, DialAnswered, newManagedConn, Pumps
<1>4. ASSUME NEW c \in Conns, handleWebSocket(c) PROVE PreferredSurvives'
  BY <1>4 DEF TypeOK, PreferredSurvives, handleWebSocket, newManagedConn, Pumps
<1>5. CASE DialAttach
  BY <1>5, AttachPreferred DEF TypeOK, HeldIsNew, DialAttach
<1>6. ASSUME NEW c \in Conns, InboundAttach(c) PROVE PreferredSurvives'
  BY <1>6, AttachPreferred DEF InboundAttach
<1>7. ASSUME NEW c \in Conns, Break(c) \/ SupersededClose(c) \/ ShutdownClose(c)
      PROVE  PreferredSurvives'
  BY <1>7 DEF PreferredSurvives, Break, SupersededClose, ShutdownClose
<1>8. ASSUME NEW c \in Conns,
             ReadFails(c) \/ HandleFrameFails(c) \/ WriterDone(c) \/ WriteFails(c)
      PROVE  PreferredSurvives'
  BY <1>8 DEF TypeOK, PreferredSurvives, ReadFails, HandleFrameFails, WriterDone, ConnDone,
     WriteFails, SetPump, Pumps
<1>9. ASSUME NEW c \in Conns, NEW p \in Pumps, PumpStep(c, p)
      PROVE  PreferredSurvives'
  BY <1>9 DEF TypeOK, PreferredSurvives, PumpStep, handleConnectionClosed, ClearsTable,
     PumpTrigger, PumpClose, SetPump, Pumps
<1>10. QED
  BY <1>1, <1>2, <1>3, <1>4, <1>5, <1>6, <1>7, <1>8, <1>9
     DEF Next, BrowseStep, DialStep, ConnStep

-----------------------------------------------------------------------------
(* Wake-ups.                                                               *)

(* A discovered peer has an endpoint, and only a node with the smaller id  *)
(* starts a dialLoop or queues tokens.                                     *)
Discovery ==
    /\ discovered => endpoint # NoEndpoint
    /\ dial # "none" \/ browse = "trigger" => Dials

(* Every step keeps discovery and dialling consistent.                     *)
LEMMA DiscoveryStep ==
    ASSUME TypeOK, Discovery, [Next]_vars
    PROVE  Discovery'
<1> USE NameAssumption DEF Dials
<1>1. CASE \E e \in Endpoints : handleServiceEntry(e)
  BY <1>1 DEF Discovery, handleServiceEntry
<1>2. CASE BrowseTrigger \/ BrowseExit \/ pruneStalePeers
  BY <1>2 DEF Discovery, BrowseTrigger, ensureDialLoop, BrowseExit, pruneStalePeers
<1>3. CASE \/ DialTakeToken \/ DialExit \/ DialFailed \/ DialRetryToken \/ DialRetryTimer
           \/ prepareDial \/ resetBackoff \/ DialAttach
           \/ \E c \in Conns : \E r \in {PeerID, OtherID} : DialAnswered(c, r)
  BY <1>3 DEF Discovery, DialTakeToken, DialExit, DialSelects, DialFailed, DialRetryToken,
     DialRetryTimer, prepareDial, resetBackoff, DialAttach, DialAnswered
<1>4. CASE Cancel \/ UNCHANGED vars
  BY <1>4 DEF Discovery, Cancel, vars
<1>5. ASSUME NEW c \in Conns, NEW p \in Pumps, PumpStep(c, p) PROVE Discovery'
  BY <1>5 DEF Discovery, PumpStep, handleConnectionClosed, PumpTrigger, PumpClose
<1>6. ASSUME NEW c \in Conns,
             \/ handleWebSocket(c) \/ InboundAttach(c) \/ Break(c) \/ SupersededClose(c)
             \/ ShutdownClose(c) \/ ReadFails(c) \/ HandleFrameFails(c) \/ WriterDone(c)
             \/ WriteFails(c)
      PROVE  Discovery'
  BY <1>6 DEF Discovery, handleWebSocket, InboundAttach, Break, SupersededClose,
     ShutdownClose, ReadFails, HandleFrameFails, WriterDone, WriteFails
<1>7. QED
  BY <1>1, <1>2, <1>3, <1>4, <1>5, <1>6 DEF Next, BrowseStep, DialStep, ConnStep

(* After attachConnection there is a connection in the table.              *)
LEMMA AttachConnects ==
    ASSUME NEW c \in Conns, attachConnection(c)
    PROVE  conn' # NoConn
BY NameAssumption DEF attachConnection, Accepted

(* A pump that moves on leaves the other pumps' wake-ups alone.             *)
LEMMA OtherTriggers ==
    ASSUME TypeOK, NEW c \in Conns, NEW p \in Pumps, NEW pc, SetPump(c, p, pc),
           pump[c][p] # "trigger"
    PROVE  \A d \in Conns, q \in Pumps : pump[d][q] = "trigger" => pump'[d][q] = "trigger"
BY DEF TypeOK, SetPump

(* Every step keeps the promise to look at a lost peer again.              *)
LEMMA WakeupStep ==
    ASSUME TypeOK, HeldIsNew, Discovery, NoLostWakeup, [Next]_vars
    PROVE  NoLostWakeup'
<1> USE NameAssumption DEF Dials, Waking
<1>1. CASE \E e \in Endpoints : handleServiceEntry(e)
  BY <1>1 DEF NoLostWakeup, handleServiceEntry
<1>2. CASE BrowseTrigger \/ BrowseExit \/ pruneStalePeers
  BY <1>2 DEF NoLostWakeup, BrowseTrigger, triggerReconnect, BrowseExit, pruneStalePeers
<1>3. CASE DialTakeToken \/ DialExit \/ DialFailed \/ DialRetryToken \/ DialRetryTimer
  BY <1>3 DEF NoLostWakeup, DialTakeToken, DialExit, DialFailed, DialRetryToken, DialRetryTimer
<1>4. CASE prepareDial
  BY <1>4 DEF Discovery, NoLostWakeup, prepareDial, shouldConnect
<1>5. CASE resetBackoff
  BY <1>5 DEF NoLostWakeup, resetBackoff
<1>6. CASE DialAttach
  BY <1>6, AttachConnects DEF TypeOK, HeldIsNew, DialAttach, NoLostWakeup
<1>7. ASSUME NEW c \in Conns, NEW r \in {PeerID, OtherID}, DialAnswered(c, r)
      PROVE  NoLostWakeup'
  BY <1>7 DEF NoLostWakeup, DialAnswered
<1>8. ASSUME NEW c \in Conns, handleWebSocket(c) PROVE NoLostWakeup'
  BY <1>8 DEF TypeOK, NoLostWakeup, handleWebSocket, Free, newManagedConn, Pumps
<1>9. ASSUME NEW c \in Conns, InboundAttach(c) PROVE NoLostWakeup'
  BY <1>9, AttachConnects DEF InboundAttach, NoLostWakeup
<1>10. ASSUME NEW c \in Conns, Break(c) \/ SupersededClose(c) \/ ShutdownClose(c)
       PROVE  NoLostWakeup'
  BY <1>10 DEF NoLostWakeup, Break, SupersededClose, ShutdownClose
<1>11. ASSUME NEW c \in Conns,
              ReadFails(c) \/ HandleFrameFails(c) \/ WriterDone(c) \/ WriteFails(c)
       PROVE  NoLostWakeup'
  <2>1. \A d \in Conns, q \in Pumps : pump[d][q] = "trigger" => pump'[d][q] = "trigger"
    BY <1>11, OtherTriggers DEF ReadFails, HandleFrameFails, WriterDone, WriteFails, Pumps
  <2>2. QED
    BY <1>11, <2>1 DEF NoLostWakeup, ReadFails, HandleFrameFails, WriterDone, WriteFails
<1>12. ASSUME NEW c \in Conns, NEW p \in Pumps, PumpStep(c, p)
       PROVE  NoLostWakeup'
  <2>1. CASE handleConnectionClosed(c, p)
    <3>1. \A d \in Conns, q \in Pumps : pump[d][q] = "trigger" => pump'[d][q] = "trigger"
      BY <2>1, OtherTriggers DEF handleConnectionClosed
    <3>2. conn = c /\ discovered /\ Dials => pump'[c][p] = "trigger"
      BY <2>1 DEF TypeOK, handleConnectionClosed, ClearsTable, SetPump
    <3>3. QED
      BY <2>1, <3>1, <3>2 DEF NoLostWakeup, handleConnectionClosed, ClearsTable
  <2>2. CASE PumpTrigger(c, p)
    BY <2>2 DEF NoLostWakeup, PumpTrigger, triggerReconnect
  <2>3. CASE PumpClose(c, p)
    <3>1. \A d \in Conns, q \in Pumps : pump[d][q] = "trigger" => pump'[d][q] = "trigger"
      BY <2>3, OtherTriggers DEF PumpClose
    <3>2. QED
      BY <2>3, <3>1 DEF NoLostWakeup, PumpClose
  <2>4. QED
    BY <1>12, <2>1, <2>2, <2>3 DEF PumpStep
<1>13. CASE Cancel \/ UNCHANGED vars
  BY <1>13 DEF NoLostWakeup, Cancel, vars
<1>14. QED
  BY <1>1, <1>2, <1>3, <1>4, <1>5, <1>6, <1>7, <1>8, <1>9, <1>10, <1>11, <1>12, <1>13
     DEF Next, BrowseStep, DialStep, ConnStep

(* Every step keeps the promise to retry a changed endpoint.               *)
LEMMA FreshStep ==
    ASSUME TypeOK, Discovery, FreshEndpointWakes, [Next]_vars
    PROVE  FreshEndpointWakes'
<1> USE DEF Dials, Waking
<1>1. CASE \E e \in Endpoints : handleServiceEntry(e)
  BY <1>1 DEF Discovery, FreshEndpointWakes, handleServiceEntry
<1>2. CASE BrowseTrigger \/ BrowseExit \/ pruneStalePeers
  BY <1>2 DEF FreshEndpointWakes, BrowseTrigger, triggerReconnect, BrowseExit, pruneStalePeers
<1>3. CASE \/ DialTakeToken \/ DialExit \/ DialFailed \/ DialRetryToken \/ DialRetryTimer
           \/ prepareDial \/ resetBackoff \/ DialAttach
           \/ \E c \in Conns : \E r \in {PeerID, OtherID} : DialAnswered(c, r)
  BY <1>3 DEF FreshEndpointWakes, DialTakeToken, DialExit, DialFailed, DialRetryToken,
     DialRetryTimer, prepareDial, resetBackoff, DialAttach, DialAnswered
<1>4. CASE Cancel \/ UNCHANGED vars
  BY <1>4 DEF FreshEndpointWakes, Cancel, vars
<1>5. ASSUME NEW c \in Conns, NEW p \in Pumps, PumpStep(c, p) PROVE FreshEndpointWakes'
  BY <1>5 DEF FreshEndpointWakes, PumpStep, handleConnectionClosed, PumpTrigger,
     triggerReconnect, PumpClose
<1>6. ASSUME NEW c \in Conns,
             \/ handleWebSocket(c) \/ InboundAttach(c) \/ Break(c) \/ SupersededClose(c)
             \/ ShutdownClose(c) \/ ReadFails(c) \/ HandleFrameFails(c) \/ WriterDone(c)
             \/ WriteFails(c)
      PROVE  FreshEndpointWakes'
  BY <1>6 DEF FreshEndpointWakes, handleWebSocket, InboundAttach, Break, SupersededClose,
     ShutdownClose, ReadFails, HandleFrameFails, WriterDone, WriteFails
<1>7. QED
  BY <1>1, <1>2, <1>3, <1>4, <1>5, <1>6 DEF Next, BrowseStep, DialStep, ConnStep

-----------------------------------------------------------------------------
(* The inductive invariant and what follows from it.                       *)

(* What the goroutines of a peer preserve together.                        *)
LinkInv ==
    /\ TypeOK /\ DialHolds /\ HeldIsNew /\ Genuine /\ Discovery
    /\ LiveTable /\ NoOrphanLink /\ PreferredSurvives
    /\ NoLostWakeup /\ FreshEndpointWakes

(* A peer that getOrCreatePeer has just made satisfies the invariant.      *)
LEMMA LinkInit == Init => LinkInv
<1> SUFFICES ASSUME Init PROVE LinkInv
  OBVIOUS
<1>1. TypeOK /\ DialHolds
  BY TypeInit
<1>2. \A c \in Conns, p \in Pumps : pump[c][p] = "none"
  BY DEF Init
<1>3. HeldIsNew
  BY <1>2, NameAssumption DEF Init, HeldIsNew
<1>4. Genuine /\ Discovery
  BY DEF Init, Genuine, Discovery
<1>5. LiveTable /\ NoOrphanLink /\ PreferredSurvives
  BY <1>2 DEF Init, LiveTable, NoOrphanLink, PreferredSurvives, Pumps
<1>6. NoLostWakeup /\ FreshEndpointWakes
  BY DEF Init, NoLostWakeup, FreshEndpointWakes
<1>7. QED
  BY <1>1, <1>3, <1>4, <1>5, <1>6 DEF LinkInv

(* Every step of every goroutine preserves the invariant.                  *)
LEMMA LinkStep == LinkInv /\ [Next]_vars => LinkInv'
BY TypeStep, HeldStep, GenuineStep, DiscoveryStep, LiveTableStep, NoOrphanStep,
   PreferredStep, WakeupStep, FreshStep DEF LinkInv

(* The invariant holds in every reachable state.                           *)
THEOREM LinkInvariant == Spec => []LinkInv
BY LinkInit, LinkStep, PTL DEF Spec

(* No interleaving of disconnects, entries, dropped tokens and backoff     *)
(* leaves a discovered peer without anybody about to dial it.              *)
THEOREM WakeupsAreKept == Spec => []NoLostWakeup
<1>1. LinkInv => NoLostWakeup
  BY DEF LinkInv
<1>2. QED
  BY <1>1, LinkInvariant, PTL

(* A dial attempt at an address the peer has replaced is followed by a     *)
(* retry without waiting for the backoff.                                  *)
THEOREM EndpointsAreFresh == Spec => []FreshEndpointWakes
<1>1. LinkInv => FreshEndpointWakes
  BY DEF LinkInv
<1>2. QED
  BY <1>1, LinkInvariant, PTL

(* The table entry of a peer is never a dead, superseded or foreign        *)
(* connection, and Connected never lies about it.                          *)
THEOREM TableIsLive == Spec => []LiveTable
<1>1. LinkInv => LiveTable
  BY DEF LinkInv
<1>2. QED
  BY <1>1, LinkInvariant, PTL

(* No pump pair outlives its place in the table unattended.                *)
THEOREM NoOrphans == Spec => []NoOrphanLink
<1>1. LinkInv => NoOrphanLink
  BY DEF LinkInv
<1>2. QED
  BY <1>1, LinkInvariant, PTL

(* Duplicates, superseded connections and their late pumps never take down *)
(* a healthy connection in the preferred direction.                        *)
THEOREM PreferredIsStable == Spec => []PreferredSurvives
<1>1. LinkInv => PreferredSurvives
  BY DEF LinkInv
<1>2. QED
  BY <1>1, LinkInvariant, PTL

(* A connection replaces another one only when it is the preferred one.    *)
THEOREM SupersededOnlyByPreferred == Spec => SupersedeOnce
<1>1. ASSUME LinkInv, [Next]_vars, conn # NoConn, conn' \notin {conn, NoConn}
      PROVE  dir[conn] # Preferred /\ dir'[conn'] = Preferred
  <2>1. ASSUME NEW c \in Conns, attachConnection(c), UNCHANGED dir
        PROVE  dir[conn] # Preferred /\ dir'[conn'] = Preferred
    BY <1>1, <2>1 DEF attachConnection, Accepted
  <2>2. CASE DialAttach
    BY <1>1, <2>1, <2>2 DEF LinkInv, DialHolds, DialAttach
  <2>3. ASSUME NEW c \in Conns, InboundAttach(c)
        PROVE  dir[conn] # Preferred /\ dir'[conn'] = Preferred
    BY <2>1, <2>3 DEF InboundAttach
  <2>4. QED
    <3>1. CASE \/ BrowseTrigger \/ BrowseExit \/ pruneStalePeers \/ Cancel \/ UNCHANGED vars
               \/ \E e \in Endpoints : handleServiceEntry(e)
      BY <1>1, <3>1 DEF BrowseTrigger, BrowseExit, pruneStalePeers, Cancel, vars,
         handleServiceEntry
    <3>2. CASE \/ DialTakeToken \/ DialExit \/ DialFailed \/ DialRetryToken \/ DialRetryTimer
               \/ prepareDial \/ resetBackoff
               \/ \E c \in Conns : \E r \in {PeerID, OtherID} : DialAnswered(c, r)
      BY <1>1, <3>2 DEF DialTakeToken, DialExit, DialFailed, DialRetryToken, DialRetryTimer,
         prepareDial, resetBackoff, DialAnswered
    <3>3. ASSUME NEW c \in Conns,
                 \/ handleWebSocket(c) \/ Break(c) \/ SupersededClose(c) \/ ShutdownClose(c)
                 \/ ReadFails(c) \/ HandleFrameFails(c) \/ WriterDone(c) \/ WriteFails(c)
                 \/ \E p \in Pumps : PumpStep(c, p)
          PROVE  FALSE
      BY <1>1, <3>3 DEF handleWebSocket, Break, SupersededClose, ShutdownClose, ReadFails,
         HandleFrameFails, WriterDone, WriteFails, PumpStep, handleConnectionClosed,
         PumpTrigger, PumpClose
    <3>4. QED
      BY <1>1, <2>2, <2>3, <3>1, <3>2, <3>3 DEF Next, BrowseStep, DialStep, ConnStep
<1>2. LinkInv /\ [Next]_vars =>
         [conn # NoConn /\ conn' \notin {conn, NoConn} =>
             dir[conn] # Preferred /\ dir'[conn'] = Preferred]_vars
  BY <1>1
<1>3. QED
  BY <1>2, LinkInvariant, PTL DEF Spec, SupersedeOnce
=============================================================================
