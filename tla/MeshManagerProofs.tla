-------------------------- MODULE MeshManagerProofs --------------------------
(***************************************************************************)
(* Proofs about MeshManager.  The manager's steps are steps of PeerLink,   *)
(* so PeerLink's theorems hold inside it; what the manager adds is proved  *)
(* by MeshInv.                                                             *)
(***************************************************************************)
EXTENDS MeshManager, PeerLinkProofs

(* The names of requests and of the connection shutdown() holds are taken: *)
(* no other goroutine gives them to a new connection.                      *)
Reserved ==
    \A c \in requests : Free(c) /\ c # shutConn

(* shutdown() runs only once the context is done, and the connection it    *)
(* took from the table has pumps or was closed by someone else meanwhile.  *)
ShutHolds ==
    /\ shut # "idle" => cancelled
    /\ shut = "close" <=> shutConn # NoConn
    /\ shutConn # NoConn =>
          /\ shutConn \notin accepting /\ shutConn # dialConn
          /\ Attached(shutConn) \/ shutConn \in closed

(* A server that m.advertiser does not name is one advertiseLoop itself    *)
(* still has to publish or to stop.                                        *)
AdvertInv ==
    /\ adv # "wait" => ~advertiser
    /\ adv \in {"check", "exited"} => ~announced

(* Connections waiting to be attached by an HTTP handler are inbound.      *)
AcceptInbound == \A c \in accepting : dir[c] = Inbound

MeshInv ==
    /\ LinkInv /\ MeshTypeOK
    /\ Reserved /\ ShutHolds /\ AdvertInv /\ AcceptInbound
    /\ DoneMeansQuiet

-----------------------------------------------------------------------------
(* Refinement.                                                             *)

(* Every step of the manager is a step of the peer's state machine or      *)
(* leaves it alone.                                                        *)
LEMMA MeshStepRefines ==
    ASSUME MeshTypeOK, ShutHolds, [MeshNext]_allVars
    PROVE  [Next]_vars
<1>1. CASE PeerStep
  BY <1>1 DEF PeerStep, Next, ConnStep
<1>2. ASSUME NEW c \in Conns, AcceptRequest(c) \/ UpgradeRequest(c) \/ RejectRequest(c)
      PROVE  [Next]_vars
  BY <1>2 DEF AcceptRequest, UpgradeRequest, RejectRequest, Next, ConnStep
<1>3. CASE ServeFails
  <2>1. CASE cancelled
    BY <1>3, <2>1 DEF ServeFails, MeshTypeOK, TypeOK, vars
  <2>2. CASE ~cancelled
    BY <1>3, <2>2 DEF ServeFails, Cancel, Next
  <2>3. QED
    BY <2>1, <2>2
<1>4. CASE ShutClose
  <2>1. shutConn \in Conns
    BY <1>4 DEF ShutClose, ShutHolds, MeshTypeOK
  <2>2. QED
    BY <1>4, <2>1 DEF ShutClose, Next, ConnStep
<1>5. CASE PruneExit \/ AdvStep
  BY <1>5 DEF PruneExit, AdvStep, AdvExit, AdvRegister, AdvPublish, AdvUnpublish, AdvStop
<1>6. CASE ShutBegin \/ ShutAdvert \/ ShutStopServe \/ ShutHTTP \/ ShutPeers \/ ShutDone
  BY <1>6 DEF ShutBegin, ShutAdvert, ShutStopServe, ShutHTTP, ShutPeers, ShutDone
<1>7. CASE UNCHANGED allVars
  BY <1>7 DEF allVars
<1>8. QED
  BY <1>1, <1>2, <1>3, <1>4, <1>5, <1>6, <1>7 DEF MeshNext, ShutStep

-----------------------------------------------------------------------------
(* What a step of the peer's state machine does to a connection's name.    *)

(* A name nobody holds stays so unless it is given to a new connection;    *)
(* pumps end only after closing; a direction is set when a connection is   *)
(* made.                                                                   *)
NameKept(c) ==
    c \notin accepting' /\ c # dialConn' =>
        /\ Free(c) => Free(c)'
        /\ Attached(c) \/ c \in closed => Attached(c)' \/ c \in closed'
        /\ dir'[c] = dir[c]

(* Attaching a connection keeps the names of the others.                   *)
LEMMA AttachKeepsNames ==
    ASSUME TypeOK, HeldIsNew, LiveTable, NEW d \in Conns, attachConnection(d),
           d \in accepting \/ d = dialConn,
           accepting' \subseteq accepting, UNCHANGED dir,
           dialConn' \in {dialConn, NoConn}, NEW c \in Conns
    PROVE  NameKept(c)
<1> USE NameAssumption
<1>1. CASE c = d
  BY <1>1 DEF TypeOK, NameKept, Free, HeldIsNew, Attached, attachConnection, Pumps
<1>2. CASE c # d
  <2>1. pump'[c] = pump[c] /\ closed \subseteq closed'
    BY <1>2 DEF TypeOK, attachConnection
  <2>2. c # conn => (c # conn' /\ (c \in closers' => c \in closers))
    BY <1>2 DEF attachConnection
  <2>3. QED
    BY <2>1, <2>2 DEF NameKept, Free, Attached
<1>3. QED
  BY <1>1, <1>2

(* Every step of the peer's state machine keeps the names.                 *)
LEMMA NamesStep ==
    ASSUME TypeOK, HeldIsNew, DialHolds, LiveTable, [Next]_vars, NEW c \in Conns
    PROVE  NameKept(c)
<1> USE NameAssumption
<1>1. CASE \/ BrowseTrigger \/ BrowseExit \/ pruneStalePeers \/ Cancel \/ UNCHANGED vars
           \/ \E e \in Endpoints : handleServiceEntry(e)
  BY <1>1 DEF NameKept, Free, Attached, BrowseTrigger, BrowseExit, pruneStalePeers, Cancel,
     vars, handleServiceEntry, connVars, dialVars, tableVars
<1>2. CASE \/ DialTakeToken \/ DialExit \/ DialFailed \/ DialRetryToken \/ DialRetryTimer
           \/ prepareDial \/ resetBackoff
  BY <1>2 DEF NameKept, Free, Attached, DialTakeToken, DialExit, DialFailed, DialRetryToken,
     DialRetryTimer, prepareDial, resetBackoff, connVars, tableVars
<1>3. ASSUME NEW d \in Conns, NEW r \in {PeerID, OtherID}, DialAnswered(d, r)
      PROVE  NameKept(c)
  BY <1>3 DEF TypeOK, NameKept, Free, Attached, DialAnswered, newManagedConn, tableVars
<1>4. ASSUME NEW d \in Conns, handleWebSocket(d) PROVE NameKept(c)
  BY <1>4 DEF TypeOK, NameKept, Free, Attached, handleWebSocket, newManagedConn, tableVars,
     dialVars
<1>5. CASE DialAttach
  BY <1>5, AttachKeepsNames DEF DialAttach, DialHolds
<1>6. ASSUME NEW d \in Conns, InboundAttach(d) PROVE NameKept(c)
  BY <1>6, AttachKeepsNames DEF InboundAttach, dialVars
<1>7. ASSUME NEW d \in Conns, Break(d) \/ SupersededClose(d) \/ ShutdownClose(d)
      PROVE  NameKept(c)
  BY <1>7 DEF NameKept, Free, Attached, Break, SupersededClose, ShutdownClose, tableVars,
     dialVars
<1>8. ASSUME NEW d \in Conns, ReadFails(d) \/ HandleFrameFails(d) \/ WriterDone(d) \/ WriteFails(d)
      PROVE  NameKept(c)
  BY <1>8 DEF TypeOK, NameKept, Free, Attached, ReadFails, HandleFrameFails, WriterDone,
     WriteFails, SetPump, tableVars, dialVars, Pumps
<1>9. ASSUME NEW d \in Conns, NEW p \in Pumps, PumpStep(d, p) PROVE NameKept(c)
  <2>1. CASE PumpTrigger(d, p)
    BY <2>1 DEF TypeOK, NameKept, Free, Attached, PumpTrigger, SetPump, tableVars, dialVars
  <2>2. CASE handleConnectionClosed(d, p)
    <3>1. /\ conn' \in {conn, NoConn} /\ closers' = closers /\ closed' = closed
          /\ accepting' = accepting /\ dir' = dir /\ dialConn' = dialConn
          /\ pump[d][p] = "handle"
      BY <2>2 DEF handleConnectionClosed, dialVars
    <3>2. PICK pc \in {"trigger", "close"} : SetPump(d, p, pc)
      BY <2>2 DEF handleConnectionClosed
    <3>3. QED
      BY <3>1, <3>2 DEF TypeOK, NameKept, Free, Attached, SetPump
  <2>3. CASE PumpClose(d, p)
    BY <2>3 DEF TypeOK, NameKept, Free, Attached, PumpClose, SetPump, tableVars, dialVars
  <2>4. QED
    BY <1>9, <2>1, <2>2, <2>3 DEF PumpStep
<1>10. QED
  BY <1>1, <1>2, <1>3, <1>4, <1>5, <1>6, <1>7, <1>8, <1>9
     DEF Next, BrowseStep, DialStep, ConnStep

-----------------------------------------------------------------------------
(* The parts of MeshInv.                                                   *)

(* Every step keeps the types of the manager's variables.                  *)
LEMMA MeshTypeStep ==
    ASSUME MeshTypeOK, TypeOK', [MeshNext]_allVars
    PROVE  MeshTypeOK'
<1>1. CASE PeerStep \/ UNCHANGED allVars
  BY <1>1 DEF PeerStep, allVars, meshVars, advVars, MeshTypeOK
<1>2. ASSUME NEW c \in Conns, AcceptRequest(c) \/ UpgradeRequest(c) \/ RejectRequest(c)
      PROVE  MeshTypeOK'
  BY <1>2 DEF AcceptRequest, UpgradeRequest, RejectRequest, MeshTypeOK, advVars
<1>3. CASE ServeFails \/ PruneExit
  BY <1>3 DEF ServeFails, PruneExit, MeshTypeOK, advVars
<1>4. CASE AdvStep
  BY <1>4 DEF AdvStep, AdvExit, AdvRegister, AdvPublish, AdvUnpublish, AdvStop, MeshTypeOK, AdvPC
<1>5. CASE ShutStep
  BY <1>5 DEF ShutStep, ShutBegin, ShutAdvert, ShutStopServe, ShutHTTP, ShutPeers, ShutClose,
     ShutDone, MeshTypeOK, TypeOK, ShutPC, advVars
<1>6. QED
  BY <1>1, <1>2, <1>3, <1>4, <1>5 DEF MeshNext

(* A step of the peer's goroutines gives no new connection a name that a   *)
(* request or shutdown() holds.                                            *)
LEMMA PeerNames ==
    ASSUME PeerStep
    PROVE  /\ accepting' \subseteq accepting
           /\ dialConn' \in {dialConn, NoConn} \/ dialConn' \notin requests \cup {shutConn}
<1>1. CASE BrowseStep \/ pruneStalePeers \/ Cancel
  BY <1>1 DEF BrowseStep, BrowseTrigger, BrowseExit, handleServiceEntry, pruneStalePeers, Cancel,
     connVars, dialVars
<1>2. CASE DialStep
  <2>1. accepting' = accepting
    BY <1>2 DEF DialStep, DialTakeToken, DialExit, prepareDial, DialFailed, DialAttach,
       resetBackoff, DialRetryToken, DialRetryTimer, DialAnswered, connVars
  <2>2. CASE \E c \in Conns : \E r \in {PeerID, OtherID} : DialAnswered(c, r)
    BY PeerStep, <2>1, <2>2 DEF PeerStep, DialAnswered, BrowseStep, BrowseTrigger, BrowseExit,
       handleServiceEntry, pruneStalePeers, Cancel, dialVars, InboundAttach, Break, ReadFails,
       HandleFrameFails, WriterDone, WriteFails, SupersededClose, PumpStep,
       handleConnectionClosed, PumpTrigger, PumpClose
  <2>3. CASE \/ DialTakeToken \/ DialExit \/ prepareDial \/ DialFailed \/ DialAttach
             \/ resetBackoff \/ DialRetryToken \/ DialRetryTimer
    BY <2>1, <2>3 DEF DialTakeToken, DialExit, prepareDial, DialFailed, DialAttach,
       resetBackoff, DialRetryToken, DialRetryTimer
  <2>4. QED
    BY <1>2, <2>2, <2>3 DEF DialStep
<1>3. ASSUME NEW c \in Conns,
             \/ InboundAttach(c) \/ Break(c) \/ ReadFails(c) \/ HandleFrameFails(c)
             \/ WriterDone(c) \/ WriteFails(c) \/ SupersededClose(c)
             \/ \E p \in Pumps : PumpStep(c, p)
      PROVE  accepting' \subseteq accepting /\ dialConn' = dialConn
  BY <1>3 DEF InboundAttach, Break, ReadFails, HandleFrameFails, WriterDone, WriteFails,
     SupersededClose, PumpStep, handleConnectionClosed, PumpTrigger, PumpClose, dialVars
<1>4. QED
  BY <1>1, <1>2, <1>3 DEF PeerStep

(* Every step keeps the reserved names and shutdown()'s connection.        *)
LEMMA NamesReserved ==
    ASSUME LinkInv, MeshTypeOK, Reserved, ShutHolds, [MeshNext]_allVars
    PROVE  Reserved' /\ ShutHolds'
<1> USE NameAssumption
<1>1. \A c \in Conns : NameKept(c)
  BY MeshStepRefines, NamesStep DEF LinkInv
<1>2. requests \subseteq Conns /\ shutConn \in Conns \cup {NoConn}
  BY DEF MeshTypeOK
<1>3. CASE PeerStep
  <2>1. UNCHANGED <<requests, shut, shutConn>> /\ (cancelled => cancelled')
    BY <1>3, MeshStepRefines DEF PeerStep, meshVars, Cancel, BrowseStep, BrowseTrigger,
       BrowseExit, handleServiceEntry, pruneStalePeers, DialStep, DialTakeToken, DialExit,
       prepareDial, DialFailed, DialAttach, resetBackoff, DialRetryToken, DialRetryTimer,
       DialAnswered, InboundAttach, Break, ReadFails, HandleFrameFails, WriterDone, WriteFails,
       SupersededClose, PumpStep, handleConnectionClosed, PumpTrigger, PumpClose
  <2>2. ASSUME NEW c \in requests PROVE Free(c)' /\ c # shutConn'
    BY <1>1, <1>2, <1>3, <2>1, PeerNames DEF Reserved, NameKept, Free
  <2>3. ShutHolds'
    BY <1>1, <1>2, <1>3, <2>1, PeerNames DEF ShutHolds, NameKept
  <2>4. QED
    BY <2>1, <2>2, <2>3 DEF Reserved
<1>4. ASSUME NEW d \in Conns, UpgradeRequest(d) PROVE Reserved' /\ ShutHolds'
  <2>1. /\ d \in requests /\ requests' = requests \ {d} /\ accepting' = accepting \cup {d}
        /\ UNCHANGED <<shut, shutConn, dialConn, cancelled>>
    BY <1>4 DEF UpgradeRequest, handleWebSocket, dialVars
  <2>2. Reserved'
    BY <1>1, <1>2, <2>1 DEF Reserved, NameKept, Free
  <2>3. ShutHolds'
    BY <1>1, <1>2, <2>1 DEF Reserved, ShutHolds, NameKept
  <2>4. QED
    BY <2>2, <2>3
<1>5. ASSUME NEW d \in Conns, AcceptRequest(d) \/ RejectRequest(d)
      PROVE  Reserved' /\ ShutHolds'
  BY <1>5 DEF AcceptRequest, RejectRequest, vars, tableVars, dialVars, connVars,
     Reserved, ShutHolds, Free, Attached
<1>6. CASE ServeFails
  BY <1>6 DEF ServeFails, tableVars, dialVars, connVars, Reserved, ShutHolds, Free, Attached
<1>7. CASE PruneExit \/ AdvStep \/ UNCHANGED allVars
  BY <1>7 DEF PruneExit, AdvStep, AdvExit, AdvRegister, AdvPublish, AdvUnpublish, AdvStop,
     allVars, meshVars, vars, tableVars, dialVars, connVars, Reserved, ShutHolds, Free, Attached
<1>8. CASE ShutBegin \/ ShutAdvert \/ ShutStopServe \/ ShutHTTP \/ ShutDone
  BY <1>8 DEF ShutBegin, ShutAdvert, ShutStopServe, ShutHTTP, ShutDone,
     vars, tableVars, dialVars, connVars, Reserved, ShutHolds, Free, Attached
<1>9. CASE ShutPeers
  <2>1. UNCHANGED <<conn, dialConn, accepting, closers, pump, closed, requests, cancelled>>
    BY <1>9 DEF ShutPeers, vars, tableVars, dialVars, connVars
  <2>2. conn # NoConn => Attached(conn) /\ conn \notin accepting /\ conn # dialConn
    BY DEF LinkInv, LiveTable, HeldIsNew, TypeOK, Attached, Pumps
  <2>3. Reserved'
    BY <1>9, <2>1 DEF ShutPeers, Reserved, Free
  <2>4. ShutHolds'
    BY <1>9, <2>1, <2>2 DEF ShutPeers, ShutHolds, Attached
  <2>5. QED
    BY <2>3, <2>4
<1>10. CASE ShutClose
  <2>1. /\ UNCHANGED <<conn, dialConn, accepting, closers, pump, requests, cancelled>>
        /\ shut' = "wait" /\ shutConn' = NoConn
    BY <1>10 DEF ShutClose, ShutdownClose, vars, tableVars, dialVars, connVars
  <2>2. QED
    BY <1>2, <1>10, <2>1 DEF ShutClose, Reserved, ShutHolds, Free
<1>11. QED
  BY <1>3, <1>4, <1>5, <1>6, <1>7, <1>8, <1>9, <1>10 DEF MeshNext, ShutStep

(* Every step keeps the advertisement consistent.                          *)
LEMMA AdvertStep ==
    ASSUME MeshTypeOK, AdvertInv, [MeshNext]_allVars
    PROVE  AdvertInv'
<1>1. CASE PeerStep \/ PruneExit \/ ServeFails \/ UNCHANGED allVars
  BY <1>1 DEF PeerStep, PruneExit, ServeFails, allVars, meshVars, advVars, AdvertInv
<1>2. ASSUME NEW c \in Conns, AcceptRequest(c) \/ UpgradeRequest(c) \/ RejectRequest(c)
      PROVE  AdvertInv'
  BY <1>2 DEF AcceptRequest, UpgradeRequest, RejectRequest, advVars, AdvertInv
<1>3. CASE AdvStep
  BY <1>3 DEF AdvStep, AdvExit, AdvRegister, AdvPublish, AdvUnpublish, AdvStop, AdvertInv
<1>4. CASE ShutStep
  <2>1. CASE ShutAdvert
    <3>1. adv' = adv /\ advertiser' = FALSE /\ (~announced => ~announced')
      BY <2>1 DEF ShutAdvert
    <3>2. QED
      BY <3>1 DEF AdvertInv
  <2>2. CASE ShutBegin \/ ShutStopServe \/ ShutHTTP \/ ShutPeers \/ ShutClose \/ ShutDone
    BY <2>2 DEF ShutBegin, ShutStopServe, ShutHTTP, ShutPeers, ShutClose, ShutDone,
       AdvertInv, advVars
  <2>3. QED
    BY <1>4, <2>1, <2>2 DEF ShutStep
<1>5. QED
  BY <1>1, <1>2, <1>3, <1>4 DEF MeshNext

(* Every step of the peer keeps accepted connections inbound.              *)
LEMMA AcceptStep ==
    ASSUME TypeOK, AcceptInbound, [Next]_vars
    PROVE  AcceptInbound'
<1>1. CASE BrowseStep \/ pruneStalePeers \/ Cancel \/ UNCHANGED vars
  BY <1>1 DEF BrowseStep, BrowseTrigger, BrowseExit, handleServiceEntry, pruneStalePeers, Cancel,
     vars, connVars, AcceptInbound
<1>2. CASE DialStep
  <2>1. CASE \/ DialTakeToken \/ DialExit \/ prepareDial \/ DialFailed \/ DialAttach
             \/ resetBackoff \/ DialRetryToken \/ DialRetryTimer
    BY <2>1 DEF DialTakeToken, DialExit, prepareDial, DialFailed, DialAttach,
       resetBackoff, DialRetryToken, DialRetryTimer, connVars, AcceptInbound
  <2>2. ASSUME NEW c \in Conns, NEW r \in {PeerID, OtherID}, DialAnswered(c, r)
        PROVE  AcceptInbound'
    BY <2>2 DEF TypeOK, DialAnswered, newManagedConn, Free, AcceptInbound
  <2>3. QED
    BY <1>2, <2>1, <2>2 DEF DialStep
<1>3. ASSUME NEW c \in Conns, handleWebSocket(c) PROVE AcceptInbound'
  BY <1>3 DEF TypeOK, handleWebSocket, newManagedConn, AcceptInbound
<1>4. ASSUME NEW c \in Conns,
             \/ InboundAttach(c) \/ Break(c) \/ ReadFails(c) \/ HandleFrameFails(c)
             \/ WriterDone(c) \/ WriteFails(c) \/ SupersededClose(c) \/ ShutdownClose(c)
             \/ \E p \in Pumps : PumpStep(c, p)
      PROVE  AcceptInbound'
  BY <1>4 DEF InboundAttach, Break, ReadFails, HandleFrameFails, WriterDone, WriteFails,
     SupersededClose, ShutdownClose, PumpStep, handleConnectionClosed, PumpTrigger, PumpClose,
     AcceptInbound
<1>5. QED
  BY <1>1, <1>2, <1>3, <1>4 DEF Next, ConnStep

-----------------------------------------------------------------------------
(* After shutdown.                                                         *)

LinkQuiet ==
    /\ browse = "exited" /\ dial \in {"none", "exited"}
    /\ \A c \in Conns : Attached(c) => dir[c] = Inbound

(* Once the browse and dial goroutines have ended they stay ended, and the *)
(* only connections that can still get pumps are inbound.                  *)
LEMMA LinkStaysQuiet ==
    ASSUME TypeOK, HeldIsNew, AcceptInbound, LinkQuiet, [Next]_vars
    PROVE  LinkQuiet'
<1>1. CASE BrowseStep \/ pruneStalePeers \/ Cancel \/ UNCHANGED vars
  BY <1>1 DEF BrowseStep, BrowseTrigger, BrowseExit, handleServiceEntry, pruneStalePeers, Cancel,
     vars, connVars, dialVars, LinkQuiet, Attached
<1>2. CASE DialStep
  BY <1>2 DEF DialStep, DialTakeToken, DialExit, prepareDial, DialFailed, DialAttach, DialSelects,
     resetBackoff, DialRetryToken, DialRetryTimer, DialAnswered, LinkQuiet
<1>3. ASSUME NEW c \in Conns, ConnStep(c) PROVE browse' = browse /\ dial' = dial
  BY <1>3 DEF ConnStep, handleWebSocket, InboundAttach, Break, ReadFails, HandleFrameFails,
     WriterDone, WriteFails, SupersededClose, ShutdownClose, PumpStep, handleConnectionClosed,
     PumpTrigger, PumpClose, dialVars
<1>4. ASSUME NEW c \in Conns, ConnStep(c), NEW d \in Conns, Attached(d)'
      PROVE  dir'[d] = Inbound
  <2>1. CASE handleWebSocket(c)
    BY <1>4, <2>1 DEF TypeOK, handleWebSocket, newManagedConn, LinkQuiet, Attached
  <2>2. CASE InboundAttach(c)
    <3>1. dir' = dir /\ dir[c] = Inbound
      BY <2>2 DEF InboundAttach, AcceptInbound
    <3>2. d # c => pump'[d] = pump[d]
      BY <2>2 DEF TypeOK, InboundAttach, attachConnection
    <3>3. QED
      BY <1>4, <3>1, <3>2 DEF LinkQuiet, Attached
  <2>3. CASE Break(c) \/ SupersededClose(c) \/ ShutdownClose(c)
    BY <1>4, <2>3 DEF Break, SupersededClose, ShutdownClose, LinkQuiet, Attached
  <2>4. CASE ReadFails(c) \/ HandleFrameFails(c) \/ WriterDone(c) \/ WriteFails(c)
    BY <1>4, <2>4 DEF TypeOK, ReadFails, HandleFrameFails, WriterDone, WriteFails, SetPump,
       LinkQuiet, Attached, Pumps
  <2>5. ASSUME NEW p \in Pumps, PumpStep(c, p) PROVE dir'[d] = Inbound
    <3>1. PICK pc \in {"trigger", "close", "done"} : SetPump(c, p, pc)
      BY <2>5 DEF PumpStep, handleConnectionClosed, PumpTrigger, PumpClose
    <3>2. dir' = dir /\ pump[c][p] \in {"handle", "trigger", "close"}
      BY <2>5 DEF PumpStep, handleConnectionClosed, PumpTrigger, PumpClose
    <3>3. QED
      BY <1>4, <3>1, <3>2 DEF TypeOK, SetPump, LinkQuiet, Attached
  <2>6. QED
    BY <1>4, <2>1, <2>2, <2>3, <2>4, <2>5 DEF ConnStep
<1>5. QED
  BY <1>1, <1>2, <1>3, <1>4 DEF Next, LinkQuiet

(* Every step keeps a finished manager quiet.                              *)
LEMMA QuietStep ==
    ASSUME LinkInv, MeshTypeOK, ShutHolds, AdvertInv, AcceptInbound, DoneMeansQuiet,
           [MeshNext]_allVars
    PROVE  DoneMeansQuiet'
<1>1. CASE shut = "done"
  <2>1. LinkQuiet'
    BY <1>1, LinkStaysQuiet, MeshStepRefines DEF LinkInv, DoneMeansQuiet, LinkQuiet
  <2>2. UNCHANGED <<http, prune, adv, announced, advertiser>>
    <3>1. CASE PeerStep \/ PruneExit \/ ServeFails \/ AdvStep \/ UNCHANGED allVars
      BY <1>1, <3>1 DEF DoneMeansQuiet, PeerStep, PruneExit, ServeFails, AdvStep, AdvExit,
         AdvRegister, AdvPublish, AdvUnpublish, AdvStop, allVars, meshVars, advVars
    <3>2. CASE ShutStep
      BY <1>1, <3>2 DEF ShutStep, ShutBegin, ShutAdvert, ShutStopServe, ShutHTTP, ShutPeers,
         ShutClose, ShutDone
    <3>3. ASSUME NEW c \in Conns, AcceptRequest(c) \/ UpgradeRequest(c) \/ RejectRequest(c)
          PROVE  UNCHANGED <<http, prune, adv, announced, advertiser>>
      BY <3>3 DEF AcceptRequest, UpgradeRequest, RejectRequest, advVars
    <3>4. QED
      BY <3>1, <3>2, <3>3 DEF MeshNext
  <2>3. QED
    BY <1>1, <2>1, <2>2 DEF DoneMeansQuiet, LinkQuiet
<1>2. CASE shut # "done" /\ ShutDone
  BY <1>2 DEF ShutDone, NoneCounted, AdvertInv, DoneMeansQuiet, vars, connVars, dialVars,
     advVars, Attached
<1>3. CASE shut # "done" /\ ~ShutDone
  <2>1. shut' # "done"
    BY <1>3 DEF MeshNext, PeerStep, PruneExit, ServeFails, AdvStep, AdvExit, AdvRegister,
       AdvPublish, AdvUnpublish, AdvStop, ShutStep, ShutBegin, ShutAdvert, ShutStopServe,
       ShutHTTP, ShutPeers, ShutClose, AcceptRequest, UpgradeRequest, RejectRequest,
       allVars, meshVars
  <2>2. QED
    BY <2>1 DEF DoneMeansQuiet
<1>4. QED
  BY <1>1, <1>2, <1>3

-----------------------------------------------------------------------------
(* The theorems.                                                           *)

(* MeshInv holds of every state of the manager: the types, the reserved    *)
(* names, the advertisement and shutdown()'s hold on a connection.         *)
THEOREM MeshInvariant == MeshSpec => []MeshInv
<1>1. MeshInit => MeshInv
  <2>1. MeshInit => LinkInv
    BY LinkInit DEF MeshInit
  <2>2. MeshInit => MeshTypeOK
    BY <2>1 DEF LinkInv, MeshInit, MeshTypeOK, ShutPC, AdvPC
  <2>3. QED
    BY <2>1, <2>2 DEF MeshInit, Init, MeshInv, Reserved, ShutHolds, AdvertInv, AcceptInbound,
       DoneMeansQuiet
<1>2. MeshInv /\ [MeshNext]_allVars => MeshInv'
  <2> SUFFICES ASSUME MeshInv, [MeshNext]_allVars PROVE MeshInv'
    OBVIOUS
  <2>1. [Next]_vars
    BY MeshStepRefines DEF MeshInv
  <2>2. LinkInv'
    BY <2>1, LinkStep DEF MeshInv
  <2>3. MeshTypeOK'
    BY <2>2, MeshTypeStep DEF MeshInv, LinkInv
  <2>4. Reserved' /\ ShutHolds'
    BY NamesReserved DEF MeshInv
  <2>5. AdvertInv'
    BY AdvertStep DEF MeshInv
  <2>6. AcceptInbound'
    BY <2>1, AcceptStep DEF MeshInv, LinkInv
  <2>7. DoneMeansQuiet'
    BY QuietStep DEF MeshInv
  <2>8. QED
    BY <2>2, <2>3, <2>4, <2>5, <2>6, <2>7 DEF MeshInv
<1>3. QED
  BY <1>1, <1>2, PTL DEF MeshSpec

(* The manager implements the peer's state machine: every behaviour of     *)
(* Start, its goroutines and shutdown() is one of PeerLink.                *)
THEOREM MeshImplements == MeshSpec => ImplementsPeerLink
<1>1. MeshInit => Init
  BY DEF MeshInit
<1>2. MeshInv /\ [MeshNext]_allVars => [Next]_vars
  BY MeshStepRefines DEF MeshInv
<1>3. QED
  BY <1>1, <1>2, MeshInvariant, PTL DEF MeshSpec, ImplementsPeerLink, Spec

(* Every variable of the manager keeps its type, and shutdown() never      *)
(* calls close() on a connection it does not have.                         *)
THEOREM MeshTypeCorrect == MeshSpec => []MeshTypeOK
<1>1. MeshInv => MeshTypeOK
  BY DEF MeshInv
<1>2. QED
  BY <1>1, MeshInvariant, PTL

(* When shutdown() has closed done, every counted goroutine has ended and  *)
(* stays ended, nothing is advertised and only inbound connections can     *)
(* still have pumps.                                                       *)
THEOREM QuietAfterDone == MeshSpec => []DoneMeansQuiet
<1>1. MeshInv => DoneMeansQuiet
  BY DEF MeshInv
<1>2. QED
  BY <1>1, MeshInvariant, PTL

(* What PeerLink proves of a link holds inside the manager: the wake-ups,  *)
(* the orphans and the preferred connection.                               *)
THEOREM LinkIsSafeInMesh ==
    MeshSpec => [](NoLostWakeup /\ NoOrphanLink /\ PreferredSurvives)
<1>1. MeshInv => NoLostWakeup /\ NoOrphanLink /\ PreferredSurvives
  BY DEF MeshInv, LinkInv
<1>2. QED
  BY <1>1, MeshInvariant, PTL
=============================================================================
