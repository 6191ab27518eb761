----------------------------- MODULE ManagedConn -----------------------------
(***************************************************************************)
(* The write side of one attached managedConn, call by call: writePump     *)
(* writes frames and pings, and whoever runs close() first writes the      *)
(* close frame.  Callers of close() are the two pumps, the goroutine       *)
(* attachConnection starts for a superseded connection, and the manager's  *)
(* shutdown.  websocket.Conn is external: WriteMessage takes time, and it  *)
(* fails once the transport has failed or the socket is closed.            *)
(***************************************************************************)
EXTENDS Naturals

CONSTANTS
    SendQueueSize,  \* opts.SendQueueSize
    MaxFrames       \* bound: frames enqueued

Actors == {"reader", "writer", "superseder", "shutdown"}

VARIABLES
    pc,         \* actor -> "run", "write", "handle", "close", "closeFrame",
                \*          "wsClose" or "done"
    sendQ,      \* len(c.sendQ)
    frames,     \* for the bound
    ctxDone,    \* c.ctx is done
    once,       \* closeOnce: "new", "running" or "done"
    ws,         \* the socket: "up", "broken" or "closed"
    inTable     \* ps.conn == c

vars == <<pc, sendQ, frames, ctxDone, once, ws, inTable>>

(* attachConnection has started the pumps.                                 *)
Init ==
    /\ pc = [a \in Actors |-> "run"]
    /\ sendQ = 0 /\ frames = 0 /\ ctxDone = FALSE /\ once = "new"
    /\ ws = "up" /\ inTable = TRUE

Goto(a, l) == pc' = [pc EXCEPT ![a] = l]

(* The select's send case; the other cases leave no trace here.            *)
enqueue ==
    /\ frames < MaxFrames /\ sendQ < SendQueueSize
    /\ sendQ' = sendQ + 1 /\ frames' = frames + 1
    /\ UNCHANGED <<pc, ctxDone, once, ws, inTable>>

(* The network fails or the peer closes.                                   *)
Break ==
    /\ ws = "up" /\ ws' = "broken"
    /\ UNCHANGED <<pc, sendQ, frames, ctxDone, once, inTable>>

(* Cancellation of the parent m.ctx.                                       *)
Cancel ==
    /\ ~ctxDone /\ ctxDone' = TRUE
    /\ UNCHANGED <<pc, sendQ, frames, once, ws, inTable>>

-----------------------------------------------------------------------------
(* The pumps.                                                              *)

ReadFails ==
    /\ pc["reader"] = "run" /\ ws # "up"
    /\ Goto("reader", "handle")
    /\ UNCHANGED <<sendQ, frames, ctxDone, once, ws, inTable>>

(* Any ready case of writePump's select: ctx.Done(), a frame, the ticker.  *)
WriterDone ==
    /\ pc["writer"] = "run" /\ ctxDone
    /\ Goto("writer", "handle")
    /\ UNCHANGED <<sendQ, frames, ctxDone, once, ws, inTable>>

WriterFrame ==
    /\ pc["writer"] = "run" /\ sendQ > 0
    /\ sendQ' = sendQ - 1
    /\ Goto("writer", "write")
    /\ UNCHANGED <<frames, ctxDone, once, ws, inTable>>

WriterPing ==
    /\ pc["writer"] = "run"
    /\ Goto("writer", "write")
    /\ UNCHANGED <<sendQ, frames, ctxDone, once, ws, inTable>>

(* write returns: nil and the pump goes on, or an error.                   *)
WriterWritten ==
    /\ pc["writer"] = "write"
    /\ \/ ws # "closed" /\ Goto("writer", "run")
       \/ ws # "up" /\ Goto("writer", "handle")
    /\ UNCHANGED <<sendQ, frames, ctxDone, once, ws, inTable>>

(* The deferred handleConnectionClosed of a pump.                          *)
handleConnectionClosed(a) ==
    /\ pc[a] = "handle"
    /\ inTable' = FALSE
    /\ Goto(a, "close")
    /\ UNCHANGED <<sendQ, frames, ctxDone, once, ws>>

-----------------------------------------------------------------------------
(* attachConnection puts another connection in the table and starts        *)
(* go old.close(...).                                                      *)
Superseded ==
    /\ pc["superseder"] = "run" /\ inTable
    /\ inTable' = FALSE
    /\ Goto("superseder", "close")
    /\ UNCHANGED <<sendQ, frames, ctxDone, once, ws>>

(* shutdown() found the connection in the table.                           *)
ShutdownFinds ==
    /\ pc["shutdown"] = "run" /\ ctxDone /\ inTable
    /\ Goto("shutdown", "close")
    /\ UNCHANGED <<sendQ, frames, ctxDone, once, ws, inTable>>

-----------------------------------------------------------------------------
(* close().                                                                *)

(* The first caller cancels c.ctx and calls WriteMessage(CloseMessage, ...) *)
CloseFirst(a) ==
    /\ pc[a] = "close" /\ once = "new"
    /\ once' = "running" /\ ctxDone' = TRUE
    /\ Goto(a, "closeFrame")
    /\ UNCHANGED <<sendQ, frames, ws, inTable>>

(* ... whose error is ignored, ...                                         *)
CloseWritten(a) ==
    /\ pc[a] = "closeFrame"
    /\ Goto(a, "wsClose")
    /\ UNCHANGED <<sendQ, frames, ctxDone, once, ws, inTable>>

(* ... and then ws.Close().                                                *)
CloseSocket(a) ==
    /\ pc[a] = "wsClose"
    /\ ws' = "closed" /\ once' = "done"
    /\ Goto(a, "done")
    /\ UNCHANGED <<sendQ, frames, ctxDone, inTable>>

(* A later caller waits until the first has finished.                      *)
CloseLater(a) ==
    /\ pc[a] = "close" /\ once = "done"
    /\ Goto(a, "done")
    /\ UNCHANGED <<sendQ, frames, ctxDone, once, ws, inTable>>

-----------------------------------------------------------------------------
closeStep(a) == CloseFirst(a) \/ CloseWritten(a) \/ CloseSocket(a) \/ CloseLater(a)

Next ==
    \/ enqueue \/ Break \/ Cancel
    \/ ReadFails \/ WriterDone \/ WriterFrame \/ WriterPing \/ WriterWritten
    \/ Superseded \/ ShutdownFinds
    \/ \E a \in {"reader", "writer"} : handleConnectionClosed(a)
    \/ \E a \in Actors : closeStep(a)

Spec == Init /\ [][Next]_vars

-----------------------------------------------------------------------------
(* "the goroutines and channels required to enforce serialized writes": no *)
(* two goroutines are in ws.WriteMessage at the same time.                 *)
SerializedWrites ==
    \A a, b \in Actors :
        a # b => ~(pc[a] \in {"write", "closeFrame"} /\ pc[b] \in {"write", "closeFrame"})
=============================================================================
