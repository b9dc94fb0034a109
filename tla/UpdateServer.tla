---------------------------- MODULE UpdateServer ----------------------------
(***************************************************************************)
(* The server that starts an update over the air (sln_tcp_server.c): one   *)
(* connection at a time, a message announced by its size, an answer of two *)
(* writes, each confirmed by the TCP acknowledgement that the tcpip thread *)
(* reports through s_netconn_events.  Clients announce the size they send; *)
(* they may be slow, stop in the middle, or never acknowledge.             *)
(***************************************************************************)
EXTENDS NetworkConnection, Sequences

CONSTANTS
  MessageKinds,   \* of {"start", "other", "junk"}, as the JSON parser sees it
  MaxBufferSize,  \* TCP_MAX_BUFFER_SIZE, in pieces of a message
  HeapBuffers     \* how many packet buffers the heap has room for

ASSUME ServerAssumption ==
  /\ MessageKinds \subseteq {"start", "other", "junk"}
  /\ MaxBufferSize \in Nat \ {0}
  /\ HeapBuffers \in Nat \ {0}

VARIABLES
  message,    \* what the client of newconn sends
  left,       \* pieces of it that have not been received
  bytesRead,  \* bytes_read
  buffers,    \* packet buffers the heap still has
  handled,    \* messages that were received completely
  inflight,   \* the writes on newconn not yet acknowledged
  sendplus,   \* the bit NETCONN_EVT_SENDPLUS
  delivered   \* the writes on newconn the client has acknowledged

serverVars ==
  <<message, left, bytesRead, buffers, handled, inflight, sendplus, delivered>>

Messages == [kind: MessageKinds, size: 0..MaxBufferSize + 1]

NoMessage == [kind |-> "none", size |-> 0]

Writes == {"size", "status"}

ServerLabels ==
  {"listen", "accept", "header", "body", "parse", "writeSize", "waitSize",
   "writeStatus", "waitStatus", "setOta", "reset", "close", "exited", "halt"}

ServerTypeOK ==
  /\ message \in Messages \cup {NoMessage}
  /\ left \in 0..MaxBufferSize + 1
  /\ bytesRead \in 0..MaxBufferSize
  /\ buffers \in 0..HeapBuffers
  /\ handled \in 0..HeapBuffers
  /\ inflight \in Seq(Writes)
  /\ sendplus \in BOOLEAN
  /\ delivered \in SUBSET Writes

ServerInit ==
  /\ message = NoMessage
  /\ left = 0
  /\ bytesRead = 0
  /\ buffers = HeapBuffers
  /\ handled = 0
  /\ inflight = <<>>
  /\ sendplus = FALSE
  /\ delivered = {}

ServerRestart ==
  /\ message' = NoMessage
  /\ left' = 0
  /\ bytesRead' = 0
  /\ buffers' = HeapBuffers
  /\ handled' = 0
  /\ inflight' = <<>>
  /\ sendplus' = FALSE
  /\ delivered' = {}

-----------------------------------------------------------------------------
\* A task that returns, as after a failing netconn_listen, stops the kernel.
Listen ==
  /\ tcp = "listen"
  /\ Continue("accept") \/ (Faults /\ Continue("exited"))
  /\ UNCHANGED serverVars

Accept ==
  /\ tcp = "accept"
  /\ message' \in Messages
  /\ left' \in 0..message'.size
  /\ delivered' = {}
  /\ Continue("header")
  /\ UNCHANGED <<bytesRead, buffers, handled, inflight, sendplus>>

\* read_connection: a size that is too large ends it.
RecvHeader ==
  /\ tcp = "header"
  /\ IF message.size > MaxBufferSize
       THEN Continue("close") /\ UNCHANGED <<bytesRead, buffers>>
       ELSE /\ message.size > 0 /\ buffers > 0
            /\ Continue("body") /\ bytesRead' = 0 /\ buffers' = buffers - 1
  /\ UNCHANGED <<message, left, handled, inflight, sendplus, delivered>>

\* pvPortMalloc finds no memory, or is asked for none, for the packet buffer
\* or the objects of cJSON: vApplicationMallocFailedHook stops the processor
\* before the caller sees the NULL it tests for.
MallocFails ==
  /\ \/ /\ tcp = "header"
        /\ message.size <= MaxBufferSize
        /\ message.size = 0 \/ buffers = 0
     \/ tcp = "parse" /\ buffers = 0
  /\ Continue("halt")
  /\ UNCHANGED serverVars

RecvBody ==
  /\ tcp = "body"
  /\ \E n \in 1..left :
       /\ left' = left - n
       /\ bytesRead' = bytesRead + n
  /\ Continue(IF bytesRead' = message.size THEN "parse" ELSE "body")
  /\ UNCHANGED <<message, buffers, handled, inflight, sendplus, delivered>>

\* Mutant: no timeout while the message is awaited.
RecvFailsInHeader ==
  /\ tcp = "header"
  /\ Continue("close")
  /\ UNCHANGED serverVars

\* Mutant: the buffer of a message that never came is kept.
RecvFailsKeepsBuffer ==
  /\ tcp \in {"header", "body"}
  /\ Continue("close")
  /\ UNCHANGED serverVars

\* Nothing arrives within TCP_COMMS_TIMEOUT, or the connection is lost.
RecvFails ==
  /\ tcp \in {"header", "body"}
  /\ buffers' = IF tcp = "body" THEN buffers + 1 ELSE buffers
  /\ Continue("close")
  /\ UNCHANGED <<message, left, bytesRead, handled, inflight, sendplus, delivered>>

\* parse_buffer.  The buffer of a message that came is never freed.
ParseBuffer ==
  /\ tcp = "parse"
  /\ handled' = handled + 1
  /\ Continue(IF message.kind = "junk" THEN "close" ELSE "writeSize")
  /\ UNCHANGED <<message, left, bytesRead, buffers, inflight, sendplus, delivered>>

\* Mutant: a bit left from an earlier write stands.
WriteKeepsBit(what, label) ==
  /\ inflight' = Append(inflight, what)
  /\ Continue(label)
  /\ UNCHANGED <<message, left, bytesRead, buffers, handled, sendplus, delivered>>

\* netconn_write_blocking: clear the bit, write, wait for the bit.
Write(what, label) ==
  /\ sendplus' = FALSE
  /\ inflight' = Append(inflight, what)
  /\ Continue(label)
  /\ UNCHANGED <<message, left, bytesRead, buffers, handled, delivered>>

WriteSize == tcp = "writeSize" /\ Write("size", "waitSize")

WriteStatus == tcp = "writeStatus" /\ Write("status", "waitStatus")

\* netconn_write refuses.
WriteFails ==
  /\ tcp \in {"writeSize", "writeStatus"}
  /\ sendplus' = FALSE
  /\ Continue("close")
  /\ UNCHANGED <<message, left, bytesRead, buffers, handled, inflight, delivered>>

WriteTimeout ==
  /\ tcp \in {"waitSize", "waitStatus"}
  /\ ~sendplus
  /\ Continue("close")
  /\ UNCHANGED serverVars

WriteConfirmed ==
  /\ tcp \in {"waitSize", "waitStatus"}
  /\ sendplus
  /\ sendplus' = FALSE
  /\ Continue(CASE tcp = "waitSize"          -> "writeStatus"
                [] tcp = "waitStatus"
                   /\ message.kind = "start" -> "setOta"
                [] OTHER                     -> "close")
  /\ UNCHANGED <<message, left, bytesRead, buffers, handled, inflight, delivered>>

SetOta ==
  /\ tcp = "setOta"
  /\ \/ FWUpdate_set_SLN_OTA /\ Continue("reset")
     \/ Faults /\ UNCHANGED fica /\ Continue("close")
  /\ UNCHANGED serverVars

\* netconn_delete and netconn_accept: acknowledgements of the old
\* connection are no longer reported.
Close ==
  /\ tcp = "close"
  /\ inflight' = <<>>
  /\ Continue("accept")
  /\ UNCHANGED <<message, left, bytesRead, buffers, handled, sendplus, delivered>>

ServerStep ==
  \/ UNCHANGED fica /\ (\/ Listen \/ Accept \/ RecvHeader \/ MallocFails
                        \/ RecvBody \/ RecvFails \/ ParseBuffer \/ WriteSize
                        \/ WriteStatus \/ WriteFails \/ WriteTimeout
                        \/ WriteConfirmed \/ Close)
  \/ SetOta

\* ota_server_callback, in the tcpip thread.
OtaServerCallback ==
  /\ inflight # <<>>
  /\ inflight' = Tail(inflight)
  /\ delivered' = delivered \cup {Head(inflight)}
  /\ sendplus' = TRUE
  /\ UNCHANGED <<tcp, message, left, bytesRead, buffers, handled>>

=============================================================================
