---------------------------- MODULE SerialThread ----------------------------
(***************************************************************************)
(* The serial thread of the host program (ISSProgrammer/serialthread.cpp): *)
(* what QThread, the mutex and the two buffers look like to the window's   *)
(* thread, and the passes of run().  A connection is a number, which also  *)
(* stands for the port it was made to; a request and a byte are known by   *)
(* the connection they belong to, so that a stale one can be told.         *)
(***************************************************************************)
EXTENDS Integers, Sequences

CONSTANTS
  MaxConnections,  \* bound: how often the window connects
  ReplySize,       \* bytes run() makes a serialData signal of
  MaxBurst,        \* bound: bytes of one burst that a model tells apart
  MaxEvents        \* bound: signals waiting when a burst may still begin

ASSUME ThreadAssumption ==
  /\ ReplySize \in Nat \ {0}
  /\ MaxBurst \in Nat \ {0}
  /\ MaxEvents \in Nat \ {0}
  /\ MaxConnections \in Nat

VARIABLES
  thread,          \* where run() is; "off" is ~isRunning()
  mutex,           \* m_mutex: its owner
  portName,        \* m_portName, as the connection that set it; 0 before the first
  quit,            \* m_quit
  txBuf,           \* m_txBuf: the connections its requests belong to
  rxBuf,           \* m_rxBuf: the connection each byte came over
  line,            \* the port run() has opened
  events           \* signals posted to the window's thread

threadVars == <<thread, mutex, portName, quit, txBuf, rxBuf, line, events>>

Connections == 0..MaxConnections
Places == {"off", "starting", "opening", "looping", "locking", "sending", "timedOut",
           "listening", "receiving", "closing", "leaving"}

\* A notice ends the connection for the window; a data signal carries its connection.
Notices == {"serialError", "serialTimeout"}
Data(c) == [reply |-> c]
Signals == [notice : Notices] \cup [reply : Connections]
Notice(s) == [notice |-> s]
IsNotice(e) == "notice" \in DOMAIN e

isRunning == thread # "off"

ThreadTypeOK ==
  /\ thread \in Places
  /\ mutex \in {"none", "window", "thread"}
  /\ portName \in Connections
  /\ quit \in BOOLEAN
  /\ txBuf \subseteq Connections
  /\ rxBuf \in Seq(Connections) /\ Len(rxBuf) < MaxBurst + ReplySize
  /\ line \in Connections
  /\ events \in Seq(Signals)

ThreadInit ==
  /\ thread = "off" /\ mutex = "none"
  /\ portName = 0 /\ line = 0
  /\ quit = FALSE
  /\ txBuf = {} /\ rxBuf = <<>> /\ events = <<>>

emit(signals) == events' = events \o signals

(***************************************************************************)
(* run().  The port's name is read without the mutex; opening and closing  *)
(* are calls of the driver that may take their time.                       *)
(***************************************************************************)
Enter ==
  /\ thread = "starting"
  /\ line' = portName
  /\ thread' = "opening"
  /\ UNCHANGED <<mutex, portName, quit, txBuf, rxBuf, events>>

Opened ==
  /\ thread = "opening"
  /\ thread' = "looping"
  /\ UNCHANGED <<mutex, portName, quit, txBuf, rxBuf, line, events>>

OpenFailed_Unreported ==
  /\ thread = "opening"
  /\ thread' = "leaving"
  /\ UNCHANGED <<mutex, portName, quit, txBuf, rxBuf, line, events>>

OpenFailed ==
  /\ thread = "opening"
  /\ emit(<<Notice("serialError")>>)
  /\ thread' = "leaving"
  /\ UNCHANGED <<mutex, portName, quit, txBuf, rxBuf, line>>

\* while (!m_quit), read without the mutex.
CheckQuit ==
  /\ thread = "looping"
  /\ thread' = IF quit THEN "closing" ELSE "locking"
  /\ UNCHANGED <<mutex, portName, quit, txBuf, rxBuf, line, events>>

Lock ==
  /\ thread = "locking" /\ mutex = "none"
  /\ mutex' = "thread"
  /\ thread' = "sending"
  /\ UNCHANGED <<portName, quit, txBuf, rxBuf, line, events>>

Send_Kept ==
  /\ thread = "sending"
  /\ mutex' = "none"
  /\ thread' = "listening"
  /\ UNCHANGED <<portName, quit, txBuf, rxBuf, line, events>>

\* The transmit buffer, when there is something in it, goes to the port.
Send ==
  /\ thread = "sending"
  /\ txBuf' = {}
  /\ mutex' = "none"
  /\ thread' = "listening"
  /\ UNCHANGED <<portName, quit, rxBuf, line, events>>

WriteTimeout_StillLocked ==
  /\ thread = "sending" /\ txBuf # {}
  /\ thread' = "timedOut"
  /\ UNCHANGED <<mutex, portName, quit, txBuf, rxBuf, line, events>>

\* waitForBytesWritten gave up: the buffer keeps what was not sent.
WriteTimeout ==
  /\ thread = "sending" /\ txBuf # {}
  /\ mutex' = "none"
  /\ thread' = "timedOut"
  /\ UNCHANGED <<portName, quit, txBuf, rxBuf, line, events>>

ReportTimeout_Unsent ==
  /\ thread = "timedOut"
  /\ thread' = "closing"
  /\ UNCHANGED <<mutex, portName, quit, txBuf, rxBuf, line, events>>

ReportTimeout ==
  /\ thread = "timedOut"
  /\ emit(<<Notice("serialTimeout")>>)
  /\ thread' = "closing"
  /\ UNCHANGED <<mutex, portName, quit, txBuf, rxBuf, line>>

Silence ==
  /\ thread = "listening"
  /\ thread' = "looping"
  /\ UNCHANGED <<mutex, portName, quit, txBuf, rxBuf, line, events>>

\* Without the mutex: m_rxBuf += readAll(), and again while bytes follow.
Read ==
  /\ \/ thread = "listening" /\ Len(events) < MaxEvents
     \/ thread = "receiving"
  /\ thread' = "receiving"
  /\ \E n \in 1..MaxBurst :
        /\ Len(rxBuf) + n < MaxBurst + ReplySize
        /\ rxBuf' = rxBuf \o [i \in 1..n |-> line]
  /\ UNCHANGED <<mutex, portName, quit, txBuf, line, events>>

\* The burst is over: a signal for every ReplySize bytes, the rest stays.
\* A reply counts for the connection that its last byte came over.
EndOfBurst ==
  LET replies == Len(rxBuf) \div ReplySize
  IN  /\ thread = "receiving"
      /\ emit([k \in 1..replies |-> Data(rxBuf[ReplySize * k])])
      /\ rxBuf' = SubSeq(rxBuf, ReplySize * replies + 1, Len(rxBuf))
      /\ thread' = "looping"
      /\ UNCHANGED <<mutex, portName, quit, txBuf, line>>

Close ==
  /\ thread = "closing"
  /\ thread' = "leaving"
  /\ UNCHANGED <<mutex, portName, quit, txBuf, rxBuf, line, events>>

Finish ==
  /\ thread = "leaving"
  /\ thread' = "off"
  /\ UNCHANGED <<mutex, portName, quit, txBuf, rxBuf, line, events>>

\* The steps that only wait for the scheduler or for a timeout of the code.
Advance == Enter \/ Opened \/ OpenFailed \/ CheckQuit \/ Lock \/ Send \/ WriteTimeout
             \/ ReportTimeout \/ Silence \/ Close \/ Finish

RunStep == Advance \/ Read \/ EndOfBurst
=============================================================================
