----------------------------- MODULE Connection -----------------------------
(***************************************************************************)
(* Connecting and disconnecting: the slots of the window that use the      *)
(* serial thread (mainwindow.cpp) and the methods they call, beside the    *)
(* run() of a thread of its own.  The window's thread runs one slot at a   *)
(* time; inside it can block on the mutex and in wait().                   *)
(***************************************************************************)
EXTENDS SerialThread

VARIABLES
  gui,             \* where the window's thread is
  connected,       \* m_fConnected
  leaves,          \* the window is being destroyed
  request,         \* what the slot that is writing appends
  faults           \* what may go wrong in this behaviour; it does not change

vars == <<gui, connected, leaves, request, faults, threadVars>>

(***************************************************************************)
(* expiry: the wait of disconnect() may run out, while the driver opens or *)
(*   closes the port or a device keeps sending.                            *)
(* hurry: a click may be served before the signals already posted.         *)
(* overlap: the operator may connect again before a thread that gave up    *)
(*   by itself has left run().                                             *)
(***************************************************************************)
FaultKinds == {"expiry", "hurry", "overlap"}

ConnTypeOK ==
  /\ ThreadTypeOK
  /\ gui \in {"idle", "connecting", "clearing", "starting", "disconnecting",
              "waiting", "writing", "destroying", "gone"}
  /\ connected \in BOOLEAN /\ leaves \in BOOLEAN
  /\ request \in Connections
  /\ faults \subseteq FaultKinds

ConnInit ==
  /\ gui = "idle"
  /\ connected = FALSE /\ leaves = FALSE
  /\ faults \in SUBSET FaultKinds
  /\ ThreadInit
  /\ request = 0

(***************************************************************************)
(* A click.  The event loop delivers posted signals before it looks at the *)
(* mouse, so an unhurried click finds none.                                *)
(***************************************************************************)
MayClick == gui = "idle" /\ ("hurry" \in faults \/ events = <<>>)

\* serialConnect when it connects: SerialThread::connect up to its mutex.
ClickConnect ==
  /\ MayClick /\ ~connected
  /\ portName < MaxConnections
  /\ "overlap" \in faults \/ thread \notin {"timedOut", "closing", "leaving"}
  /\ gui' = "connecting"
  /\ UNCHANGED <<connected, leaves, request, faults, threadVars>>

ConnectLocked_QuitKept ==
  /\ gui = "connecting" /\ mutex = "none"
  /\ mutex' = "window"
  /\ portName' = portName + 1
  /\ txBuf' = {}
  /\ gui' = "clearing"
  /\ UNCHANGED <<connected, leaves, request, faults, thread, quit, rxBuf, line, events>>

ConnectLocked_TxKept ==
  /\ gui = "connecting" /\ mutex = "none"
  /\ mutex' = "window"
  /\ portName' = portName + 1
  /\ quit' = FALSE
  /\ gui' = "clearing"
  /\ UNCHANGED <<connected, leaves, request, faults, thread, txBuf, rxBuf, line, events>>

ConnectLocked ==
  /\ gui = "connecting" /\ mutex = "none"
  /\ mutex' = "window"
  /\ portName' = portName + 1
  /\ quit' = FALSE
  /\ txBuf' = {}
  /\ gui' = "clearing"
  /\ UNCHANGED <<connected, leaves, request, faults, thread, rxBuf, line, events>>

ConnectCleared_RxKept ==
  /\ gui = "clearing"
  /\ mutex' = "none"
  /\ gui' = "starting"
  /\ UNCHANGED <<connected, leaves, request, faults, thread, portName, quit, txBuf, rxBuf, line, events>>

\* A thread that is just appending to m_rxBuf may undo the clear().
ConnectCleared ==
  /\ gui = "clearing"
  /\ \/ rxBuf' = <<>>
     \/ thread = "receiving" /\ UNCHANGED rxBuf
  /\ mutex' = "none"
  /\ gui' = "starting"
  /\ UNCHANGED <<connected, leaves, request, faults, thread, portName, quit, txBuf, line, events>>

\* if (!isRunning()) start(), and the slot is over.
ConnectStarted ==
  /\ gui = "starting"
  /\ thread' = IF isRunning THEN thread ELSE "starting"
  /\ connected' = TRUE
  /\ gui' = "idle"
  /\ UNCHANGED <<leaves, request, faults, mutex, portName, quit, txBuf, rxBuf, line, events>>

\* serialConnect when it disconnects.
ClickDisconnect ==
  /\ MayClick /\ connected
  /\ gui' = "disconnecting"
  /\ UNCHANGED <<connected, leaves, request, faults, threadVars>>

\* SerialThread::disconnect up to its wait.
QuitSet ==
  /\ gui = "disconnecting" /\ mutex = "none"
  /\ quit' = TRUE
  /\ gui' = "waiting"
  /\ UNCHANGED <<connected, leaves, request, faults, thread, mutex, portName, txBuf, rxBuf, line, events>>

(***************************************************************************)
(* Closing the window: ~MainWindow calls serialConnect when it thinks it   *)
(* is connected, then ~SerialThread disconnects a thread that still runs.  *)
(***************************************************************************)
CloseWindow ==
  /\ MayClick
  /\ leaves' = TRUE
  /\ gui' = IF connected THEN "disconnecting" ELSE "destroying"
  /\ UNCHANGED <<connected, request, faults, threadVars>>

DestroyThread_Unchecked ==
  /\ gui = "destroying"
  /\ gui' = "gone"
  /\ UNCHANGED <<connected, leaves, request, faults, threadVars>>

DestroyThread ==
  /\ gui = "destroying"
  /\ gui' = IF isRunning THEN "disconnecting" ELSE "gone"
  /\ UNCHANGED <<connected, leaves, request, faults, threadVars>>

\* disconnect() returned: to serialConnect when connected, else to ~SerialThread.
Disconnected ==
  /\ gui' = IF ~leaves THEN "idle" ELSE IF connected THEN "destroying" ELSE "gone"
  /\ connected' = FALSE
  /\ UNCHANGED <<leaves, request, faults, threadVars>>

WaitReturns == gui = "waiting" /\ ~isRunning /\ Disconnected

WaitExpires ==
  /\ "expiry" \in faults
  /\ gui = "waiting" /\ thread \in {"opening", "receiving", "closing"}
  /\ Disconnected

(***************************************************************************)
(* Posted signals.  A notice ends the connection, if the window thinks it  *)
(* has one; a reply is answered with the next request in any case.         *)
(***************************************************************************)
OnNotice ==
  /\ gui = "idle" /\ events # <<>> /\ IsNotice(Head(events))
  /\ connected' = FALSE
  /\ events' = Tail(events)
  /\ UNCHANGED <<gui, leaves, request, faults, thread, mutex, portName, quit, txBuf, rxBuf, line>>

OnData ==
  /\ gui = "idle" /\ events # <<>> /\ ~IsNotice(Head(events))
  /\ events' = Tail(events)
  /\ \/ gui' = "writing" /\ request' = Head(events).reply
     \/ UNCHANGED <<gui, request>>                 \* the reply ends the sequence
  /\ UNCHANGED <<connected, leaves, faults, thread, mutex, portName, quit, txBuf, rxBuf, line>>

\* targetFlash: the action is enabled while the window is connected.
ClickFlash ==
  /\ MayClick /\ connected
  /\ gui' = "writing" /\ request' = portName
  /\ UNCHANGED <<connected, leaves, faults, threadVars>>

\* SerialThread::write.
Write ==
  /\ gui = "writing" /\ mutex = "none"
  /\ txBuf' = txBuf \cup {request}
  /\ gui' = "idle"
  /\ UNCHANGED <<connected, leaves, request, faults, thread, mutex, portName, quit, rxBuf, line, events>>

-----------------------------------------------------------------------------
TakeMutex == ConnectLocked \/ QuitSet \/ Write
GuiStep == TakeMutex \/ ConnectCleared \/ ConnectStarted \/ DestroyThread \/ WaitReturns
             \/ WaitExpires \/ OnNotice \/ OnData
Clicks == ClickConnect \/ ClickDisconnect \/ ClickFlash \/ CloseWindow

\* Destroying a QThread that runs aborts the program.
ThreadStep == gui # "gone" /\ RunStep /\ UNCHANGED <<gui, connected, leaves, request, faults>>

Next == GuiStep \/ Clicks \/ ThreadStep

(***************************************************************************)
(* Fairness.  Both threads are scheduled and the waits of run() are short. *)
(* The mutex is not a queue, but run() leaves it free for 20 ms in every   *)
(* pass, so the window gets it (strong fairness); clicks do not hold back  *)
(* a posted signal for ever.  A burst ends, unless a device that never     *)
(* pauses is among the faults.                                             *)
(***************************************************************************)
Fairness ==
  /\ WF_vars(GuiStep)
  /\ SF_vars(TakeMutex)
  /\ SF_vars(OnNotice \/ OnData)
  /\ WF_vars(gui # "gone" /\ Advance /\ UNCHANGED <<gui, connected, leaves, request, faults>>)
  /\ WF_vars(EndOfBurst /\ "expiry" \notin faults
               /\ UNCHANGED <<gui, connected, leaves, request, faults>>)

Spec == ConnInit /\ [][Next]_vars /\ Fairness

-----------------------------------------------------------------------------
(***************************************************************************)
(* Properties.                                                             *)
(***************************************************************************)
\* What the thread hands to the port was asked for in the connection that port was opened
\* for, no request of an earlier one and none meant for another port; and the bytes it
\* cuts a reply from came over one connection, the present one.
NothingStale ==
  faults \subseteq {"overlap"} =>
    /\ thread = "sending" => txBuf \subseteq {line} /\ line = portName
    /\ thread = "receiving" => \A i \in DOMAIN rxBuf : rxBuf[i] = portName

\* A window that shows itself connected and waits for events has a thread, or is
\* about to be told that it has none.
ConnectedIsServed ==
  faults \subseteq {"hurry"} /\ gui = "idle" /\ connected /\ thread \in {"closing", "leaving", "off"}
    => \E i \in DOMAIN events : IsNotice(events[i])

\* The program does not destroy a thread that runs, however the clicks fell.
GoneIsEnded == "expiry" \notin faults /\ gui = "gone" => ~isRunning

\* No slot blocks for ever, on the mutex or on the thread's end: the window answers.
GuiNeverStuck == (gui # "idle") ~> (gui \in {"idle", "gone"})

\* A request is sent or the connection ends, and the window knows.
RequestLeaves == (faults \subseteq {"hurry"} /\ connected /\ txBuf # {}) ~> (txBuf = {} \/ ~connected)

\* The buffer connect() clears under the mutex is in nobody else's hands.
BufferProtected == ~(gui = "clearing" /\ thread = "receiving")
=============================================================================
