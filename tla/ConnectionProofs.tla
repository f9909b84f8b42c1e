--------------------------- MODULE ConnectionProofs ---------------------------
(***************************************************************************)
(* Connecting and disconnecting, for any number of connections, any size   *)
(* of a reply and any bursts: what the window's slots and run() of the     *)
(* serial thread leave to each other.                                      *)
(***************************************************************************)
EXTENDS Connection, TLAPS

\* What a sequence is made of.
Content(s) == {s[i] : i \in DOMAIN s}

\* What two sequences put together hold.
LEMMA Joined ==
  ASSUME NEW S, NEW s \in Seq(S), NEW t \in Seq(S)
  PROVE  s \o t \in Seq(S) /\ Content(s \o t) = Content(s) \cup Content(t)
<1>1. /\ s \o t \in Seq(S) /\ Len(s) \in Nat /\ Len(t) \in Nat
      /\ DOMAIN s = 1..Len(s) /\ DOMAIN t = 1..Len(t)
      /\ DOMAIN (s \o t) = 1..(Len(s) + Len(t))
      /\ \A i \in 1..Len(s) : (s \o t)[i] = s[i]
      /\ \A i \in 1..Len(t) : (s \o t)[Len(s) + i] = t[i]
  OBVIOUS
<1>2. ASSUME NEW i \in 1..(Len(s) + Len(t))
      PROVE  (s \o t)[i] \in Content(s) \cup Content(t)
  <2>1. CASE i <= Len(s)
    BY <1>1, <2>1 DEF Content
  <2>2. CASE i > Len(s)
    <3>1. i - Len(s) \in 1..Len(t) /\ Len(s) + (i - Len(s)) = i
      BY <1>1, <2>2
    <3>2. (s \o t)[i] = t[i - Len(s)]
      BY <1>1, <3>1
    <3> QED
      BY <1>1, <3>1, <3>2 DEF Content
  <2> QED
    BY <1>1, <2>1, <2>2
<1>3. ASSUME NEW i \in 1..Len(s) PROVE s[i] \in Content(s \o t)
  <2>1. i \in 1..(Len(s) + Len(t)) /\ (s \o t)[i] = s[i]
    BY <1>1
  <2> QED
    BY <1>1, <2>1 DEF Content
<1>4. ASSUME NEW i \in 1..Len(t) PROVE t[i] \in Content(s \o t)
  <2>1. Len(s) + i \in 1..(Len(s) + Len(t)) /\ (s \o t)[Len(s) + i] = t[i]
    BY <1>1
  <2> QED
    BY <1>1, <2>1 DEF Content
<1> QED
  BY <1>1, <1>2, <1>3, <1>4 DEF Content

\* What a sequence holds is its head and what its tail holds.
LEMMA Taken ==
  ASSUME NEW S, NEW s \in Seq(S), s # <<>>
  PROVE  /\ Head(s) \in S /\ Tail(s) \in Seq(S)
         /\ Content(s) = {Head(s)} \cup Content(Tail(s))
<1>1. /\ Head(s) \in S /\ Tail(s) \in Seq(S) /\ Head(s) = s[1]
      /\ Len(s) \in Nat \ {0} /\ DOMAIN s = 1..Len(s)
      /\ DOMAIN Tail(s) = 1..(Len(s) - 1)
      /\ \A i \in 1..(Len(s) - 1) : Tail(s)[i] = s[i + 1]
  OBVIOUS
<1>2. ASSUME NEW i \in 1..Len(s), i # 1 PROVE s[i] \in Content(Tail(s))
  <2>1. i - 1 \in 1..(Len(s) - 1) /\ (i - 1) + 1 = i
    BY <1>1, <1>2
  <2> QED
    BY <1>1, <2>1 DEF Content
<1>3. ASSUME NEW i \in 1..(Len(s) - 1) PROVE Tail(s)[i] \in Content(s)
  <2>1. i + 1 \in 1..Len(s)
    BY <1>1
  <2> QED
    BY <1>1, <2>1 DEF Content
<1>4. s[1] \in Content(s)
  BY <1>1 DEF Content
<1> QED
  BY <1>1, <1>2, <1>3, <1>4 DEF Content

\* What a sequence of one holds.
LEMMA Alone ==
  ASSUME NEW S, NEW e \in S
  PROVE  <<e>> \in Seq(S) /\ Content(<<e>>) = {e} /\ Content(<<>>) = {}
BY DEF Content

\* A notice is told from a data signal.
LEMMA SignalKinds ==
  /\ \A s \in Notices : Notice(s) \in Signals /\ IsNotice(Notice(s))
  /\ \A c \in Connections : /\ Data(c) \in Signals /\ ~IsNotice(Data(c))
                            /\ Data(c).reply = c
  /\ \A e \in Signals : ~IsNotice(e) => e.reply \in Connections
  /\ "serialError" \in Notices /\ "serialTimeout" \in Notices
BY DEF Notice, Data, Signals, IsNotice, Notices

\* As many groups of ReplySize fit in n as n \div ReplySize says.
LEMMA Groups ==
  ASSUME NEW n \in Nat, NEW q, q = n \div ReplySize
  PROVE  /\ q \in Nat /\ ReplySize * q \in Nat /\ ReplySize * q <= n
         /\ \A k \in 1..q : ReplySize * k \in 1..n
<1>1. ReplySize \in Nat /\ ReplySize >= 1
  BY ThreadAssumption DEF ThreadAssumption
<1>2. q \in Nat /\ ReplySize * q \in Nat /\ ReplySize * q <= n
  BY <1>1
<1>3. ASSUME NEW k \in 1..q PROVE ReplySize * k \in 1..n
  <2>1. k \in Nat /\ k >= 1 /\ k <= q
    BY <1>2
  <2>2. ReplySize * k <= ReplySize * q
    BY <1>1, <1>2, <2>1
  <2>3. ReplySize * k >= 1 /\ ReplySize * k \in Nat
    BY <1>1, <2>1
  <2>4. \A x, y \in Nat : x >= 1 /\ x <= y /\ y <= n => x \in 1..n
    OBVIOUS
  <2> QED
    BY <1>2, <2>2, <2>3, <2>4, Zenon
<1> QED
  BY <1>1, <1>2, <1>3

-----------------------------------------------------------------------------
(***************************************************************************)
(* What each step does to the two sequences.                               *)
(***************************************************************************)
LEMMA Emitted ==
  ASSUME ConnTypeOK, NEW signals \in Seq(Signals), emit(signals)
  PROVE  events' \in Seq(Signals) /\ Content(events') = Content(events) \cup Content(signals)
BY Joined DEF emit, ConnTypeOK, ThreadTypeOK

\* A read from the line adds bytes of the open connection only, and no more than fit.
LEMMA ReadsLine ==
  ASSUME ConnTypeOK, Read
  PROVE  /\ rxBuf' \in Seq(Connections) /\ Len(rxBuf') < MaxBurst + ReplySize
         /\ Content(rxBuf') \subseteq Content(rxBuf) \cup {line}
<1>1. PICK n \in 1..MaxBurst : /\ Len(rxBuf) + n < MaxBurst + ReplySize
                               /\ rxBuf' = rxBuf \o [i \in 1..n |-> line]
  BY DEF Read
<1>2. n \in Nat /\ rxBuf \in Seq(Connections) /\ line \in Connections
  BY ThreadAssumption DEF ThreadAssumption, ConnTypeOK, ThreadTypeOK
<1>3. PICK burst : burst = [i \in 1..n |-> line]
  OBVIOUS
<1>4. burst \in Seq(Connections) /\ Len(burst) = n /\ Content(burst) \subseteq {line}
  BY <1>2, <1>3 DEF Content
<1>5. rxBuf' = rxBuf \o burst /\ Len(rxBuf') = Len(rxBuf) + n
  BY <1>1, <1>2, <1>3, <1>4
<1>6. rxBuf' \in Seq(Connections) /\ Content(rxBuf') = Content(rxBuf) \cup Content(burst)
  BY <1>2, <1>4, <1>5, Joined
<1> QED
  BY <1>1, <1>4, <1>5, <1>6

\* The signals of a burst carry connections whose bytes were received, and so does the rest.
LEMMA BurstEnds ==
  ASSUME ConnTypeOK, EndOfBurst
  PROVE  /\ events' \in Seq(Signals)
         /\ \A e \in Content(events') \ Content(events) :
              ~IsNotice(e) /\ e.reply \in Content(rxBuf)
         /\ Content(events) \subseteq Content(events')
         /\ rxBuf' \in Seq(Connections) /\ Len(rxBuf') <= Len(rxBuf)
         /\ Content(rxBuf') \subseteq Content(rxBuf)
<1>1. PICK n, q : n = Len(rxBuf) /\ q = n \div ReplySize
  OBVIOUS
<1>2. rxBuf \in Seq(Connections) /\ n \in Nat /\ DOMAIN rxBuf = 1..n
  BY <1>1 DEF ConnTypeOK, ThreadTypeOK
<1>3. /\ q \in Nat /\ ReplySize * q \in Nat /\ ReplySize * q <= n
      /\ \A k \in 1..q : ReplySize * k \in 1..n
  BY <1>1, <1>2, Groups
<1>4. PICK signals : signals = [k \in 1..q |-> Data(rxBuf[ReplySize * k])]
  OBVIOUS
<1>5. emit(signals) /\ rxBuf' = SubSeq(rxBuf, ReplySize * q + 1, n)
  BY <1>1, <1>4 DEF EndOfBurst
<1>6. \A k \in 1..q : rxBuf[ReplySize * k] \in Connections /\ rxBuf[ReplySize * k] \in Content(rxBuf)
  BY <1>2, <1>3 DEF Content
<1>7. /\ signals \in Seq(Signals)
      /\ \A e \in Content(signals) : ~IsNotice(e) /\ e.reply \in Content(rxBuf)
  <2>1. /\ signals \in [1..q -> Signals]
        /\ \A k \in 1..q : ~IsNotice(signals[k]) /\ signals[k].reply \in Content(rxBuf)
    BY <1>4, <1>6, SignalKinds
  <2>2. signals \in Seq(Signals) /\ DOMAIN signals = 1..q
    BY <1>3, <2>1
  <2> QED
    BY <2>1, <2>2 DEF Content
<1>8. events' \in Seq(Signals) /\ Content(events') = Content(events) \cup Content(signals)
  BY <1>5, <1>7, Emitted
<1>9. PICK m \in 1..(n + 1) : m = ReplySize * q + 1
  BY <1>2, <1>3
<1>10. /\ rxBuf' \in Seq(Connections) /\ Len(rxBuf') = (n + 1) - m
       /\ \A i \in 1..Len(rxBuf') : rxBuf'[i] = rxBuf[i + m - 1]
  BY <1>2, <1>5, <1>9
<1>11. Content(rxBuf') \subseteq Content(rxBuf)
  <2>1. ASSUME NEW i \in 1..Len(rxBuf') PROVE rxBuf'[i] \in Content(rxBuf)
    <3>1. i + m - 1 \in 1..n
      BY <1>2, <1>9, <1>10
    <3> QED
      BY <1>2, <1>10, <3>1 DEF Content
  <2>2. DOMAIN rxBuf' = 1..Len(rxBuf')
    BY <1>10
  <2> QED
    BY <2>1, <2>2 DEF Content
<1> QED
  BY <1>1, <1>2, <1>7, <1>8, <1>9, <1>10, <1>11

\* A signal is handled: it is the oldest, and the others stay.
LEMMA Dispatched ==
  ASSUME ConnTypeOK, events # <<>>, events' = Tail(events)
  PROVE  /\ events' \in Seq(Signals) /\ Head(events) \in Signals
         /\ Content(events) = {Head(events)} \cup Content(events')
BY Taken DEF ConnTypeOK, ThreadTypeOK

-----------------------------------------------------------------------------
(***************************************************************************)
(* The variables.  A connection is made only while there is a number left  *)
(* for it.                                                                 *)
(***************************************************************************)
Numbered == gui = "connecting" => portName < MaxConnections

ConnShape == ConnTypeOK /\ Numbered

\* An empty buffer is a buffer.
LEMMA NoBytes == <<>> \in Seq(Connections) /\ Len(<<>>) < MaxBurst + ReplySize
<1>1. Len(<<>>) = 0 /\ MaxBurst + ReplySize > 0
  BY ThreadAssumption DEF ThreadAssumption
<1> QED
  BY <1>1

\* Types and numbering hold at first.
LEMMA ShapeInit == ConnInit => ConnShape
<1> SUFFICES ASSUME ConnInit PROVE ConnShape
  OBVIOUS
<1>1. 0 \in Connections
  BY ThreadAssumption DEF ThreadAssumption, Connections
<1>2. rxBuf \in Seq(Connections) /\ Len(rxBuf) < MaxBurst + ReplySize
  BY NoBytes DEF ConnInit, ThreadInit
<1>3. events \in Seq(Signals)
  BY DEF ConnInit, ThreadInit
<1>4. ThreadTypeOK
  BY <1>1, <1>2, <1>3 DEF ConnInit, ThreadInit, ThreadTypeOK, Places
<1> QED
  BY <1>1, <1>4 DEF ConnInit, ConnShape, ConnTypeOK, Numbered

\* What the thread changes of its own variables.
LEMMA RunTypes ==
  ASSUME ConnTypeOK, RunStep
  PROVE  ThreadTypeOK' /\ portName' = portName
<1> USE DEF ConnTypeOK, ThreadTypeOK, Places
<1>1. CASE Enter \/ Opened \/ CheckQuit \/ Lock \/ Silence \/ Close \/ Finish
  BY <1>1 DEF Enter, Opened, CheckQuit, Lock, Silence, Close, Finish
<1>2. CASE Send \/ WriteTimeout
  BY <1>2 DEF Send, WriteTimeout
<1>3. CASE OpenFailed \/ ReportTimeout
  <2>1. PICK s \in Notices : emit(<<Notice(s)>>)
    BY <1>3, SignalKinds DEF OpenFailed, ReportTimeout
  <2>2. events' \in Seq(Signals)
    BY <2>1, SignalKinds, Alone, Emitted
  <2> QED
    BY <1>3, <2>2 DEF OpenFailed, ReportTimeout
<1>4. CASE Read
  BY <1>4, ReadsLine DEF Read
<1>5. CASE EndOfBurst
  <2>1. Len(rxBuf) \in Nat /\ Len(rxBuf') \in Nat /\ MaxBurst + ReplySize \in Nat
    BY <1>5, BurstEnds, ThreadAssumption DEF ThreadAssumption
  <2>2. Len(rxBuf') < MaxBurst + ReplySize
    BY <1>5, <2>1, BurstEnds
  <2> QED
    BY <1>5, <2>2, BurstEnds DEF EndOfBurst
<1> QED
  BY <1>1, <1>2, <1>3, <1>4, <1>5 DEF RunStep, Advance

\* Every step keeps types and numbering.
LEMMA ShapeStep == ConnShape /\ [Next]_vars => ConnShape'
<1> SUFFICES ASSUME ConnShape, [Next]_vars PROVE ConnShape'
  OBVIOUS
<1> USE DEF ConnShape, Numbered
<1>1. CASE ClickConnect \/ ClickDisconnect \/ ClickFlash \/ CloseWindow
  BY <1>1 DEF ClickConnect, ClickDisconnect, ClickFlash, CloseWindow, threadVars, ConnTypeOK,
              ThreadTypeOK
<1>2. CASE ConnectLocked
  <2>1. portName' \in Connections
    <3>1. portName \in Nat /\ portName < MaxConnections /\ portName' = portName + 1
      BY <1>2 DEF ConnectLocked, ConnTypeOK, ThreadTypeOK, Connections
    <3> QED
      BY <3>1, ThreadAssumption DEF ThreadAssumption, Connections
  <2> QED
    BY <1>2, <2>1 DEF ConnectLocked, ConnTypeOK, ThreadTypeOK
<1>3. CASE ConnectCleared
  <2>1. rxBuf' \in Seq(Connections) /\ Len(rxBuf') < MaxBurst + ReplySize
    BY <1>3, NoBytes DEF ConnectCleared, ConnTypeOK, ThreadTypeOK
  <2> QED
    BY <1>3, <2>1 DEF ConnectCleared, ConnTypeOK, ThreadTypeOK
<1>4. CASE ConnectStarted \/ QuitSet \/ Write
  BY <1>4 DEF ConnectStarted, QuitSet, Write, ConnTypeOK, ThreadTypeOK, Places
<1>5. CASE DestroyThread \/ WaitReturns \/ WaitExpires
  BY <1>5 DEF DestroyThread, WaitReturns, WaitExpires, Disconnected, threadVars, ConnTypeOK,
              ThreadTypeOK
<1>6. CASE OnNotice \/ OnData
  <2>1. events' \in Seq(Signals) /\ Head(events) \in Signals
    BY <1>6, Dispatched DEF OnNotice, OnData
  <2>2. OnData => request' \in Connections
    BY <2>1, SignalKinds DEF OnData, ConnTypeOK
  <2> QED
    BY <1>6, <2>1, <2>2 DEF OnNotice, OnData, ConnTypeOK, ThreadTypeOK
<1>7. CASE ThreadStep
  BY <1>7, RunTypes DEF ThreadStep, ConnTypeOK
<1>8. CASE UNCHANGED vars
  BY <1>8 DEF vars, threadVars, ConnTypeOK, ThreadTypeOK
<1> QED
  BY <1>1, <1>2, <1>3, <1>4, <1>5, <1>6, <1>7, <1>8 DEF Next, GuiStep, TakeMutex, Clicks

\* The variables of both threads keep their ranges, whatever goes wrong.
THEOREM ConnTypeCorrect == Spec => []ConnTypeOK
<1>1. ConnShape => ConnTypeOK
  BY DEF ConnShape
<1> QED
  BY <1>1, ShapeInit, ShapeStep, PTL DEF Spec

-----------------------------------------------------------------------------
(***************************************************************************)
(* Leaving the program.                                                    *)
(***************************************************************************)
\* Every way to the end of the window waits for run() to return; only the wait that runs
\* out does not.
THEOREM GoneIsSafe == Spec => []GoneIsEnded
<1>1. ConnInit => GoneIsEnded
  BY DEF ConnInit, GoneIsEnded
<1>2. GoneIsEnded /\ [Next]_vars => GoneIsEnded'
  <2> SUFFICES ASSUME GoneIsEnded, [Next]_vars PROVE GoneIsEnded'
    OBVIOUS
  <2> USE DEF GoneIsEnded, isRunning
  <2>1. CASE Clicks
    BY <2>1 DEF Clicks, ClickConnect, ClickDisconnect, ClickFlash, CloseWindow, threadVars
  <2>2. CASE ConnectLocked \/ ConnectCleared \/ ConnectStarted \/ QuitSet \/ Write
    BY <2>2 DEF ConnectLocked, ConnectCleared, ConnectStarted, QuitSet, Write
  <2>3. CASE DestroyThread \/ WaitReturns \/ WaitExpires
    BY <2>3 DEF DestroyThread, WaitReturns, WaitExpires, Disconnected, threadVars
  <2>4. CASE OnNotice \/ OnData
    BY <2>4 DEF OnNotice, OnData
  <2>5. CASE ThreadStep \/ UNCHANGED vars
    BY <2>5 DEF ThreadStep, vars, threadVars
  <2> QED
    BY <2>1, <2>2, <2>3, <2>4, <2>5 DEF Next, GuiStep, TakeMutex
<1> QED
  BY <1>1, <1>2, PTL DEF Spec

-----------------------------------------------------------------------------
(***************************************************************************)
(* A connected window is served, or will be told.                          *)
(***************************************************************************)
\* A signal that ends the connection has been posted.
Told == \E e \in Content(events) : IsNotice(e)

\* run() reads nothing any more.
Over == thread \in {"closing", "leaving", "off"}

\* What a click begins and the slot it runs ends with connected = TRUE.
Connecting == gui \in {"connecting", "clearing", "starting"}

(***************************************************************************)
(* Without an expired wait, m_quit is only seen by a thread that is waited *)
(* for; a thread that ends by itself has posted its notice before, so a    *)
(* slot that finds it running and does not start another one will hear it. *)
(***************************************************************************)
ServedInv ==
  /\ gui \in {"clearing", "starting"} => ~quit
  /\ quit /\ thread # "off" => gui = "waiting"
  /\ connected /\ Over /\ gui # "waiting" => Told
  /\ Connecting /\ thread \in {"closing", "leaving"} => Told

\* The window has been told when a notice waits among its events.
LEMMA ToldIs == ConnTypeOK => (Told <=> \E i \in DOMAIN events : IsNotice(events[i]))
BY DEF Told, Content

\* What was told stays told until it is handled.
LEMMA StaysTold ==
  ASSUME ConnTypeOK
  PROVE  /\ UNCHANGED events => Told' = Told
         /\ OpenFailed \/ ReportTimeout => Told'
         /\ EndOfBurst /\ Told => Told'
         /\ OnData => Told' = Told
<1>1. ASSUME OpenFailed \/ ReportTimeout PROVE Told'
  <2>1. PICK s \in Notices : emit(<<Notice(s)>>)
    BY <1>1, SignalKinds DEF OpenFailed, ReportTimeout
  <2>2. Notice(s) \in Signals /\ IsNotice(Notice(s))
    BY SignalKinds
  <2>3. PICK e \in Signals : e = Notice(s)
    BY <2>2
  <2>4. <<e>> \in Seq(Signals) /\ Content(<<e>>) = {e}
    BY Alone
  <2>5. e \in Content(events')
    BY <2>1, <2>3, <2>4, Emitted
  <2> QED
    BY <2>2, <2>3, <2>5 DEF Told
<1>2. ASSUME EndOfBurst, Told PROVE Told'
  BY <1>2, BurstEnds DEF Told
<1>3. ASSUME OnData PROVE Told' = Told
  BY <1>3, Dispatched DEF OnData, Told
<1> QED
  BY <1>1, <1>2, <1>3 DEF Told

\* With no other fault than "hurry", a step keeps ServedInv.
LEMMA ServedStep ==
  ASSUME ConnTypeOK, ServedInv, faults \subseteq {"hurry"}, Next
  PROVE  ServedInv'
<1> USE DEF ServedInv, Over, Connecting, isRunning
<1>1. CASE ClickConnect
  <2>1. thread \notin {"timedOut", "closing", "leaving"} /\ ~connected
    BY <1>1 DEF ClickConnect
  <2> QED
    BY <1>1, <2>1, StaysTold DEF ClickConnect, MayClick, threadVars
<1>2. CASE ClickDisconnect \/ ClickFlash \/ CloseWindow
  BY <1>2, StaysTold DEF ClickDisconnect, ClickFlash, CloseWindow, MayClick, threadVars
<1>3. CASE ConnectLocked
  BY <1>3, StaysTold DEF ConnectLocked
<1>4. CASE ConnectCleared
  BY <1>4, StaysTold DEF ConnectCleared
<1>5. CASE ConnectStarted
  BY <1>5, StaysTold DEF ConnectStarted, ConnTypeOK, ThreadTypeOK
<1>6. CASE QuitSet
  BY <1>6, StaysTold DEF QuitSet
<1>7. CASE Write
  BY <1>7, StaysTold DEF Write
<1>8. CASE DestroyThread
  BY <1>8, StaysTold DEF DestroyThread, threadVars
<1>9. CASE WaitReturns
  BY <1>9, StaysTold DEF WaitReturns, Disconnected, threadVars
<1>10. ~WaitExpires
  BY DEF WaitExpires
<1>11. CASE OnNotice
  BY <1>11 DEF OnNotice
<1>12. CASE OnData
  BY <1>12, StaysTold DEF OnData
<1>13. CASE ThreadStep
  <2>1. UNCHANGED <<gui, connected>> /\ RunStep
    BY <1>13 DEF ThreadStep
  <2>2. CASE Enter \/ Opened \/ Lock \/ Send \/ WriteTimeout \/ Silence \/ Close \/ Finish
    BY <2>1, <2>2, StaysTold DEF Enter, Opened, Lock, Send, WriteTimeout, Silence, Close, Finish
  <2>3. CASE CheckQuit
    BY <2>1, <2>3, StaysTold DEF CheckQuit
  <2>4. CASE OpenFailed \/ ReportTimeout
    BY <2>1, <2>4, StaysTold DEF OpenFailed, ReportTimeout
  <2>5. CASE Read
    BY <2>1, <2>5, StaysTold DEF Read
  <2>6. CASE EndOfBurst
    BY <2>1, <2>6, StaysTold DEF EndOfBurst
  <2> QED
    BY <2>1, <2>2, <2>3, <2>4, <2>5, <2>6 DEF RunStep, Advance
<1> QED
  BY <1>1, <1>2, <1>3, <1>4, <1>5, <1>6, <1>7, <1>8, <1>9, <1>10, <1>11, <1>12, <1>13
     DEF Next, GuiStep, TakeMutex, Clicks

\* With no other fault than "hurry", ServedInv is an invariant.
LEMMA ServedKnows == Spec => [](faults \subseteq {"hurry"} => ServedInv)
<1> DEFINE Inv == faults \subseteq {"hurry"} => ServedInv
<1>1. ConnInit => Inv
  <2> SUFFICES ASSUME ConnInit PROVE ServedInv
    OBVIOUS
  <2> QED
    BY DEF ConnInit, ThreadInit, ServedInv, Over, Connecting
<1>2. ConnShape /\ Inv /\ [Next]_vars => Inv'
  <2> SUFFICES ASSUME ConnShape, Inv, [Next]_vars, (faults \subseteq {"hurry"})'
               PROVE  ServedInv'
    OBVIOUS
  <2>1. faults' = faults
    BY DEF Next, GuiStep, TakeMutex, Clicks, ClickConnect, ClickDisconnect, ClickFlash,
       CloseWindow, ConnectLocked, ConnectCleared, ConnectStarted, QuitSet, Write,
       DestroyThread, WaitReturns, WaitExpires, Disconnected, OnNotice, OnData, ThreadStep, vars
  <2>2. ConnTypeOK /\ ServedInv /\ faults \subseteq {"hurry"}
    BY <2>1 DEF ConnShape
  <2>3. CASE Next
    BY <2>2, <2>3, ServedStep
  <2>4. CASE UNCHANGED vars
    BY <2>2, <2>4, StaysTold DEF vars, threadVars, ServedInv, Over, Connecting
  <2> QED
    BY <2>3, <2>4
<1> QED
  BY <1>1, <1>2, ShapeInit, ShapeStep, PTL DEF Spec

\* A window that shows itself connected has a thread that reads the port, or a notice that
\* there is none is already posted: the click that stopped run(), the one that started it
\* and the notices of an earlier thread may fall in any order.
THEOREM ServedOrTold == Spec => []ConnectedIsServed
<1>1. ConnShape /\ (faults \subseteq {"hurry"} => ServedInv) => ConnectedIsServed
  <2> SUFFICES ASSUME ConnTypeOK, ServedInv, gui = "idle", connected,
                      thread \in {"closing", "leaving", "off"}
               PROVE  \E i \in DOMAIN events : IsNotice(events[i])
    BY DEF ConnectedIsServed, ConnShape
  <2>1. Told
    BY DEF ServedInv, Over
  <2> QED
    BY <2>1, ToldIs
<1> QED
  BY <1>1, ServedKnows, ShapeInit, ShapeStep, PTL DEF Spec

-----------------------------------------------------------------------------
(***************************************************************************)
(* Nothing of an earlier connection.                                       *)
(***************************************************************************)
(***************************************************************************)
(* When clicks wait for the posted signals and the wait does not run out:  *)
(* a window that is not connected has no thread that still reads or        *)
(* writes, so a new connection begins with nothing posted, and everything  *)
(* that is sent, received or posted afterwards is of that connection.      *)
(***************************************************************************)
FreshInv ==
  /\ ~connected => Over
  /\ Told => Over
  /\ Connecting => ~connected /\ events = <<>>
  /\ ~Over /\ thread # "starting" => line = portName
  /\ txBuf \subseteq {portName}
  /\ \A e \in Content(events) : IsNotice(e) \/ e.reply = portName
  /\ gui # "clearing" => Content(rxBuf) \subseteq {portName}
  /\ gui = "writing" => request = portName

\* With no other fault than "overlap", a step keeps FreshInv.
LEMMA FreshStep ==
  ASSUME ConnTypeOK, FreshInv, faults \subseteq {"overlap"}, Next
  PROVE  FreshInv'
<1> USE DEF FreshInv, Over, Connecting, isRunning
<1>1. CASE Clicks
  <2>1. gui = "idle" /\ events = <<>>
    BY <1>1 DEF Clicks, ClickConnect, ClickDisconnect, ClickFlash, CloseWindow, MayClick
  <2>2. /\ UNCHANGED <<threadVars, connected>>
        /\ gui' = "connecting" => ~connected
        /\ gui' \in {"connecting", "writing", "disconnecting", "destroying"}
        /\ gui' = "writing" => request' = portName
    BY <1>1 DEF Clicks, ClickConnect, ClickDisconnect, ClickFlash, CloseWindow
  <2> QED
    BY <2>1, <2>2 DEF threadVars, Told
<1>2. CASE ConnectLocked
  BY <1>2, Alone DEF ConnectLocked, Told, Content
<1>3. CASE ConnectCleared
  BY <1>3 DEF ConnectCleared, Told, Content
<1>4. CASE ConnectStarted
  BY <1>4 DEF ConnectStarted, Told, Content
<1>5. CASE QuitSet
  BY <1>5 DEF QuitSet, Told
<1>6. CASE Write
  BY <1>6 DEF Write, Told
<1>7. CASE DestroyThread
  BY <1>7 DEF DestroyThread, threadVars, Told
<1>8. CASE WaitReturns
  BY <1>8 DEF WaitReturns, Disconnected, threadVars, Told
<1>9. ~WaitExpires
  BY DEF WaitExpires
<1>10. CASE OnNotice
  <2>1. /\ Head(events) \in Content(events) /\ Content(events') \subseteq Content(events)
        /\ IsNotice(Head(events))
    BY <1>10, Dispatched DEF OnNotice
  <2> QED
    BY <1>10, <2>1 DEF OnNotice, Told
<1>11. CASE OnData
  <2>1. /\ Head(events) \in Content(events) /\ Content(events') \subseteq Content(events)
        /\ ~IsNotice(Head(events))
    BY <1>11, Dispatched DEF OnData
  <2> QED
    BY <1>11, <2>1 DEF OnData, Told
<1>12. CASE ThreadStep
  <2>1. UNCHANGED <<gui, connected, request>> /\ RunStep
    BY <1>12 DEF ThreadStep
  <2>2. CASE Enter
    BY <2>1, <2>2 DEF Enter, Told
  <2>3. CASE Opened \/ Lock \/ Silence
    BY <2>1, <2>3 DEF Opened, Lock, Silence, Told
  <2>4. CASE Send \/ WriteTimeout
    BY <2>1, <2>4 DEF Send, WriteTimeout, Told
  <2>5. CASE CheckQuit \/ Close \/ Finish
    BY <2>1, <2>5 DEF CheckQuit, Close, Finish, Told
  <2>6. CASE OpenFailed \/ ReportTimeout
    <3>1. PICK s \in Notices : emit(<<Notice(s)>>)
      BY <2>6, SignalKinds DEF OpenFailed, ReportTimeout
    <3>2. PICK e \in Signals : e = Notice(s) /\ IsNotice(e)
      BY SignalKinds
    <3>3. <<e>> \in Seq(Signals) /\ Content(<<e>>) = {e}
      BY Alone
    <3>4. Content(events') = Content(events) \cup {e}
      BY <3>1, <3>2, <3>3, Emitted
    <3>5. /\ thread \notin {"closing", "leaving", "off"} /\ thread' \in {"closing", "leaving"}
          /\ UNCHANGED <<portName, quit, txBuf, rxBuf, line>>
      BY <2>6 DEF OpenFailed, ReportTimeout
    <3> QED
      BY <2>1, <3>2, <3>4, <3>5
  <2>7. CASE Read
    <3>1. Content(rxBuf') \subseteq Content(rxBuf) \cup {line}
      BY <2>7, ReadsLine
    <3> QED
      BY <2>1, <2>7, <3>1 DEF Read, Told
  <2>8. CASE EndOfBurst
    <3>1. /\ \A e \in Content(events') \ Content(events) :
               ~IsNotice(e) /\ e.reply \in Content(rxBuf)
          /\ Content(rxBuf') \subseteq Content(rxBuf)
      BY <2>8, BurstEnds
    <3>2. /\ thread = "receiving" /\ thread' = "looping"
          /\ UNCHANGED <<mutex, portName, quit, txBuf, line>>
      BY <2>8 DEF EndOfBurst
    <3> QED
      BY <2>1, <3>1, <3>2 DEF Told
  <2> QED
    BY <2>1, <2>2, <2>3, <2>4, <2>5, <2>6, <2>7, <2>8 DEF RunStep, Advance
<1> QED
  BY <1>1, <1>2, <1>3, <1>4, <1>5, <1>6, <1>7, <1>8, <1>9, <1>10, <1>11, <1>12
     DEF Next, GuiStep, TakeMutex

\* With no other fault than "overlap", FreshInv is an invariant.
LEMMA FreshKnows == Spec => [](faults \subseteq {"overlap"} => FreshInv)
<1> DEFINE Inv == faults \subseteq {"overlap"} => FreshInv
<1>1. ConnInit => Inv
  <2> SUFFICES ASSUME ConnInit PROVE FreshInv
    OBVIOUS
  <2> QED
    BY Alone DEF ConnInit, ThreadInit, FreshInv, Over, Connecting, Told, Content
<1>2. ConnShape /\ Inv /\ [Next]_vars => Inv'
  <2> SUFFICES ASSUME ConnShape, Inv, [Next]_vars, (faults \subseteq {"overlap"})'
               PROVE  FreshInv'
    OBVIOUS
  <2>1. faults' = faults
    BY DEF Next, GuiStep, TakeMutex, Clicks, ClickConnect, ClickDisconnect, ClickFlash,
       CloseWindow, ConnectLocked, ConnectCleared, ConnectStarted, QuitSet, Write,
       DestroyThread, WaitReturns, WaitExpires, Disconnected, OnNotice, OnData, ThreadStep, vars
  <2>2. ConnTypeOK /\ FreshInv /\ faults \subseteq {"overlap"}
    BY <2>1 DEF ConnShape
  <2>3. CASE Next
    BY <2>2, <2>3, FreshStep
  <2>4. CASE UNCHANGED vars
    BY <2>2, <2>4 DEF vars, threadVars, FreshInv, Over, Connecting, Told
  <2> QED
    BY <2>3, <2>4
<1> QED
  BY <1>1, <1>2, ShapeInit, ShapeStep, PTL DEF Spec

\* What is handed to the port, and what a reply is cut from, belongs to the connection the
\* port was opened for.
THEOREM NothingIsStale == Spec => []NothingStale
<1>1. (faults \subseteq {"overlap"} => FreshInv) => NothingStale
  <2> SUFFICES ASSUME FreshInv
               PROVE  /\ thread = "sending" => txBuf \subseteq {line} /\ line = portName
                      /\ thread = "receiving" => \A i \in DOMAIN rxBuf : rxBuf[i] = portName
    BY DEF NothingStale
  <2>1. thread \in {"sending", "receiving"} => line = portName /\ ~Over /\ gui # "clearing"
    BY DEF FreshInv, Over, Connecting
  <2>2. \A i \in DOMAIN rxBuf : rxBuf[i] \in Content(rxBuf)
    BY DEF Content
  <2> QED
    BY <2>1, <2>2 DEF FreshInv
<1> QED
  BY <1>1, FreshKnows, PTL
=============================================================================
