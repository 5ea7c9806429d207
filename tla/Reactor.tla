------------------------------ MODULE Reactor ------------------------------
(***************************************************************************)
(* One I/O EventLoop of a TcpServer with a thread pool, serving one        *)
(* TcpConnection, and the threads around it:                               *)
(*   - the loop thread: EventLoop::loop() polls the EPollPoller, runs      *)
(*     Channel::handleEvent for every active channel (the eventfd wakeup   *)
(*     channel and the connection's channel) and then doPendingFunctors;   *)
(*   - a user thread holding the connection (it got it from the            *)
(*     connection callback) and calling send, shutdown and forceClose;     *)
(*     these read and write TcpConnection::state_ without a lock and hand  *)
(*     work to the loop with queueInLoop + wakeup;                         *)
(*   - the server's thread, which runs the base loop: it starts the        *)
(*     EventLoopThread (EventLoopThreadPool::start, run), hands it the     *)
(*     connection (newConnection), runs removeConnectionInLoop, and in     *)
(*     ~TcpServer destroys the connection and the EventLoopThread, whose   *)
(*     destructor is the one caller of EventLoop::quit;                    *)
(*   - the peer, which sends bytes, reads what we sent and closes.         *)
(* The loop thread's steps are its own: a handler and every call it makes  *)
(* (callbacks, Channel::update into the poller, runInLoop executed in      *)
(* place) is one step.  A step of another thread is one shared-memory      *)
(* access or one system call.                                              *)
(* Data is abstracted to byte counts.  MpscQueue (funcs_) is not part of   *)
(* the sources; it is taken to be a linearizable FIFO queue.               *)
(***************************************************************************)
EXTENDS Integers, Sequences, FiniteSets, SequencesExt

CONSTANTS
  UserOps,          \* calls the user thread makes: "send", "shutdown", "forceClose"
  MaxUserOps,       \* bound on the user thread's calls
  SendLens,         \* lengths of the user's messages
  MaxPeerSends,     \* bound on the peer's writes
  SndBuf,           \* room in the kernel send buffer, in bytes
  MsgCallbackOps,   \* what the message callback does: "none", "echo", "shutdown"
  WriteCompleteCb   \* TcpServer::setWriteCompleteCallback was called

ASSUME UserOps \subseteq {"send", "shutdown", "forceClose"}
ASSUME MsgCallbackOps \subseteq {"none", "echo", "shutdown"} /\ MsgCallbackOps # {}
ASSUME SndBuf \in Nat \ {0} /\ SendLens \subseteq Nat \ {0}

VARIABLES
  conn,      \* the TcpConnection, its Channel and the poller's view of it
  sock,      \* the kernel socket: bytes to read, FIN seen, send room, SHUT_WR done
  funcs,     \* EventLoop::funcs_
  wake,      \* the eventfd counter is non-zero
  calling,   \* EventLoop::callingPendingFuncs_
  quit,      \* EventLoop::quit_
  lpc,       \* where the loop thread is in loop()
  active,    \* activeChannels_ still to handle, with their revents
  removals,  \* removeConnectionInLoop calls queued on the server loop
  inConns,   \* TcpServer::connections_ holds the connection
  userHas,   \* the connection callback handed the connection to the user
  upc,       \* where the user thread is in its current call
  ufun,      \* the functor the user thread is about to queue
  uops,      \* calls the user thread has made
  peerSends, \* writes the peer has made
  spc,       \* where the server's thread (the base loop) is
  loopPtr,   \* EventLoopThread::loop_ is not null
  runSet,    \* promiseForRun_ has its value
  loopRunning, \* promiseForLoop_ has its value
  accepted   \* the Acceptor has accepted the connection

ServerVars == <<spc, loopPtr, runSet, accepted>>

vars == <<conn, sock, funcs, wake, calling, quit, lpc, active, removals,
          inConns, userHas, upc, ufun, uops, peerSends, ServerVars, loopRunning>>

States == {"kDisconnected", "kConnecting", "kConnected", "kDisconnecting"}
kNew == -1
kAdded == 1
kDeleted == 2
Events == {"R", "W"}              \* Channel::kReadEvent, Channel::kWriteEvent
Functors == [f : {"connectEstablished", "sendInLoop", "shutdownInLoop",
                  "forceCloseInLoop", "writeComplete", "setLoopPromise",
                  "connectDestroyed"}, len : Nat]
Fn(f) == [f |-> f, len |-> 0]

(***************************************************************************)
(* Channel and EPollPoller.  Every change of a channel's events calls      *)
(* Channel::update, which is EPollPoller::updateChannel.                   *)
(***************************************************************************)
(* EPollPoller::update(operation, channel): epoll_ctl with the channel's   *)
(* current events; a failure is only logged, and none is modelled.        *)
update(op, c) ==
  CASE op = "ADD" -> [c EXCEPT !.reg = TRUE, !.epoll = c.events]
    [] op = "MOD" -> [c EXCEPT !.epoll = c.events]
    [] op = "DEL" -> [c EXCEPT !.reg = FALSE]

updateChannel(c) ==
  IF c.index \in {kNew, kDeleted}
  THEN update("ADD", [c EXCEPT !.inMap = TRUE, !.index = kAdded])
  ELSE IF c.events = {}
       THEN [update("DEL", c) EXCEPT !.index = kDeleted]
       ELSE update("MOD", c)

setEvents(c, ev) == updateChannel([c EXCEPT !.events = ev])
enableReading(c)  == setEvents(c, c.events \cup {"R"})
enableWriting(c)  == setEvents(c, c.events \cup {"W"})
disableWriting(c) == setEvents(c, c.events \ {"W"})
disableAll(c)     == setEvents(c, {})
isWriting(c)      == "W" \in c.events

(* Mutant: EPOLL_CTL_DEL issued for kDeleted instead of kAdded.           *)
removeChannelKeepEpoll(c) ==
  [IF c.index = kDeleted THEN update("DEL", c) ELSE c
     EXCEPT !.inMap = FALSE, !.index = kNew]

(* Channel::remove -> EPollPoller::removeChannel                          *)
removeChannel(c) ==
  [IF c.index = kAdded THEN update("DEL", c) ELSE c
     EXCEPT !.inMap = FALSE, !.index = kNew]

(* What epoll_wait reports for the connection's fd: level-triggered IN     *)
(* and OUT for the registered events, HUP whenever both directions are    *)
(* shut, registered events or not.                                        *)
connRevents(c, s) ==
  IF ~c.reg THEN {}
  ELSE (IF "R" \in c.epoll /\ (s.data > 0 \/ s.fin) THEN {"IN"} ELSE {})
       \cup (IF "W" \in c.epoll /\ s.room > 0 THEN {"OUT"} ELSE {})
       \cup (IF s.fin /\ s.shutWr THEN {"HUP"} ELSE {})

(***************************************************************************)
(* The loop thread's view of the state, and its queueInLoop.               *)
(***************************************************************************)
Cur == [conn |-> conn, sock |-> sock, funcs |-> funcs, wake |-> wake,
        calling |-> calling, removals |-> removals, userHas |-> userHas,
        loopRunning |-> loopRunning]

(* Mutant: queueInLoop wakes only when doPendingFunctors is not running.  *)
wakesNoThreadCheck(inLoop, callingPending) == ~callingPending

(* The condition under which queueInLoop writes the eventfd.              *)
wakes(inLoop, callingPending) == ~inLoop \/ ~callingPending

queueInLoop(st, f) ==
  [st EXCEPT !.funcs = Append(@, f),
             !.wake = IF wakes(TRUE, st.calling) THEN TRUE ELSE @]

writeCompleted(st) ==
  IF WriteCompleteCb THEN queueInLoop(st, Fn("writeComplete")) ELSE st

(* Mutant: the send buffer's room is not checked.                         *)
writtenUnbounded(s, len) == IF s.shutWr THEN -1 ELSE len

(* ::write of len bytes: EPIPE after SHUT_WR, else what the send buffer    *)
(* takes (0 is EWOULDBLOCK).                                              *)
written(s, len) == IF s.shutWr THEN -1 ELSE IF len < s.room THEN len ELSE s.room

(***************************************************************************)
(* TcpConnection, run on the loop thread.                                  *)
(***************************************************************************)
sendInLoop(st, len) ==
  IF st.conn.state = "kDisconnected" THEN st
  ELSE
    LET direct == ~isWriting(st.conn) /\ st.conn.output = 0
        n      == IF direct THEN written(st.sock, len) ELSE 0
        nwrote == IF n < 0 THEN 0 ELSE n
        fault  == n < 0                      \* EPIPE
        remaining == len - nwrote
        st1 == [st EXCEPT !.sock.room = @ - nwrote]
        st2 == IF direct /\ n >= 0 /\ remaining = 0 THEN writeCompleted(st1) ELSE st1
        buffered == [st2.conn EXCEPT !.output = @ + remaining]
    IN IF ~fault /\ remaining > 0
       THEN [st2 EXCEPT !.conn = IF isWriting(buffered) THEN buffered
                                 ELSE enableWriting(buffered)]
       ELSE st2

(* Mutant: shutdownInLoop without its isWriting check.                    *)
shutdownInLoopAlways(st) == [st EXCEPT !.sock.shutWr = TRUE]

shutdownInLoop(st) ==
  IF ~isWriting(st.conn) THEN [st EXCEPT !.sock.shutWr = TRUE] ELSE st

(* TcpConnection::send and ::shutdown called on the loop thread (from the  *)
(* message callback): runInLoop runs the *InLoop function in place.        *)
sendFromLoop(st, len) ==
  IF st.conn.state = "kConnected" THEN sendInLoop(st, len) ELSE st

shutdownFromLoop(st) ==
  IF st.conn.state = "kConnected"
  THEN shutdownInLoop([st EXCEPT !.conn.state = "kDisconnecting"])
  ELSE st

(* connectDestroyed, called by TcpServer::removeConnection right after it  *)
(* has queued removeConnectionInLoop on the server loop.                   *)
connectDestroyed(c) ==
  removeChannel(IF c.state = "kConnected"
                THEN disableAll([c EXCEPT !.state = "kDisconnected"])
                ELSE c)

handleClose(st) ==
  [st EXCEPT !.conn = connectDestroyed(disableAll([@ EXCEPT !.state = "kDisconnected"])),
             !.removals = @ + 1]

forceCloseInLoop(st) ==
  IF st.conn.state \in {"kConnected", "kDisconnecting"} THEN handleClose(st) ELSE st

connectEstablished(st) ==
  [st EXCEPT !.conn = enableReading([@ EXCEPT !.state = "kConnected"]),
             !.userHas = TRUE]

(* The server's message callback gets n bytes: the default one drops them; *)
(* an echo server sends them back; another server shuts the connection.   *)
messageCallback(st, m, n) ==
  CASE m = "none"     -> st
    [] m = "echo"     -> sendFromLoop(st, n)
    [] m = "shutdown" -> shutdownFromLoop(st)

(* Mutant: a read of 0 bytes taken for an error, as n < 0 is.             *)
handleReadIgnoreEof(st, m) ==
  IF st.sock.data > 0
  THEN messageCallback([st EXCEPT !.sock.data = 0], m, st.sock.data)
  ELSE st

(* Buffer::readFd takes every byte the socket holds; 0 means FIN.          *)
handleRead(st, m) ==
  IF st.sock.data > 0
  THEN messageCallback([st EXCEPT !.sock.data = 0], m, st.sock.data)
  ELSE IF st.sock.fin THEN handleClose(st)
  ELSE st

handleWrite(st) ==
  IF isWriting(st.conn) /\ written(st.sock, st.conn.output) > 0
  THEN
    LET n   == written(st.sock, st.conn.output)
        st1 == [st EXCEPT !.conn.output = @ - n, !.sock.room = @ - n]
        st2 == writeCompleted([st1 EXCEPT !.conn = disableWriting(@)])
    IN IF st1.conn.output > 0 THEN st1
       ELSE IF st2.conn.state = "kDisconnecting" THEN shutdownInLoop(st2)
       ELSE st2
  ELSE st

(* Channel::handleEvent: the channel is tied to the connection, which the  *)
(* user thread keeps alive, so the guard always locks.                     *)
handleEventWithGuard(st, rev, m) ==
  LET st1 == IF "HUP" \in rev /\ "IN" \notin rev THEN handleClose(st) ELSE st
      st2 == IF "IN" \in rev THEN handleRead(st1, m) ELSE st1
  IN IF "OUT" \in rev THEN handleWrite(st2) ELSE st2

runFunctor(st, fn) ==
  CASE fn.f = "connectEstablished" -> connectEstablished(st)
    [] fn.f = "sendInLoop"         -> sendInLoop(st, fn.len)
    [] fn.f = "shutdownInLoop"     -> shutdownInLoop(st)
    [] fn.f = "forceCloseInLoop"   -> forceCloseInLoop(st)
    [] fn.f = "writeComplete"      -> st
    [] fn.f = "setLoopPromise"     -> [st EXCEPT !.loopRunning = TRUE]
    [] fn.f = "connectDestroyed"   -> [st EXCEPT !.conn = connectDestroyed(@)]

(***************************************************************************)
(* Initial state: TcpServer::setIoLoopNum(1) is constructing the           *)
(* EventLoopThreadPool; its EventLoopThread has started threadFunc and     *)
(* waits for the loop pointer.  The connection's socket is not accepted    *)
(* yet; conn holds the fields the TcpConnection constructor will give it.  *)
(***************************************************************************)
NoFun == [f |-> "none", len |-> 0]

Init ==
  /\ conn = [state |-> "kConnecting", events |-> {}, index |-> kNew,
             inMap |-> FALSE, reg |-> FALSE, epoll |-> {}, output |-> 0]
  /\ sock = [data |-> 0, fin |-> FALSE, room |-> SndBuf, shutWr |-> FALSE]
  /\ funcs = <<>>
  /\ wake = FALSE
  /\ calling = FALSE
  /\ quit = FALSE
  /\ lpc = "threadFunc"
  /\ active = <<>>
  /\ removals = 0
  /\ inConns = FALSE
  /\ userHas = FALSE
  /\ upc = "idle"
  /\ ufun = NoFun
  /\ uops = 0
  /\ peerSends = 0
  /\ spc = "ctor"
  /\ loopPtr = FALSE
  /\ runSet = FALSE
  /\ loopRunning = FALSE
  /\ accepted = FALSE

Commit(st) ==
  /\ conn' = st.conn /\ sock' = st.sock /\ funcs' = st.funcs /\ wake' = st.wake
  /\ calling' = st.calling /\ removals' = st.removals /\ userHas' = st.userHas
  /\ loopRunning' = st.loopRunning

UserVars == <<upc, ufun, uops>>

(***************************************************************************)
(* The loop thread: EventLoopThread::threadFunc and EventLoop::loop.       *)
(***************************************************************************)
(* threadFunc up to its wait on promiseForRun_: the EventLoop constructor, *)
(* queueInLoop of the functor that sets promiseForLoop_ (on the loop       *)
(* thread, outside doPendingFunctors, so it writes the eventfd) and        *)
(* promiseForLoopPointer_.set_value.                                        *)
ThreadFuncStart ==
  /\ lpc = "threadFunc"
  /\ \E n \in {queueInLoop(Cur, Fn("setLoopPromise"))} : Commit(n)
  /\ loopPtr' = TRUE
  /\ lpc' = "waitRun"
  /\ UNCHANGED <<quit, active, inConns, UserVars, peerSends, spc, runSet, accepted>>

(* The future of promiseForRun_ returns; loop() sets looping_ and clears   *)
(* quit_, whatever another thread stored there before.                     *)
LoopStart ==
  /\ lpc = "waitRun" /\ runSet
  /\ quit' = FALSE
  /\ lpc' = "poll"
  /\ UNCHANGED <<conn, sock, funcs, wake, calling, active, removals, inConns,
                 userHas, UserVars, peerSends, ServerVars, loopRunning>>

(* loop() has returned: threadFunc sets loop_ = NULL and returns, which    *)
(* destroys the EventLoop with whatever funcs_ still holds.                *)
ThreadFuncEnd ==
  /\ lpc = "exit"
  /\ loopPtr' = FALSE
  /\ lpc' = "dead"
  /\ UNCHANGED <<conn, sock, funcs, wake, calling, quit, active, removals,
                 inConns, userHas, UserVars, peerSends, spc, runSet, accepted,
                 loopRunning>>

LoopExit ==
  /\ lpc = "poll" /\ quit
  /\ lpc' = "exit"
  /\ UNCHANGED <<conn, sock, funcs, wake, calling, quit, active, removals,
                 inConns, userHas, UserVars, peerSends,
                 ServerVars, loopRunning>>

(* epoll_wait returns every ready channel, in any order; with none ready  *)
(* it returns empty after kPollTimeMs.                                     *)
Poll ==
  /\ lpc = "poll" /\ ~quit
  /\ LET ready == (IF wake THEN {"wakeup"} ELSE {})
                  \cup (IF connRevents(conn, sock) # {} THEN {"conn"} ELSE {})
         revents(ch) == IF ch = "conn" THEN connRevents(conn, sock) ELSE {"IN"}
     IN \E order \in SetToSeqs(ready) :
          active' = [i \in DOMAIN order |-> [ch |-> order[i], rev |-> revents(order[i])]]
  /\ lpc' = "handle"
  /\ UNCHANGED <<conn, sock, funcs, wake, calling, quit, removals, inConns,
                 userHas, UserVars, peerSends,
                 ServerVars, loopRunning>>

(* EventLoop::handleRead drains the eventfd.                               *)
HandleWakeup ==
  /\ lpc = "handle" /\ active # <<>> /\ Head(active).ch = "wakeup"
  /\ active' = Tail(active)
  /\ wake' = FALSE
  /\ UNCHANGED <<conn, sock, funcs, calling, quit, lpc, removals, inConns,
                 userHas, UserVars, peerSends,
                 ServerVars, loopRunning>>

HandleConn ==
  /\ lpc = "handle" /\ active # <<>> /\ Head(active).ch = "conn"
  /\ active' = Tail(active)
  /\ \E m \in MsgCallbackOps :
       \E n \in {handleEventWithGuard(Cur, Head(active).rev, m)} : Commit(n)
  /\ UNCHANGED <<quit, lpc, inConns, UserVars, peerSends, ServerVars>>

(* The end of the for loop, and doPendingFunctors sets callingPendingFuncs_. *)
EventsHandled ==
  /\ lpc = "handle" /\ active = <<>>
  /\ calling' = TRUE
  /\ lpc' = "pending"
  /\ UNCHANGED <<conn, sock, funcs, wake, quit, active, removals, inConns,
                 userHas, UserVars, peerSends,
                 ServerVars, loopRunning>>

RunFunctor ==
  /\ lpc = "pending" /\ funcs # <<>>
  /\ \E n \in {runFunctor([Cur EXCEPT !.funcs = Tail(@)], Head(funcs))} : Commit(n)
  /\ UNCHANGED <<quit, lpc, active, inConns, UserVars, peerSends, ServerVars>>

(* The outer while finds funcs_ empty ...                                  *)
FunctorsDrained ==
  /\ lpc = "pending" /\ funcs = <<>>
  /\ lpc' = "reset"
  /\ UNCHANGED <<conn, sock, funcs, wake, calling, quit, active, removals,
                 inConns, userHas, UserVars, peerSends,
                 ServerVars, loopRunning>>

(* ... and callingPendingFuncs_ is cleared in a later store.               *)
PendingDone ==
  /\ lpc = "reset"
  /\ calling' = FALSE
  /\ lpc' = "poll"
  /\ UNCHANGED <<conn, sock, funcs, wake, quit, active, removals, inConns,
                 userHas, UserVars, peerSends,
                 ServerVars, loopRunning>>

LoopStep == ThreadFuncStart \/ LoopStart \/ ThreadFuncEnd \/ LoopExit \/ Poll \/ HandleWakeup \/ HandleConn \/ EventsHandled
            \/ RunFunctor \/ FunctorsDrained \/ PendingDone

(***************************************************************************)
(* The user thread.  Each call first reads state_ (one load), and the      *)
(* store, the enqueue and the eventfd write that follow are steps of their *)
(* own: the loop thread runs between any two of them.                      *)
(***************************************************************************)
LoopVars == <<conn, sock, funcs, wake, calling, quit, lpc, active, removals,
              inConns, userHas, peerSends, ServerVars, loopRunning>>

UserCall(op) ==
  /\ upc = "idle" /\ userHas /\ uops < MaxUserOps /\ op \in UserOps
  /\ uops' = uops + 1

(* TcpConnection::send: runInLoop(sendInLoop) if state_ == kConnected.     *)
UserSend ==
  /\ UserCall("send")
  /\ \E len \in SendLens :
       IF conn.state = "kConnected"
       THEN upc' = "enqueue" /\ ufun' = [f |-> "sendInLoop", len |-> len]
       ELSE UNCHANGED <<upc, ufun>>
  /\ UNCHANGED LoopVars

(* TcpConnection::shutdown: if state_ == kConnected, store kDisconnecting  *)
(* and runInLoop(shutdownInLoop).                                          *)
UserShutdown ==
  /\ UserCall("shutdown")
  /\ IF conn.state = "kConnected"
     THEN upc' = "setState" /\ ufun' = Fn("shutdownInLoop")
     ELSE UNCHANGED <<upc, ufun>>
  /\ UNCHANGED LoopVars

(* TcpConnection::forceClose: if kConnected or kDisconnecting, store       *)
(* kDisconnecting and queueInLoop(forceCloseInLoop).                       *)
UserForceClose ==
  /\ UserCall("forceClose")
  /\ IF conn.state \in {"kConnected", "kDisconnecting"}
     THEN upc' = "setState" /\ ufun' = Fn("forceCloseInLoop")
     ELSE UNCHANGED <<upc, ufun>>
  /\ UNCHANGED LoopVars

UserSetState ==
  /\ upc = "setState"
  /\ conn' = [conn EXCEPT !.state = "kDisconnecting"]
  /\ upc' = "enqueue"
  /\ UNCHANGED <<sock, funcs, wake, calling, quit, lpc, active, removals,
                 inConns, userHas, ufun, uops, peerSends,
                 ServerVars, loopRunning>>

(* queueInLoop from another thread: funcs_.enqueue ...                     *)
UserEnqueue ==
  /\ upc = "enqueue"
  /\ funcs' = Append(funcs, ufun)
  /\ upc' = "wakeup"
  /\ UNCHANGED <<conn, sock, wake, calling, quit, lpc, active, removals,
                 inConns, userHas, ufun, uops, peerSends,
                 ServerVars, loopRunning>>

(* ... then, if !isInLoopThread() || !callingPendingFuncs_, wakeup().      *)
UserWakeup ==
  /\ upc = "wakeup"
  /\ wake' = IF wakes(FALSE, calling) THEN TRUE ELSE wake
  /\ upc' = "idle"
  /\ ufun' = NoFun
  /\ UNCHANGED <<conn, sock, funcs, calling, quit, lpc, active, removals,
                 inConns, userHas, uops, peerSends,
                 ServerVars, loopRunning>>

(***************************************************************************)
(* The server loop runs TcpServer::removeConnectionInLoop.                 *)
(***************************************************************************)
RemoveConnectionInLoop ==
  /\ spc = "connected" /\ removals > 0
  /\ removals' = removals - 1
  /\ inConns' = FALSE
  /\ UNCHANGED <<conn, sock, funcs, wake, calling, quit, lpc, active,
                 userHas, UserVars, peerSends,
                 ServerVars, loopRunning>>

(***************************************************************************)
(* The peer: it sends, reads what the kernel sent it, and shuts its side.  *)
(***************************************************************************)
PeerSend ==
  /\ accepted /\ peerSends < MaxPeerSends /\ ~sock.fin
  /\ sock' = [sock EXCEPT !.data = @ + 1]
  /\ peerSends' = peerSends + 1
  /\ UNCHANGED <<conn, funcs, wake, calling, quit, lpc, active, removals,
                 inConns, userHas, UserVars,
                 ServerVars, loopRunning>>

PeerRead ==
  /\ accepted /\ sock.room < SndBuf
  /\ sock' = [sock EXCEPT !.room = SndBuf]
  /\ UNCHANGED <<conn, funcs, wake, calling, quit, lpc, active, removals,
                 inConns, userHas, UserVars, peerSends,
                 ServerVars, loopRunning>>

PeerClose ==
  /\ accepted /\ ~sock.fin
  /\ sock' = [sock EXCEPT !.fin = TRUE]
  /\ UNCHANGED <<conn, funcs, wake, calling, quit, lpc, active, removals,
                 inConns, userHas, UserVars, peerSends,
                 ServerVars, loopRunning>>

(***************************************************************************)
(* The server's thread, which runs the base loop: setIoLoopNum(1) builds   *)
(* the EventLoopThreadPool and starts it, the Acceptor hands one           *)
(* connection to TcpServer::newConnection, and ~TcpServer tears down.      *)
(* Its shared-memory steps are steps of their own.                         *)
(***************************************************************************)
SrvUnchanged == <<conn, sock, calling, quit, lpc, active, removals, inConns,
                  userHas, UserVars, peerSends, loopPtr, runSet, accepted,
                  loopRunning>>

(* EventLoopThread's constructor returns with loop_ once                   *)
(* promiseForLoopPointer_ is set; setIoLoopNum then calls                  *)
(* EventLoopThreadPool::start, which calls run().                          *)
CtorReturns ==
  /\ spc = "ctor" /\ loopPtr
  /\ spc' = "run"
  /\ UNCHANGED <<funcs, wake>> /\ UNCHANGED SrvUnchanged

(* run(), inside call_once: promiseForRun_.set_value ...                   *)
RunSetPromise ==
  /\ spc = "run"
  /\ runSet' = TRUE
  /\ spc' = "waitLoop"
  /\ UNCHANGED <<conn, sock, funcs, wake, calling, quit, lpc, active, removals,
                 inConns, userHas, UserVars, peerSends, loopPtr, accepted,
                 loopRunning>>

(* Mutant: run() returns without waiting for the loop to run.              *)
runMayReturnAtOnce(promised) == TRUE

(* ... then the future of promiseForLoop_: the loop has run a functor.     *)
runMayReturn(promised) == promised

RunReturns ==
  /\ spc = "waitLoop" /\ runMayReturn(loopRunning)
  /\ spc' = "serving"
  /\ UNCHANGED <<funcs, wake>> /\ UNCHANGED SrvUnchanged

(* newConnection: connections_[name] = conn, then runInLoop of             *)
(* connectEstablished from another thread: the enqueue ...                 *)
NewConnection ==
  /\ spc = "serving"
  /\ accepted' = TRUE /\ inConns' = TRUE
  /\ funcs' = Append(funcs, Fn("connectEstablished"))
  /\ spc' = "connWake"
  /\ UNCHANGED <<conn, sock, wake, calling, quit, lpc, active, removals,
                 userHas, UserVars, peerSends, loopPtr, runSet, loopRunning>>

(* ... and the eventfd write.                                              *)
NewConnectionWakeup ==
  /\ spc = "connWake"
  /\ wake' = IF wakes(FALSE, calling) THEN TRUE ELSE wake
  /\ spc' = "connected"
  /\ UNCHANGED funcs /\ UNCHANGED SrvUnchanged

(* ~TcpServer: runInLoop(connectDestroyed) for a connection still in       *)
(* connections_ (enqueue, then wakeup), then threadPool_.reset() runs      *)
(* ~EventLoopThread.                                                       *)
ServerDestroy ==
  /\ spc \in {"serving", "connected"}
  /\ IF inConns
     THEN funcs' = Append(funcs, Fn("connectDestroyed")) /\ spc' = "dtorWake"
     ELSE funcs' = funcs /\ spc' = "dtorQuit"
  /\ UNCHANGED wake /\ UNCHANGED SrvUnchanged

DtorWakeup ==
  /\ spc = "dtorWake"
  /\ wake' = IF wakes(FALSE, calling) THEN TRUE ELSE wake
  /\ spc' = "dtorQuit"
  /\ UNCHANGED funcs /\ UNCHANGED SrvUnchanged

(* ~EventLoopThread: if (loop_ != NULL) { loop_->quit(); thread_.join(); } *)
(* It is the only caller of quit, so loop_ is still set here; quit() from  *)
(* another thread stores quit_ = true, then calls wakeup().                *)
DtorQuit ==
  /\ spc = "dtorQuit"
  /\ quit' = TRUE
  /\ spc' = "quitWakeup"
  /\ UNCHANGED <<conn, sock, funcs, wake, calling, lpc, active, removals,
                 inConns, userHas, UserVars, peerSends, loopPtr, runSet,
                 accepted, loopRunning>>

DtorQuitWakeup ==
  /\ spc = "quitWakeup"
  /\ wake' = TRUE
  /\ spc' = "join"
  /\ UNCHANGED funcs /\ UNCHANGED SrvUnchanged

(* thread_.join() returns when threadFunc has returned.                    *)
Join ==
  /\ spc = "join" /\ lpc = "dead"
  /\ spc' = "done"
  /\ UNCHANGED <<funcs, wake>> /\ UNCHANGED SrvUnchanged

(* The steps the server's thread takes once it has started them; a client  *)
(* connecting and the server being destroyed are up to the environment.   *)
ServerProgress == CtorReturns \/ RunSetPromise \/ RunReturns \/ NewConnectionWakeup
                  \/ DtorWakeup \/ DtorQuit \/ DtorQuitWakeup \/ Join

ServerStep == ServerProgress \/ NewConnection \/ ServerDestroy

UserStep == UserSend \/ UserShutdown \/ UserForceClose
            \/ UserSetState \/ UserEnqueue \/ UserWakeup

PeerStep == PeerSend \/ PeerRead \/ PeerClose

Next == LoopStep \/ UserStep \/ RemoveConnectionInLoop \/ PeerStep \/ ServerStep

(* The loop thread never blocks for good: epoll_wait times out after       *)
(* kPollTimeMs.  The server loop runs what is queued on it, and the        *)
(* server's thread finishes what it has begun.  The user, the peer, a      *)
(* client connecting and the server's destruction need not happen.         *)
Spec == Init /\ [][Next]_vars /\ WF_vars(LoopStep) /\ WF_vars(RemoveConnectionInLoop)
        /\ WF_vars(ServerProgress)

(***************************************************************************)
(* Properties.                                                             *)
(***************************************************************************)
TypeOK ==
  /\ conn.state \in States
  /\ conn.events \subseteq Events
  /\ conn.index \in {kNew, kAdded, kDeleted}
  /\ conn.inMap \in BOOLEAN
  /\ conn.reg \in BOOLEAN /\ conn.epoll \subseteq Events
  /\ conn.output \in Nat
  /\ sock.data \in 0..MaxPeerSends /\ sock.fin \in BOOLEAN
  /\ sock.room \in 0..SndBuf /\ sock.shutWr \in BOOLEAN
  /\ funcs \in Seq(Functors)
  /\ {wake, calling, quit, inConns, userHas} \subseteq BOOLEAN
  /\ lpc \in {"threadFunc", "waitRun", "poll", "handle", "pending", "reset",
             "exit", "dead"}
  /\ active \in Seq([ch : {"wakeup", "conn"}, rev : SUBSET {"IN", "OUT", "HUP"}])
  /\ removals \in Nat
  /\ upc \in {"idle", "setState", "enqueue", "wakeup"}
  /\ ufun \in Functors \cup {NoFun}
  /\ uops \in 0..MaxUserOps /\ peerSends \in 0..MaxPeerSends
  /\ spc \in {"ctor", "run", "waitLoop", "serving", "connWake", "connected",
             "dtorWake", "dtorQuit", "quitWakeup", "join", "done"}
  /\ {loopPtr, runSet, loopRunning, accepted} \subseteq BOOLEAN

(* No lost wakeup: whenever the loop thread is about to block in           *)
(* epoll_wait with functors queued, the eventfd is readable or the thread  *)
(* that queued them (the user's or the server's) is about to write it.     *)
(* Otherwise the functor waits for the 10 s poll timeout.  This rests on   *)
(* queueInLoop's condition (EventLoop.cpp:155), on threadFunc's own        *)
(* queueInLoop writing the eventfd, and on doPendingFunctors re-checking   *)
(* funcs_ before it clears callingPendingFuncs_.                           *)
NoLostWakeup ==
  lpc = "poll" /\ ~quit /\ funcs # <<>> =>
    wake \/ upc = "wakeup" \/ spc \in {"connWake", "dtorWake"}

(* The poller's map, the channel's index and the kernel's epoll interest   *)
(* list agree: the fd is in channels_ unless the index is kNew, and it is  *)
(* in the interest list, registered with the channel's events, exactly     *)
(* when the index is kAdded.  Across handleClose, connectDestroyed (from   *)
(* the close callback or from ~TcpServer) and a second close this is what  *)
(* updateChannel and removeChannel must keep.                              *)
PollerConsistent ==
  /\ conn.inMap <=> conn.index # kNew
  /\ conn.reg <=> conn.index = kAdded
  /\ conn.index = kAdded => conn.epoll = conn.events

(* Channel::remove asserts isNoneEvent (Channel.cpp:36): a channel with    *)
(* events is never taken out of the poller, so a channel outside it has no *)
(* events that epoll would be asked to watch.                              *)
RemovedChannelIdle ==
  conn.index # kAdded => conn.events = {}

(* What TcpServer queues on the I/O loop is run before the loop thread     *)
(* ends: connectEstablished from newConnection and connectDestroyed from    *)
(* ~TcpServer hold the connection's last reference, and ~TcpConnection      *)
(* asserts state_ == kDisconnected (TcpConnection.cpp:42), which only       *)
(* connectDestroyed guarantees.  loop() tests quit_ before each poll, so a  *)
(* quit stored after the last doPendingFunctors ends it with funcs_ unrun.  *)
ServerFunctorsRun ==
  lpc = "dead" =>
    \A i \in DOMAIN funcs : funcs[i].f \notin {"connectEstablished", "connectDestroyed"}

(* Bytes are flushed before the write side closes: while the channel is in *)
(* the poller, unsent bytes in outputBuffer_ mean POLLOUT is watched, and  *)
(* the socket is not shut for writing with bytes still buffered, whichever *)
(* of sendInLoop, handleWrite and shutdownInLoop (from the user thread's   *)
(* shutdown or the message callback) runs first.  (Once handleClose has    *)
(* removed the channel the buffered bytes are abandoned.)                  *)
WriteSideOrdered ==
  conn.inMap /\ conn.output > 0 => isWriting(conn) /\ ~sock.shutWr

(* A connection whose peer closes is eventually closed by handleRead or    *)
(* the HUP path of Channel::handleEvent and erased from                    *)
(* TcpServer::connections_ by removeConnectionInLoop, unless the loop      *)
(* quits first.  (Its channel need not stay out of the poller: a state_    *)
(* store racing handleClose lets a queued sendInLoop re-register it.)      *)
ClosedConnectionReleased ==
  sock.fin ~> (~inConns \/ lpc \in {"exit", "dead"})

(* Every EventLoop::quit is obeyed: once ~EventLoopThread has stored quit_, *)
(* the loop thread leaves loop() and threadFunc returns, so join returns.  *)
(* loop() clears quit_ when it starts (EventLoop.cpp:120), so this rests on *)
(* run() returning only after the loop has run its first functor, which is *)
(* after that store.                                                        *)
QuitEndsLoop ==
  quit ~> lpc \in {"exit", "dead"}

(* TcpServer::removeConnectionInLoop asserts that connections_.erase found  *)
(* the connection (TcpServer.cpp:116): the close callback, handleClose,     *)
(* runs once per connection, so no more removals are queued than            *)
(* connections_ holds.                                                      *)
ConnectionErasedOnce ==
  removals <= IF inConns THEN 1 ELSE 0
====
