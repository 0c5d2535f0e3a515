----------------------------- MODULE TcpServer -----------------------------
(***************************************************************************)
(* net/TcpServer.cc, net/Channel.cc and the Acceptor of net/Socket.cc in   *)
(* one event loop: connections are accepted, read, written, shut down,     *)
(* closed by their peers, destroyed by a queued functor, and their         *)
(* descriptors and Channel objects used again.                             *)
(*                                                                         *)
(* The loop thread is cut where something else can come between two of its *)
(* calls: between callbacks of one handler, between the calls a message    *)
(* callback makes, between functors.  "Something else" is the peers and    *)
(* the kernel, and Workers: application threads that were given a          *)
(* connection and use the calls of TcpConnection that may come from any    *)
(* thread.  How a queued functor wakes the loop is EventLoop's matter: here*)
(* poll returns when functors are pending.                                 *)
(*                                                                         *)
(* The program has one loop: nothing starts the EventLoopThreadPool, so    *)
(* getNextLoop returns the base loop and connectEstablished runs inside    *)
(* newConnection.                                                          *)
(***************************************************************************)
EXTENDS Channel, Sequences, FiniteSets, FiniteSetsExt

CONSTANTS Conns,        \* TcpConnection objects; memory is used again
          Fds,          \* descriptors the process may open for connections
          Workers,      \* application threads besides the loop's
          Callbacks,    \* what a message callback may do: sequences of calls
          Urgent,       \* bound: connections whose peers send urgent bytes
          MaxBacklog,   \* bound: clients waiting to be accepted
          MaxPending,   \* bound: functors queued by workers
          InitEvents,   \* initial size of epollEvents_ (16 in the source)
          None

ASSUME EnoughObjects == Cardinality(Conns) >= Cardinality(Fds)

\* What a message callback may do: calls of TcpConnection, or not return, as
\* the parser's loop at HttpData.cc:37 may not.
CallNames == {"send", "shutdown", "closeConnection", "spin"}

\* What the constants are: descriptors are numbers, the acceptor and "no
\* connection" are no connections.
ASSUME ConstantsTyped ==
    /\ Fds \subseteq Nat
    /\ "acceptor" \notin Conns /\ None \notin Conns
    /\ Callbacks \subseteq Seq(CallNames)
    /\ Urgent \subseteq Conns /\ MaxBacklog \in Nat /\ InitEvents \in Nat \ {0}

VARIABLES
    phase,          \* "poll", "dispatch" or "functors"
    epollEvents_,   \* its size
    revents,        \* what poll reported for channels not yet handled
    cur, rev,       \* the channel in handler() and its callbacks to come
    calls,          \* calls its message callback has still to make
    conn,           \* the TcpConnection objects, or None
    ChannelMap_, connections_,
    pendingFunctors_, tempFunctors,
    next,           \* functors of tempFunctors that have run
    listenning_,    \* the acceptor's: start() has been called
    backlog, worker,
    fault           \* "none", or what ended the process: the line of a failed
                    \* assert, a signal, or the use of a freed object

sched   == <<phase, epollEvents_, revents, cur, rev, calls>>
objects == <<conn, ChannelMap_, connections_>>
queues  == <<pendingFunctors_, tempFunctors, next>>
others  == <<listenning_, backlog, worker>>
vars    == <<sched, objects, queues, others, fault>>

Live     == {c \in Conns : conn[c] # None}
Chans    == Conns \cup {"acceptor"}
FreeFds  == Fds \ {conn[c].ch.fd : c \in Live}
Watched  == {c \in Live : conn[c].ch.reg # {}}
Ops      == {"sendInLoop", "shutdownInLoop", "closeConnectionInLoop"}
WorkerOps == {"sendInLoop", "shutdownInLoop", "closeConnection"}
Functor(op, c) == [op |-> op, conn |-> c]
Queued   == {pendingFunctors_[i] : i \in DOMAIN pendingFunctors_} \cup
            {tempFunctors[i] : i \in DOMAIN tempFunctors}

\* A connection: state_, channel_, "outputBuffer_ is not empty", and what the
\* kernel has for its socket: what is unread (nothing, data, or an urgent byte
\* alone), the peer's side ("rst" with SO_ERROR pending, "dead" once the error
\* was fetched), our SHUT_WR.
NewConn(fd, room) ==
    [state |-> "Connecting", ch |-> NewChannel(fd, room), out |-> FALSE,
     rx |-> "none", peer |-> "open", shut |-> FALSE]

Init ==
    /\ phase = "poll" /\ epollEvents_ = InitEvents
    /\ revents = [x \in Chans |-> {}]
    /\ cur = None /\ rev = {} /\ calls = <<>>
    /\ conn = [c \in Conns |-> None]
    /\ ChannelMap_ = [fd \in Fds |-> None]
    /\ connections_ = {}
    /\ pendingFunctors_ = <<>> /\ tempFunctors = <<>> /\ next = 0
    /\ listenning_ = FALSE /\ backlog = 0
    /\ worker = [w \in Workers |-> [conn |-> None, todo |-> "none"]]
    /\ fault = "none"

\* The message callback goes round for ever.
Spinning == calls # <<>> /\ Head(calls) = "spin"

\* A failed assert or a signal ends the process, and a callback that spins its
\* loop: nothing that comes after either is told apart.
Up == fault = "none" /\ ~Spinning

Die(why) == fault' = why /\ UNCHANGED <<objects, pendingFunctors_>>

\* Acceptor::listen: the acceptor's channel is watched from now on.
Listen == listenning_' = TRUE

\* TcpServer::start, in the loop's own thread, so that runInLoop calls listen.
Start ==
    /\ ~listenning_ /\ Listen
    /\ UNCHANGED <<sched, objects, queues, backlog, worker, fault>>

-----------------------------------------------------------------------------
(* The peers and the kernel.                                               *)

\* The kernel completes a connection while there is a listening socket.
PeerConnect ==
    /\ Up /\ listenning_ /\ backlog < MaxBacklog
    /\ backlog' = backlog + 1
    /\ UNCHANGED <<sched, objects, queues, listenning_, worker, fault>>

\* An urgent byte shows in nothing while there is data to read with it: data
\* behind it is read past it, and data before it may as well be read first.
PeerActs(c) ==
    /\ Up /\ c \in Live
    /\ \/ /\ conn[c].peer = "open" /\ conn[c].rx # "data"
          /\ conn' = [conn EXCEPT ![c].rx = "data"]
       \/ /\ c \in Urgent /\ conn[c].peer = "open" /\ conn[c].rx = "none"
          /\ conn' = [conn EXCEPT ![c].rx = "urgent"]
       \/ /\ conn[c].peer = "open"
          /\ conn' = [conn EXCEPT ![c].peer = "fin"]
       \/ /\ conn[c].peer \in {"open", "fin"}
          /\ conn' = [conn EXCEPT ![c].peer = "rst"]
    /\ UNCHANGED <<sched, ChannelMap_, connections_, queues, others, fault>>

\* What epoll_wait reports: POLLRDHUP only if asked for, POLLNVAL never.
PollFlags == {"IN", "PRI", "OUT", "ERR", "HUP"}

\* What epoll_wait may say of a registered socket.  A socket being reset is
\* seen without its end of file when poll runs beside the reset; an urgent
\* byte alone is announced by PRI, and is nothing to read for IN; whether an
\* open socket has room to write is the peer's business.
Reports(c) ==
    LET k == conn[c]
        gone == k.peer \in {"rst", "dead"}
        may  == {m \in SUBSET PollFlags :
                    /\ "IN" \in m => k.rx = "data" \/ k.peer # "open"
                    /\ k.rx = "data" \/ k.peer \in {"fin", "dead"} => "IN" \in m
                    /\ "PRI" \in m <=> k.rx = "urgent"
                    /\ gone => "OUT" \in m
                    /\ "ERR" \in m <=> k.peer = "rst"
                    /\ "HUP" \in m <=> gone \/ (k.shut /\ k.peer = "fin")}
        mask == (UNION k.ch.reg) \cup {"ERR", "HUP"}
    IN  {m \cap mask : m \in may}

-----------------------------------------------------------------------------
(* Channel updates and the life of a connection, in the loop thread.       *)

\* c becomes k, Channel::update having been called: Epoller::updateChannel.
Updated(c, k) ==
    LET fd == k.ch.fd IN
    IF conn[c].ch.index = -1 /\ ChannelMap_[fd] # None
    THEN Die("Epoller.cc:69")
    ELSE /\ conn' = [conn EXCEPT ![c] = k]
         /\ ChannelMap_' = IF conn[c].ch.index = -1
                           THEN [ChannelMap_ EXCEPT ![fd] = c]
                           ELSE ChannelMap_
         /\ UNCHANGED <<connections_, pendingFunctors_, fault>>

\* Slip: the connection's entry left to connectDestroyed.
HandleCloseKeepsEntry(c) ==
    IF conn[c].state # "Connected"
    THEN Die("TcpServer.cc:97")
    ELSE /\ conn' = [conn EXCEPT ![c].ch = DisableAll(@)]
         /\ pendingFunctors_' =
                Append(pendingFunctors_, Functor("connectDestroyed", c))
         /\ UNCHANGED <<connections_, ChannelMap_, fault>>

\* Slip: the connection destroyed on the spot, inside its own handler.
HandleCloseDestroys(c) ==
    /\ conn' = [conn EXCEPT ![c] = None]
    /\ ChannelMap_' = [ChannelMap_ EXCEPT ![conn[c].ch.fd] = None]
    /\ connections_' = connections_ \ {c}
    /\ UNCHANGED <<pendingFunctors_, fault>>

\* TcpServer::removeConnection, run inside handleClose on a connection that
\* is now k: the last owning pointer moves into a functor.
RemoveConnection(c, k) ==
    IF c \notin connections_
    THEN Die("TcpServer.cc:272")
    ELSE /\ conn' = [conn EXCEPT ![c] = k]
         /\ connections_' = connections_ \ {c}
         /\ pendingFunctors_' =
                Append(pendingFunctors_, Functor("connectDestroyed", c))
         /\ UNCHANGED <<ChannelMap_, fault>>

\* TcpConnection::handleClose.
HandleClose(c) ==
    IF conn[c].state # "Connected"
    THEN Die("TcpServer.cc:97")
    ELSE RemoveConnection(c, [conn[c] EXCEPT !.ch = DisableAll(@)])

CloseConnectionInLoop(c) ==
    IF conn[c].state \in {"Connected", "Disconnetcing"}
    THEN HandleClose(c)
    ELSE UNCHANGED <<objects, pendingFunctors_, fault>>

\* Slip: no removeChannel.
ConnectDestroyedNoRemove(c) ==
    IF conn[c].state # "Connected"
    THEN Die("TcpServer.cc:50")
    ELSE /\ conn' = [conn EXCEPT ![c].state = "Disconnected",
                                 ![c].ch = DisableAll(@)]
         /\ UNCHANGED <<ChannelMap_, connections_, pendingFunctors_, fault>>

\* TcpConnection::connectDestroyed and EventLoop::removeChannel.
ConnectDestroyed(c) ==
    IF conn[c].state # "Connected"
    THEN Die("TcpServer.cc:50")
    ELSE IF ChannelMap_[conn[c].ch.fd] # c
    THEN Die("Epoller.cc:92")
    ELSE /\ conn' = [conn EXCEPT ![c].state = "Disconnected",
                                 ![c].ch = RemoveChannel(DisableAll(@))]
         /\ ChannelMap_' = [ChannelMap_ EXCEPT ![conn[c].ch.fd] = None]
         /\ UNCHANGED <<connections_, pendingFunctors_, fault>>

\* Objects lose their last owner and are freed: ~Socket closes the descriptor,
\* and the kernel forgets its registration.
FreeUnowned(map, functors, workers) ==
    LET owned(c) == \/ c \in map
                    \/ Functor("connectDestroyed", c) \in functors
                    \/ \E w \in Workers : workers[w].conn = c
    IN  conn' = [c \in Conns |-> IF owned(c) THEN conn[c] ELSE None]

-----------------------------------------------------------------------------
(* Output.                                                                 *)

\* outputBuffer_.append, and enableWriting unless already writing.
AppendOutput(c, k) ==
    IF IsWriting(k.ch)
    THEN /\ conn' = [conn EXCEPT ![c] = [k EXCEPT !.out = TRUE]]
         /\ UNCHANGED <<ChannelMap_, connections_, pendingFunctors_, fault>>
    ELSE Updated(c, [k EXCEPT !.out = TRUE, !.ch = EnableWriting(@)])

\* ::write to a socket that was reset fails with the pending error first and
\* raises SIGPIPE from then on, as it does after SHUT_WR; nothing in the
\* program handles the signal.
Sigpipe(k) == k.peer = "dead" \/ (k.shut /\ k.peer # "rst")

SendInLoop(c) ==
    LET k == conn[c]
        direct == ~IsWriting(k.ch) /\ ~k.out
    IN  \/ ~direct /\ AppendOutput(c, k)
        \/ direct /\ Sigpipe(k) /\ Die("SIGPIPE")
        \/ direct /\ k.peer = "rst" /\ AppendOutput(c, [k EXCEPT !.peer = "dead"])
        \/ /\ direct /\ k.peer \in {"open", "fin"} /\ ~k.shut
           /\ \/ UNCHANGED <<objects, pendingFunctors_, fault>>     \* all of it
              \/ AppendOutput(c, k)                                       \* part of it

ShutdownInLoop(c) ==
    /\ conn' = [conn EXCEPT ![c].shut =
                    @ \/ (~IsWriting(conn[c].ch)
                            /\ conn[c].peer \in {"open", "fin"})]
    /\ UNCHANGED <<ChannelMap_, connections_, pendingFunctors_, fault>>

\* Slip: POLLOUT never switched off.
HandleWriteKeepsInterest(c) ==
    /\ conn' = [conn EXCEPT ![c].out = FALSE]
    /\ UNCHANGED <<ChannelMap_, connections_, pendingFunctors_, fault>>

HandleWrite(c) ==
    LET k == conn[c] IN
    IF ~IsWriting(k.ch)
    THEN UNCHANGED <<objects, pendingFunctors_, fault>>
    ELSE \/ Sigpipe(k) /\ Die("SIGPIPE")
         \/ /\ k.peer = "rst"
            /\ conn' = [conn EXCEPT ![c].peer = "dead"]
            /\ UNCHANGED <<ChannelMap_, connections_, pendingFunctors_, fault>>
         \/ /\ k.peer \in {"open", "fin"} /\ ~k.shut
            /\ \/ Updated(c, [k EXCEPT !.out = FALSE,
                                       !.ch = DisableWriting(@)])
               \/ UNCHANGED <<objects, pendingFunctors_, fault>>

-----------------------------------------------------------------------------
(* EventLoop::loop: poll, handlers, functors.                              *)

\* Slip: epollEvents_ never grows.
GrowNot(n) == epollEvents_

\* Slip: resized the wrong way.
GrowHalf(n) == IF n = epollEvents_ THEN n \div 2 ELSE epollEvents_

Grow(n) == IF n = epollEvents_ THEN 2 * n ELSE epollEvents_

\* epoll_wait returns as many ready channels as epollEvents_ has room for.
PollReturns ==
    /\ Up /\ phase = "poll"
    /\ \E rep \in [Watched -> UNION {Reports(c) : c \in Watched}] :
          /\ \A c \in Watched : rep[c] \in Reports(c)
          /\ LET ready == {c \in Watched : rep[c] # {}}
                          \cup {x \in {"acceptor"} : backlog > 0}
             IN  /\ ready # {} \/ pendingFunctors_ # <<>>
                 /\ \E got \in SUBSET ready :
                      /\ \/ got = ready /\ Cardinality(got) <= epollEvents_
                         \/ Cardinality(got) = epollEvents_
                      /\ epollEvents_' = Grow(Cardinality(got))
                      /\ revents' = [x \in Chans |->
                            IF x \notin got THEN {}
                            ELSE IF x = "acceptor" THEN {"IN"} ELSE rep[x]]
    /\ phase' = "dispatch"
    /\ UNCHANGED <<cur, rev, calls, objects, queues, others, fault>>

BetweenHandlers == Up /\ phase = "dispatch" /\ rev = {} /\ calls = <<>>

\* Channel::handler on a connection begins: POLLHUP counts only without POLLIN,
\* whatever else there is to read.
HandlerBegins(c) ==
    /\ BetweenHandlers /\ c \in Live /\ revents[c] # {}
    /\ cur' = c
    /\ rev' = IF "IN" \in revents[c] THEN revents[c] \ {"HUP"} ELSE revents[c]
    /\ revents' = [revents EXCEPT ![c] = {}]
    /\ UNCHANGED <<phase, epollEvents_, calls, objects, queues, others, fault>>

ConnectEstablished(k) ==
    [k EXCEPT !.state = "Connected", !.ch = EnableReading(@)]

\* TcpServer::newConnection; getNextLoop is the base loop, so the connection
\* is established before it returns.  The kernel may refuse to watch it for
\* want of room; the ADDs that come later, in between two calls of disableAll,
\* are taken back at once whatever becomes of them.
NewConnection(c, fd) ==
    IF ChannelMap_[fd] # None
    THEN fault' = "Epoller.cc:69" /\ UNCHANGED objects
    ELSE /\ \E room \in BOOLEAN :
               conn' = [conn EXCEPT ![c] = ConnectEstablished(NewConn(fd, room))]
         /\ ChannelMap_' = [ChannelMap_ EXCEPT ![fd] = c]
         /\ connections_' = connections_ \cup {c}
         /\ UNCHANGED fault

\* Acceptor::handleRead.  The kernel gives out the lowest free descriptor; with
\* none left accept fails and the client stays in the backlog.
AcceptorReads ==
    /\ BetweenHandlers /\ revents["acceptor"] # {}
    /\ revents' = [revents EXCEPT !["acceptor"] = {}]
    /\ IF FreeFds = {}
       THEN UNCHANGED <<objects, backlog, fault>>
       ELSE /\ backlog' = backlog - 1
            /\ \E c \in Conns \ Live : NewConnection(c, Min(FreeFds))
    /\ UNCHANGED <<phase, epollEvents_, cur, rev, calls, queues, listenning_,
                   worker>>

InHandler == Up /\ phase = "dispatch" /\ calls = <<>> /\ cur \in Live

\* poll's pointer, or handler()'s this, is to an object that has been freed.
HandlerOnFreed ==
    /\ Up /\ phase = "dispatch" /\ calls = <<>>
    /\ \/ rev # {} /\ cur \notin Live
       \/ rev = {} /\ \E c \in Conns \ Live : revents[c] # {}
    /\ fault' = "use_after_free"
    /\ UNCHANGED <<sched, objects, queues, others>>

Callback(events, after) ==
    /\ InHandler /\ rev \cap events # {} /\ rev \cap after = {}
    /\ rev' = rev \ events

\* closeCallback_.
OnHup ==
    /\ Callback({"HUP"}, {})
    /\ HandleClose(cur)
    /\ UNCHANGED <<phase, epollEvents_, revents, cur, calls, tempFunctors, next,
                   others>>

\* errorCallback_: getsockopt(SO_ERROR) also clears the error.
OnError ==
    /\ Callback({"ERR"}, {"HUP"})
    /\ conn' = [conn EXCEPT ![cur].peer = IF @ = "rst" THEN "dead" ELSE @]
    /\ UNCHANGED <<phase, epollEvents_, revents, cur, calls, ChannelMap_,
                   connections_, queues, others, fault>>

\* readCallback_, for POLLIN and POLLPRI: data for the message callback, end of
\* file, or an error; with an urgent byte alone, which read skips, EAGAIN.
OnRead ==
    /\ Callback(readEvent_, {"HUP", "ERR"})
    /\ LET k == conn[cur] IN
       \/ /\ k.rx = "data"
          /\ conn' = [conn EXCEPT ![cur].rx = "none"]
          /\ calls' \in Callbacks
          /\ UNCHANGED <<ChannelMap_, connections_, pendingFunctors_, fault>>
       \/ k.rx # "data" /\ k.peer \in {"fin", "dead"} /\ HandleClose(cur)
          /\ UNCHANGED calls
       \/ /\ k.rx # "data" /\ k.peer \in {"open", "rst"}
          /\ conn' = [conn EXCEPT ![cur].rx = "none",
                                  ![cur].peer = IF @ = "rst" THEN "dead" ELSE @]
          /\ UNCHANGED <<ChannelMap_, connections_, pendingFunctors_, calls,
                         fault>>
    /\ UNCHANGED <<phase, epollEvents_, revents, cur, tempFunctors, next, others>>

\* writeCallback_.
OnWrite ==
    /\ Callback(writeEvent_, {"HUP", "ERR"} \cup readEvent_)
    /\ HandleWrite(cur)
    /\ UNCHANGED <<phase, epollEvents_, revents, cur, calls, tempFunctors, next,
                   others>>

\* closeConnection() up to queueInLoop: only the state is set.
CloseConnection(c) ==
    /\ conn' = [conn EXCEPT ![c].state = "Disconnetcing"]
    /\ UNCHANGED <<ChannelMap_, connections_, fault>>

\* The message callback's next call on its own connection.
Call ==
    /\ Up /\ phase = "dispatch" /\ calls # <<>>
    /\ calls' = Tail(calls)
    /\ LET open == conn[cur].state \in {"Connected", "Disconnetcing"} IN
       \/ Head(calls) = "send" /\ conn[cur].state = "Connected"
             /\ SendInLoop(cur)
       \/ Head(calls) = "shutdown" /\ ShutdownInLoop(cur)
       \/ /\ Head(calls) = "closeConnection" /\ open
          /\ CloseConnection(cur)
          /\ pendingFunctors_' =
                Append(pendingFunctors_, Functor("closeConnectionInLoop", cur))
       \/ /\ Head(calls) = "send" /\ conn[cur].state # "Connected"
          /\ UNCHANGED <<objects, pendingFunctors_, fault>>
    /\ UNCHANGED <<phase, epollEvents_, revents, cur, rev, tempFunctors, next,
                   others>>

SwapFunctors ==
    /\ BetweenHandlers /\ \A x \in Chans : revents[x] = {}
    /\ phase' = "functors" /\ cur' = None
    /\ tempFunctors' = pendingFunctors_ /\ pendingFunctors_' = <<>> /\ next' = 0
    /\ UNCHANGED <<epollEvents_, revents, rev, calls, objects, others, fault>>

RunFunctor ==
    /\ Up /\ phase = "functors" /\ next < Len(tempFunctors)
    /\ next' = next + 1
    /\ LET f == tempFunctors[next + 1]
           c == f.conn
       IN  \/ c \notin Live /\ Die("use_after_free")
           \/ c \in Live /\ f.op = "connectDestroyed" /\ ConnectDestroyed(c)
           \/ c \in Live /\ f.op = "sendInLoop" /\ SendInLoop(c)
           \/ c \in Live /\ f.op = "shutdownInLoop" /\ ShutdownInLoop(c)
           \/ /\ c \in Live /\ f.op = "closeConnectionInLoop"
              /\ CloseConnectionInLoop(c)
    /\ UNCHANGED <<sched, tempFunctors, others>>

\* The functors, and the pointers in them, are destroyed together at the end.
EndFunctors ==
    /\ Up /\ phase = "functors" /\ next = Len(tempFunctors)
    /\ phase' = "poll"
    /\ tempFunctors' = <<>> /\ next' = 0
    /\ FreeUnowned(connections_,
                   {pendingFunctors_[i] : i \in DOMAIN pendingFunctors_}, worker)
    /\ UNCHANGED <<epollEvents_, revents, cur, rev, calls, ChannelMap_,
                   connections_, pendingFunctors_, others, fault>>

-----------------------------------------------------------------------------
(* Application threads: a message callback gives one a shared_ptr.         *)

WorkerTakes(w) ==
    /\ Up /\ phase = "dispatch" /\ calls # <<>> /\ worker[w].conn = None
    /\ worker' = [worker EXCEPT ![w].conn = cur]
    /\ UNCHANGED <<sched, objects, queues, listenning_, backlog, fault>>

\* send, shutdown or closeConnection looks at state_ ...
WorkerCalls(w, call) ==
    LET c == worker[w].conn IN
    /\ Up /\ c # None /\ worker[w].todo = "none"
    /\ \/ call = "sendInLoop" /\ conn[c].state = "Connected"
       \/ call = "shutdownInLoop"
       \/ /\ call = "closeConnection"
          /\ conn[c].state \in {"Connected", "Disconnetcing"}
    /\ worker' = [worker EXCEPT ![w].todo = call]
    /\ UNCHANGED <<sched, objects, queues, listenning_, backlog, fault>>

\* ... closeConnection sets it, whatever the loop has made of it meanwhile ...
WorkerSetsState(w) ==
    /\ Up /\ worker[w].todo = "closeConnection"
    /\ CloseConnection(worker[w].conn)
    /\ worker' = [worker EXCEPT ![w].todo = "closeConnectionInLoop"]
    /\ UNCHANGED <<sched, queues, listenning_, backlog>>

\* ... and then a functor is queued that holds the raw pointer.
WorkerQueues(w) ==
    /\ Up /\ worker[w].todo \in Ops /\ Len(pendingFunctors_) < MaxPending
    /\ pendingFunctors_' =
            Append(pendingFunctors_, Functor(worker[w].todo, worker[w].conn))
    /\ worker' = [worker EXCEPT ![w].todo = "none"]
    /\ UNCHANGED <<sched, objects, tempFunctors, next, listenning_, backlog,
                   fault>>

WorkerDrops(w) ==
    /\ Up /\ worker[w].conn # None /\ worker[w].todo = "none"
    /\ worker' = [worker EXCEPT ![w].conn = None]
    /\ FreeUnowned(connections_, Queued, worker')
    /\ UNCHANGED <<sched, ChannelMap_, connections_, queues, listenning_,
                   backlog, fault>>

-----------------------------------------------------------------------------
LoopStep ==
    \/ PollReturns \/ AcceptorReads \/ (\E c \in Conns : HandlerBegins(c))
    \/ OnHup \/ OnError \/ OnRead \/ OnWrite \/ Call \/ HandlerOnFreed
    \/ SwapFunctors \/ RunFunctor \/ EndFunctors

WorkerStep(w) ==
    \/ WorkerTakes(w) \/ WorkerSetsState(w) \/ WorkerQueues(w) \/ WorkerDrops(w)
    \/ \E call \in WorkerOps : WorkerCalls(w, call)

\* The process, or its loop, is gone.
Ended == ~Up /\ UNCHANGED vars

Next ==
    \/ Start \/ PeerConnect \/ (\E c \in Conns : PeerActs(c))
    \/ LoopStep
    \/ \E w \in Workers : WorkerStep(w)
    \/ Ended

Spec == Init /\ [][Next]_vars

\* The loop thread is scheduled, and epoll_wait returns when something it
\* watches is ready.  Peers and workers owe nothing.  That callbacks return is
\* not assumed: what depends on it says so (Up).
FairSpec == Spec /\ WF_vars(LoopStep)

-----------------------------------------------------------------------------
(* Properties.                                                             *)

ConnType ==
    [state : {"Connecting", "Connected", "Disconnetcing", "Disconnected"},
     ch : ChannelType(Fds), out : BOOLEAN, rx : {"none", "data", "urgent"},
     peer : {"open", "fin", "rst", "dead"}, shut : BOOLEAN]

ASSUME NoneIsNoConnection == None \notin ConnType

FunctorType == [op : Ops \cup {"connectDestroyed"}, conn : Conns]

TypeOK ==
    /\ phase \in {"poll", "dispatch", "functors"}
    /\ epollEvents_ \in Nat \ {0}
    /\ revents \in [Chans -> SUBSET PollFlags]
    /\ cur \in Conns \cup {None} /\ rev \subseteq PollFlags
    /\ calls \in Seq(CallNames)
    /\ conn \in [Conns -> ConnType \cup {None}]
    /\ ChannelMap_ \in [Fds -> Conns \cup {None}]
    /\ connections_ \subseteq Conns
    /\ pendingFunctors_ \in Seq(FunctorType)
    /\ tempFunctors \in Seq(FunctorType) /\ next \in 0 .. Len(tempFunctors)
    /\ listenning_ \in BOOLEAN /\ backlog \in 0 .. MaxBacklog
    /\ worker \in [Workers -> [conn : Conns \cup {None}, todo : Ops \cup WorkerOps \cup {"none"}]]

\* Channel.cc:42-51 against TcpServer.cc:272.  POLLHUP is tested against POLLIN
\* alone, and the read callback runs on POLLPRI too.  A reset seen beside poll,
\* with an urgent byte unread, runs closeCallback_, errorCallback_ (which clears
\* the error) and then readCallback_, which reads an end of file and removes the
\* connection once more.
ResetWithUrgentByte ==
    /\ cur \in Live /\ cur \notin connections_
    /\ conn[cur].rx = "urgent" /\ conn[cur].peer = "dead"

\* The asserts of TcpConnection, TcpServer and Epoller (TcpServer.cc:41, 50,
\* 97, 272, Epoller.cc:69, 92) hold and no freed object is entered, whatever
\* the order of data, end of file, resets and descriptor reuse, except that
\* TcpServer.cc:272 fails when the peer of an unread urgent byte resets.
\* SIGPIPE ends the process too, but is no assert.
AssertsHold ==
    \/ fault \in {"none", "SIGPIPE"}
    \/ fault = "TcpServer.cc:272" /\ ResetWithUrgentByte

\* TcpServer.cc:93-100, 261-275.  Each connection has one owner: the map until
\* it is closed, then one connectDestroyed functor until that has run.
DestroyFunctors(c) ==
    Cardinality({i \in DOMAIN pendingFunctors_ :
                    pendingFunctors_[i] = Functor("connectDestroyed", c)})
  + Cardinality({i \in next + 1 .. Len(tempFunctors) :
                    tempFunctors[i] = Functor("connectDestroyed", c)})

OwnedOnce ==
    \A c \in Conns :
        (IF c \in connections_ THEN 1 ELSE 0) + DestroyFunctors(c)
            = IF c \in Live /\ conn[c].state = "Connected" THEN 1 ELSE 0

\* The deferred destruction of TcpServer.cc:266-275 works: nothing poll has
\* reported, nothing in the middle of its handler and nothing in ChannelMap_
\* is a freed object, or one that has given up its descriptor.
NothingDangles ==
    /\ \A c \in Conns : revents[c] # {} => c \in Live
    /\ rev # {} \/ calls # <<>> => cur \in Live
    /\ \A fd \in Fds : ChannelMap_[fd] # None =>
          ChannelMap_[fd] \in Live /\ conn[ChannelMap_[fd]].ch.fd = fd

\* TcpServer.cc:75-90, 125-155.  When the loop goes to sleep every connection
\* left asks to be read, is in the server's map, and asks for POLLOUT exactly
\* while it has output to write, and the kernel watches it for just that: no
\* output waits for an event nobody asked for, and no socket with nothing to
\* write keeps the loop spinning.  Only what the kernel had no room to register
\* is not watched, and never will be: nothing tries again.
QuiescentConnections ==
    phase = "poll" =>
        \A c \in Live :
            LET ch == conn[c].ch IN
            /\ c \in connections_ /\ ch.index = 1
            /\ ch.events = readEvent_ \cup (IF conn[c].out THEN writeEvent_
                                                          ELSE {})
            /\ ch.reg = IF ch.refused THEN {} ELSE {ch.events}

\* Epoller's promise, kept by the owner: an object is freed, and its
\* descriptor given back, only once its channel is out of epoll and its map.
FreedAfterRemoval ==
    [][\A c \in Live : conn'[c] = None =>
          /\ conn[c].state = "Disconnected"
          /\ conn[c].ch.index = -1 /\ conn[c].ch.reg = {}]_vars

\* The peer of an open connection has closed or reset it.  Where Epoller.cc:114
\* only logs that the kernel had no room to watch the connection, nobody will
\* ever know.
Gone(c) == c \in Live /\ conn[c].peer # "open" /\ ~conn[c].ch.refused

\* A peer that has closed or reset its connection gets its descriptor freed,
\* whatever the server was doing with the connection, while message callbacks
\* return: none stays gone for ever (a peer that is gone does not come back, so
\* this is the same as Gone(c) ~> c \notin Live).
GoneConnectionIsFreed == \A c \in Conns : []<>(Up => ~Gone(c))

\* Epoller.cc:33-36, Socket.cc:116-128.  A client waiting to be accepted is not
\* starved by busy connections, even if the kernel always reports those first,
\* nor forgotten when accept fails for want of descriptors: while message
\* callbacks return it is accepted, if a descriptor is free again and again.
BacklogIsServed == []<>(FreeFds # {}) => []<>(Up => backlog = 0)

\* For runs with every call of the interface: no connection is queued for
\* destruction twice, or while the server still lists it.
DestroyedAtMostOnce ==
    \A c \in Conns :
        (IF c \in connections_ THEN 1 ELSE 0) + DestroyFunctors(c) <= 1

\* The assert at TcpServer.cc:272: a connection is in the map when it is removed.
RemovedOnce == fault # "TcpServer.cc:272"

\* The assert at Epoller.cc:69.
FdFreeInMap == fault # "Epoller.cc:69"
=============================================================================
