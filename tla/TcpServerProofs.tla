-------------------------- MODULE TcpServerProofs --------------------------
(***************************************************************************)
(* Theorems about TcpServer: what holds with any application threads and   *)
(* any message callbacks, and what holds of the program as it is, where    *)
(* the only callback is HttpServer's and no thread but the loop's has a    *)
(* connection.                                                             *)
(***************************************************************************)
EXTENDS TcpServer, FiniteSetTheorems, SequenceTheorems,
        WellFoundedInduction, TLAPS

-----------------------------------------------------------------------------
(* What the operators of Channel preserve, for any channel in any status (in *)
(* EpollerProofs too: the proof modules share none).                       *)

\* The kernel's registration of a channel is what its index says, unless the
\* kernel had no room for it.
InStep(ch) ==
    /\ ch.reg = IF ch.index = 1 /\ ~ch.refused THEN {ch.events} ELSE {}
    /\ ~ch.ctlError

\* The constructor (Channel.cc:15-23) makes a channel the kernel knows nothing
\* of, marked as not in the map.
LEMMA NewChannelInStep ==
    ASSUME NEW fd \in Fds, NEW room \in BOOLEAN
    PROVE  /\ NewChannel(fd, room) \in ChannelType(Fds)
           /\ InStep(NewChannel(fd, room))
           /\ NewChannel(fd, room).fd = fd
           /\ NewChannel(fd, room).index = -1
           /\ NewChannel(fd, room).events = {}
BY DEF NewChannel, ChannelType, InStep, Interest

\* An epoll_ctl keeps the fields of a channel in their sets, whatever it is.
LEMMA EpollCtlType ==
    ASSUME NEW ch \in ChannelType(Fds), NEW op
    PROVE  /\ EpollCtl(op, ch) \in ChannelType(Fds)
           /\ EpollCtl(op, ch).fd = ch.fd
           /\ EpollCtl(op, ch).events = ch.events
           /\ EpollCtl(op, ch).index = ch.index
<1> DEFINE reg == IF CtlFails(op, ch) THEN ch.reg ELSE IF op = "DEL" THEN {}
                  ELSE {ch.events}
           noRoom == op = "ADD" /\ ch.reg = {} /\ ~ch.room
           refused == IF op = "MOD" THEN ch.refused ELSE noRoom
           ctlError == ch.ctlError \/ (CtlFails(op, ch) /\ ~noRoom /\ ~ch.refused)
<1>1. EpollCtl(op, ch) = [ch EXCEPT !.reg = reg, !.refused = refused,
                                    !.ctlError = ctlError]
  BY Zenon DEF EpollCtl
<1>2. /\ ch.events \in SUBSET Interest /\ ch.refused \in BOOLEAN
      /\ ch.reg \in {{}} \cup {{m} : m \in SUBSET Interest}
  BY DEF ChannelType
<1>3. reg \in {{}} \cup {{m} : m \in SUBSET Interest}
  BY <1>2
<1>4. refused \in BOOLEAN /\ ctlError \in BOOLEAN
  BY <1>2
<1> HIDE DEF reg, noRoom, refused, ctlError
<1> QED
  BY <1>1, <1>3, <1>4 DEF ChannelType

\* What an epoll_ctl leaves in the kernel.
LEMMA EpollCtlEffect ==
    ASSUME NEW ch \in ChannelType(Fds), NEW op \in {"ADD", "MOD", "DEL"}
    PROVE  LET new == EpollCtl(op, ch)
           IN  /\ new.reg = IF CtlFails(op, ch) THEN ch.reg
                            ELSE IF op = "DEL" THEN {} ELSE {ch.events}
               /\ new.refused <=> IF op = "MOD" THEN ch.refused
                                  ELSE op = "ADD" /\ ch.reg = {} /\ ~ch.room
               /\ new.ctlError <=>
                    \/ ch.ctlError
                    \/ /\ CtlFails(op, ch) /\ ~ch.refused
                       /\ ~(op = "ADD" /\ ch.reg = {} /\ ~ch.room)
BY DEF EpollCtl, ChannelType

\* index_ is the code's own, and no part of what the kernel is told.
LEMMA IndexSet ==
    ASSUME NEW ch \in ChannelType(Fds), NEW index \in {-1, 1, 2}
    PROVE  LET new == [ch EXCEPT !.index = index]
           IN  /\ new \in ChannelType(Fds) /\ new.fd = ch.fd
               /\ new.index = index /\ new.events = ch.events
               /\ new.reg = ch.reg /\ new.refused = ch.refused
               /\ new.ctlError = ch.ctlError
BY DEF ChannelType

\* Whatever mask is asked for, in whatever status, the epoll_ctl chosen is
\* the one the kernel accepts, if it has room.
LEMMA SetEventsInStep ==
    ASSUME NEW ch \in ChannelType(Fds), InStep(ch),
           NEW mask \in SUBSET Interest
    PROVE  /\ SetEvents(ch, mask) \in ChannelType(Fds)
           /\ InStep(SetEvents(ch, mask))
           /\ SetEvents(ch, mask).fd = ch.fd
           /\ SetEvents(ch, mask).events = mask
           /\ SetEvents(ch, mask).index =
                IF ch.index = 1 /\ mask = {} THEN 2 ELSE 1
<1> DEFINE asked == [ch EXCEPT !.events = mask]
           op == IF ch.index # 1 THEN "ADD"
                 ELSE IF mask = {} THEN "DEL" ELSE "MOD"
           told == EpollCtl(op, asked)
           index == IF ch.index = 1 /\ mask = {} THEN 2 ELSE 1
           new == [told EXCEPT !.index = index]
<1>1. /\ asked \in ChannelType(Fds) /\ asked.fd = ch.fd
      /\ asked.events = mask /\ asked.index = ch.index /\ asked.reg = ch.reg
      /\ asked.room = ch.room /\ asked.refused = ch.refused
      /\ asked.ctlError = ch.ctlError
  BY DEF ChannelType
<1> HIDE DEF asked
<1>2. op \in {"ADD", "MOD", "DEL"} /\ index \in {-1, 1, 2}
  OBVIOUS
<1>3. told \in ChannelType(Fds) /\ told.fd = ch.fd
      /\ told.events = mask /\ told.index = ch.index
  BY <1>1, EpollCtlType
<1>4. /\ told.reg = IF CtlFails(op, asked) THEN asked.reg
                    ELSE IF op = "DEL" THEN {} ELSE {asked.events}
      /\ told.refused <=> IF op = "MOD" THEN asked.refused
                          ELSE op = "ADD" /\ asked.reg = {} /\ ~asked.room
      /\ told.ctlError <=>
           \/ asked.ctlError
           \/ /\ CtlFails(op, asked) /\ ~asked.refused
              /\ ~(op = "ADD" /\ asked.reg = {} /\ ~asked.room)
  BY <1>1, <1>2, EpollCtlEffect
<1>5. SetEvents(ch, mask) = new
  <2>1. SetEvents(ch, mask) = UpdateChannel(asked)
    BY DEF SetEvents, asked
  <2>2. CASE ch.index = 1 /\ mask = {}
    BY <1>1, <2>1, <2>2 DEF UpdateChannel
  <2>3. CASE ch.index = 1 /\ mask # {}
    <3>1. SetEvents(ch, mask) = told
      BY <1>1, <2>1, <2>3 DEF UpdateChannel
    <3>2. told.index = 1 /\ index = 1
      BY <1>3, <2>3
    <3>3. [told EXCEPT !.index = 1] = told
      <4> HIDE DEF told
      <4> QED
        BY <1>3, <3>2 DEF ChannelType
    <3> QED
      BY <3>1, <3>2, <3>3
  <2>4. CASE ch.index # 1
    BY <1>1, <2>1, <2>4 DEF UpdateChannel
  <2> QED
    BY <2>2, <2>3, <2>4
<1> HIDE DEF told
<1>6. /\ new \in ChannelType(Fds) /\ new.fd = ch.fd
      /\ new.index = index /\ new.events = mask
      /\ new.reg = told.reg /\ new.refused = told.refused
      /\ new.ctlError = told.ctlError
  <2> HIDE DEF index, op
  <2>1. /\ new \in ChannelType(Fds) /\ new.fd = told.fd
        /\ new.index = index /\ new.events = told.events
        /\ new.reg = told.reg /\ new.refused = told.refused
        /\ new.ctlError = told.ctlError
    BY <1>2, <1>3, IndexSet
  <2> QED
    BY <1>3, <2>1
<1> HIDE DEF new
<1>7. InStep(new)
  <2>1. /\ ch.reg = IF ch.index = 1 /\ ~ch.refused THEN {ch.events} ELSE {}
        /\ ~ch.ctlError
    BY DEF InStep
  <2>2. CASE ch.index # 1
    <3>1. told.reg = IF ch.room THEN {mask} ELSE {}
      BY <1>1, <1>4, <2>1, <2>2 DEF CtlFails
    <3>2. (told.refused <=> ~ch.room) /\ ~told.ctlError
      BY <1>1, <1>4, <2>1, <2>2 DEF CtlFails
    <3> QED
      BY <1>6, <2>2, <3>1, <3>2 DEF InStep
  <2>3. CASE ch.index = 1 /\ mask = {}
    <3>1. told.reg = {}
      BY <1>1, <1>4, <2>1, <2>3 DEF CtlFails
    <3>2. ~told.ctlError
      BY <1>1, <1>4, <2>1, <2>3 DEF CtlFails
    <3> QED
      BY <1>6, <2>3, <3>1, <3>2 DEF InStep
  <2>4. CASE ch.index = 1 /\ mask # {}
    <3>1. told.reg = IF ch.refused THEN {} ELSE {mask}
      BY <1>1, <1>4, <2>1, <2>4 DEF CtlFails
    <3>2. (told.refused <=> ch.refused) /\ ~told.ctlError
      BY <1>1, <1>4, <2>1, <2>4 DEF CtlFails
    <3> QED
      BY <1>6, <2>4, <3>1, <3>2 DEF InStep
  <2> QED
    BY <2>2, <2>3, <2>4
<1> QED
  BY <1>5, <1>6, <1>7

\* removeChannel leaves nothing in the kernel, also after the ADD without
\* interest that a second disableAll makes.
LEMMA RemoveChannelInStep ==
    ASSUME NEW ch \in ChannelType(Fds), InStep(ch)
    PROVE  /\ RemoveChannel(ch) \in ChannelType(Fds)
           /\ InStep(RemoveChannel(ch))
           /\ RemoveChannel(ch).fd = ch.fd
           /\ RemoveChannel(ch).events = {} /\ RemoveChannel(ch).index = -1
<1> PICK off : off = DisableAll(ch)
  OBVIOUS
<1>1. off \in ChannelType(Fds) /\ InStep(off) /\ off.fd = ch.fd /\ off.events = {}
  BY SetEventsInStep DEF DisableAll
<1> PICK told : told = IF off.index = 1 THEN EpollCtl("DEL", off) ELSE off
  OBVIOUS
<1>2. /\ told \in ChannelType(Fds) /\ told.fd = ch.fd /\ told.events = {}
      /\ told.reg = {} /\ ~told.ctlError
  <2>1. CASE off.index = 1
    <3>1. told \in ChannelType(Fds) /\ told.fd = ch.fd /\ told.events = {}
      BY <1>1, <2>1, EpollCtlType
    <3>2. off.reg = (IF ~off.refused THEN {off.events} ELSE {}) /\ ~off.ctlError
      BY <1>1, <2>1 DEF InStep
    <3>3. /\ told.reg = IF CtlFails("DEL", off) THEN off.reg ELSE {}
          /\ told.ctlError <=> \/ off.ctlError
                               \/ CtlFails("DEL", off) /\ ~off.refused
      BY <1>1, <2>1, EpollCtlEffect
    <3> QED
      BY <3>1, <3>2, <3>3 DEF CtlFails
  <2>2. CASE off.index # 1
    BY <1>1, <2>2 DEF InStep
  <2> QED
    BY <2>1, <2>2
<1> PICK index \in {-1, 1, 2} : index = -1
  OBVIOUS
<1> DEFINE new == [told EXCEPT !.index = index]
<1>3. RemoveChannel(ch) = new
  BY DEF RemoveChannel
<1>4. /\ new \in ChannelType(Fds) /\ new.fd = ch.fd
      /\ new.index = -1 /\ new.events = {}
      /\ new.reg = {} /\ new.ctlError = told.ctlError
  <2>1. /\ new \in ChannelType(Fds) /\ new.fd = told.fd
        /\ new.index = index /\ new.events = told.events
        /\ new.reg = told.reg /\ new.ctlError = told.ctlError
    BY <1>2 DEF ChannelType
  <2> HIDE DEF new
  <2> QED
    BY <1>2, <2>1
<1> HIDE DEF new
<1>5. InStep(new)
  BY <1>2, <1>4 DEF InStep
<1> QED
  BY <1>3, <1>4, <1>5

-----------------------------------------------------------------------------
(* Lemmas about the operators.                                             *)

\* The lowest free descriptor is one of the free ones.
LEMMA MinIsElement ==
    ASSUME NEW S \in SUBSET Nat, S # {}
    PROVE  Min(S) \in S
<1> DEFINE less == OpToRel(<, Nat)
<1>1. PICK x \in S : \A y \in S : ~(<<y, x>> \in less)
  <2> HIDE DEF less
  <2> QED
    BY NatLessThanWellFounded, WFMin DEF less
<1>2. \A y \in S : x <= y
  <2>1. ASSUME NEW y \in S, ~(x <= y) PROVE FALSE
    <3>1. <<y, x>> \in less
      BY <2>1 DEF OpToRel
    <3> QED
      BY <1>1, <3>1
  <2> QED
    BY <2>1
<1> QED
  BY <1>2 DEF Min

\* Where v occurs in seq after its first lo elements, and how often.
Places(seq, lo, v) == {i \in lo + 1 .. Len(seq) : seq[i] = v}
Count(seq, lo, v)  == Cardinality(Places(seq, lo, v))

\* A count is of a finite set, so it is a number.
LEMMA CountedFinite ==
    ASSUME NEW T, NEW seq \in Seq(T), NEW lo \in Nat, NEW v
    PROVE  IsFiniteSet(Places(seq, lo, v)) /\ Count(seq, lo, v) \in Nat
<1>1. IsFiniteSet(lo + 1 .. Len(seq))
  <2>1. lo + 1 \in Int /\ Len(seq) \in Int
    OBVIOUS
  <2> QED
    BY <2>1, FS_Interval
<1>2. Places(seq, lo, v) \in SUBSET (lo + 1 .. Len(seq))
  BY DEF Places
<1>3. IsFiniteSet(Places(seq, lo, v))
  BY <1>1, <1>2, FS_Subset
<1> QED
  BY <1>3, FS_CardinalityType DEF Count

\* No occurrence counts as zero, and only that.
LEMMA CountZero ==
    ASSUME NEW T, NEW seq \in Seq(T), NEW lo \in Nat, NEW v
    PROVE  Count(seq, lo, v) = 0
             <=> \A i \in lo + 1 .. Len(seq) : seq[i] # v
<1>1. IsFiniteSet(Places(seq, lo, v))
  BY CountedFinite
<1>2. Count(seq, lo, v) = 0 <=> Places(seq, lo, v) = {}
  BY <1>1, FS_EmptySet DEF Count
<1> QED
  BY <1>2 DEF Places

\* Nothing occurs in the empty sequence.
LEMMA CountEmpty ==
    ASSUME NEW v
    PROVE  Count(<<>>, 0, v) = 0
<1>1. Places(<<>>, 0, v) = {}
  BY DEF Places
<1> QED
  BY <1>1, FS_EmptySet DEF Count

\* Appending adds one occurrence, of what is appended.
LEMMA CountAppend ==
    ASSUME NEW T, NEW seq \in Seq(T), NEW e \in T, NEW v
    PROVE  Count(Append(seq, e), 0, v)
             = Count(seq, 0, v) + (IF e = v THEN 1 ELSE 0)
<1> DEFINE W == Places(seq, 0, v)
           X == Places(Append(seq, e), 0, v)
<1>1. IsFiniteSet(W)
  BY CountedFinite
<1>2. Len(seq) + 1 \notin W
  BY DEF Places
<1>3. X = IF e = v THEN W \cup {Len(seq) + 1} ELSE W
  BY AppendProperties DEF Places
<1> QED
  BY <1>1, <1>2, <1>3, FS_AddElement, CountedFinite DEF Count

\* Running the next functor takes it out of the count.
LEMMA CountNext ==
    ASSUME NEW T, NEW seq \in Seq(T), NEW lo \in Nat, lo < Len(seq), NEW v
    PROVE  Count(seq, lo, v)
             = Count(seq, lo + 1, v) + (IF seq[lo + 1] = v THEN 1 ELSE 0)
<1> DEFINE W == Places(seq, lo + 1, v)
           X == Places(seq, lo, v)
<1>1. IsFiniteSet(W) /\ Count(seq, lo + 1, v) \in Nat
  <2>1. lo + 1 \in Nat
    OBVIOUS
  <2> QED
    BY <2>1, CountedFinite
<1>2. lo + 1 \notin W
  BY DEF Places
<1>3. X = IF seq[lo + 1] = v THEN W \cup {lo + 1} ELSE W
  <2>1. lo + 1 .. Len(seq) = {lo + 1} \cup ((lo + 1) + 1 .. Len(seq))
    OBVIOUS
  <2> QED
    BY <2>1 DEF Places
<1>4. Cardinality(W \cup {lo + 1}) = Cardinality(W) + 1
  <2> HIDE DEF W
  <2> QED
    BY <1>1, <1>2, FS_AddElement
<1> QED
  BY <1>1, <1>3, <1>4 DEF Count

-----------------------------------------------------------------------------
(* The inductive invariant that needs no assumption on the threads and the *)
(* callbacks: parts of it say what the objects, the handler in progress,   *)
(* the queues and the threads know of each other.                          *)

\* A connection the server lists exists, the kernel knows what each channel
\* asks for, and only listed connections are read.
ObjectsOK ==
    /\ connections_ \subseteq Live
    /\ \A c \in Live :
          /\ InStep(conn[c].ch)
          /\ \/ conn[c].ch.events \cap readEvent_ = {}
             \/ readEvent_ \subseteq conn[c].ch.events /\ c \in connections_

\* A reset with an urgent byte unread: nothing more comes from that peer, so
\* there is never data to read, and what is left of the report says whether the
\* error has been fetched.
Torn(k, evs) ==
    k.rx = "urgent" /\ k.peer = (IF "ERR" \in evs THEN "rst" ELSE "dead")

\* The handler that is to read has a listed connection, or one that it closed
\* itself because it was torn.
ReadingOK ==
    rev \cap readEvent_ # {} =>
        \/ cur \in connections_ /\ ("HUP" \in rev => Torn(conn[cur], rev))
        \/ /\ "HUP" \notin rev /\ "IN" \notin rev
           /\ cur \in Live => Torn(conn[cur], rev)

\* Input is only reported for a listed connection; a handler that is to read
\* does not close first, unless the connection is torn; a message callback runs
\* on a listed connection; and the acceptor's event means a client.
HandlingOK ==
    /\ \A c \in Conns : revents[c] \cap readEvent_ # {} =>
          /\ c \in connections_
          /\ "HUP" \in revents[c] /\ "IN" \notin revents[c]
                => Torn(conn[c], revents[c])
    /\ ReadingOK
    /\ calls # <<>> => cur \in connections_ /\ rev \cap readEvent_ = {}
    /\ "HUP" \in rev => "IN" \notin rev
    /\ cur # None => revents[cur] = {}
    /\ revents["acceptor"] # {} => backlog > 0
    /\ phase # "dispatch" =>
          /\ \A x \in Chans : revents[x] = {}
          /\ rev = {} /\ calls = <<>> /\ cur = None

\* What is to be destroyed exists and is no longer listed.
QueuesOK ==
    /\ \A c \in Conns : DestroyFunctors(c) # 0 => c \in Live
    /\ DestroyedAtMostOnce
    /\ phase # "functors" => tempFunctors = <<>>

\* A thread's shared_ptr keeps its connection alive.
WorkersOK ==
    \A w \in Workers :
        /\ worker[w].conn \in Live \cup {None}
        /\ worker[w].todo # "none" => worker[w].conn # None

LoopInv == TypeOK /\ ObjectsOK /\ HandlingOK /\ QueuesOK /\ WorkersOK

-----------------------------------------------------------------------------
(* Counting the functors.                                                  *)

Destroy(c)      == Functor("connectDestroyed", c)
PendingCount(c) == Count(pendingFunctors_, 0, Destroy(c))
RunCount(c)     == Count(tempFunctors, next, Destroy(c))

\* The two queues are counted separately.
LEMMA FunctorsCounted ==
    ASSUME TypeOK, NEW c
    PROVE  /\ DestroyFunctors(c) = PendingCount(c) + RunCount(c)
           /\ PendingCount(c) \in Nat /\ RunCount(c) \in Nat
<1>1. /\ pendingFunctors_ \in Seq(FunctorType)
      /\ tempFunctors \in Seq(FunctorType) /\ next \in Nat
  BY DEF TypeOK
<1>2. DOMAIN pendingFunctors_ = 0 + 1 .. Len(pendingFunctors_)
  BY <1>1
<1>3. PendingCount(c) \in Nat /\ RunCount(c) \in Nat
  BY <1>1, CountedFinite DEF PendingCount, RunCount
<1> QED
  BY <1>2, <1>3
     DEF DestroyFunctors, PendingCount, RunCount, Count, Places, Destroy

LEMMA FunctorsCountedNext ==
    ASSUME TypeOK', NEW c
    PROVE  /\ DestroyFunctors(c)' = PendingCount(c)' + RunCount(c)'
           /\ PendingCount(c)' \in Nat /\ RunCount(c)' \in Nat
<1>1. /\ pendingFunctors_' \in Seq(FunctorType)
      /\ tempFunctors' \in Seq(FunctorType) /\ next' \in Nat
  BY DEF TypeOK
<1>2. DOMAIN pendingFunctors_' = 0 + 1 .. Len(pendingFunctors_')
  BY <1>1
<1>3. PendingCount(c)' \in Nat /\ RunCount(c)' \in Nat
  BY <1>1, CountedFinite DEF PendingCount, RunCount
<1> QED
  BY <1>2, <1>3
     DEF DestroyFunctors, PendingCount, RunCount, Count, Places, Destroy

\* Queues left alone.
LEMMA SameQueues ==
    ASSUME UNCHANGED queues, NEW c
    PROVE  DestroyFunctors(c)' = DestroyFunctors(c)
BY DEF queues, DestroyFunctors

\* A functor queued: one more to destroy c if it is that one.
LEMMA QueuedOne ==
    ASSUME TypeOK, TypeOK', NEW f \in FunctorType, NEW c,
           pendingFunctors_' = Append(pendingFunctors_, f)
    PROVE  PendingCount(c)' =
                PendingCount(c) + (IF f = Destroy(c) THEN 1 ELSE 0)
<1>1. pendingFunctors_ \in Seq(FunctorType)
  BY DEF TypeOK
<1>2. Count(Append(pendingFunctors_, f), 0, Destroy(c))
        = PendingCount(c) + (IF f = Destroy(c) THEN 1 ELSE 0)
  BY <1>1, CountAppend DEF PendingCount
<1> QED
  BY <1>2 DEF PendingCount, Destroy, Functor

\* The next functor has run: one less if it was to destroy c.
LEMMA RanOne ==
    ASSUME TypeOK, next < Len(tempFunctors), NEW c,
           next' = next + 1, tempFunctors' = tempFunctors
    PROVE  RunCount(c) =
             RunCount(c)' + (IF tempFunctors[next + 1] = Destroy(c)
                             THEN 1 ELSE 0)
<1>1. tempFunctors \in Seq(FunctorType) /\ next \in Nat
  BY DEF TypeOK
<1>2. RunCount(c) =
        Count(tempFunctors, next + 1, Destroy(c))
          + (IF tempFunctors[next + 1] = Destroy(c) THEN 1 ELSE 0)
  BY <1>1, CountNext DEF RunCount
<1> QED
  BY <1>2 DEF RunCount, Destroy, Functor

\* With nothing left to run, nothing is counted.
LEMMA NoneLeft ==
    ASSUME TypeOK, next = Len(tempFunctors), NEW c
    PROVE  RunCount(c) = 0
<1>1. tempFunctors \in Seq(FunctorType) /\ next \in Nat
  BY DEF TypeOK
<1>2. next + 1 .. Len(tempFunctors) = {}
  BY <1>1
<1>3. \A i \in next + 1 .. Len(tempFunctors) : tempFunctors[i] # Destroy(c)
  BY <1>2
<1> QED
  BY <1>1, <1>3, CountZero DEF RunCount

-----------------------------------------------------------------------------
(* What the calls of the loop do to one connection.                        *)

\* Fields of a live connection.
LEMMA LiveTyped ==
    ASSUME TypeOK, NEW c \in Live
    PROVE  /\ c \in Conns /\ conn[c] \in ConnType /\ conn[c] # None
           /\ conn[c].ch \in ChannelType(Fds) /\ conn[c].ch.fd \in Fds
BY DEF Live, TypeOK, ConnType, ChannelType

\* A channel that asks for the input it asked for, or for none.
ReadsNoMore(new, old) ==
    new.events \cap readEvent_ \in {{}, old.events \cap readEvent_}

\* c is now k: a connection still in step with the kernel, on the same
\* descriptor, that is not read unless it was.
Becomes(c, k) ==
    /\ k \in ConnType /\ conn' = [conn EXCEPT ![c] = k]
    /\ InStep(k.ch) /\ k.ch.fd = conn[c].ch.fd
    /\ ReadsNoMore(k.ch, conn[c].ch)

\* The call keeps c where it is ...
Keeps(c) ==
    /\ \E k \in ConnType : Becomes(c, k)
    /\ ChannelMap_' \in [Fds -> Conns \cup {None}]
    /\ UNCHANGED <<connections_, pendingFunctors_>>

\* ... or closes it.
Closes(c) ==
    /\ c \in connections_
    /\ \E k \in ConnType : Becomes(c, k) /\ k.ch.events = {}
    /\ connections_' = connections_ \ {c}
    /\ pendingFunctors_' = Append(pendingFunctors_, Destroy(c))
    /\ UNCHANGED ChannelMap_

\* A call that does nothing, or ends the process, keeps c.
LEMMA NothingKeeps ==
    ASSUME TypeOK, ObjectsOK, NEW c \in Live, UNCHANGED objects,
           UNCHANGED pendingFunctors_
    PROVE  Keeps(c)
<1>1. conn[c] \in ConnType /\ InStep(conn[c].ch)
  BY LiveTyped DEF ObjectsOK
<1>2. conn' = [conn EXCEPT ![c] = conn[c]]
  BY DEF objects, TypeOK
<1> QED
  BY <1>1, <1>2 DEF Keeps, Becomes, ReadsNoMore, objects, TypeOK

\* So does one that changes something else than the channel.
LEMMA FieldKeeps ==
    ASSUME TypeOK, ObjectsOK, NEW c \in Live, NEW k \in ConnType,
           k.ch = conn[c].ch, conn' = [conn EXCEPT ![c] = k],
           UNCHANGED <<ChannelMap_, connections_, pendingFunctors_>>
    PROVE  Keeps(c)
<1>1. InStep(conn[c].ch)
  BY DEF ObjectsOK
<1> QED
  BY <1>1 DEF Keeps, Becomes, ReadsNoMore, TypeOK

\* Channel::update (Epoller.cc:60-87), whichever way it goes.
LEMMA UpdatedKeeps ==
    ASSUME TypeOK, ObjectsOK, NEW c \in Live, NEW k \in ConnType,
           InStep(k.ch), k.ch.fd = conn[c].ch.fd,
           ReadsNoMore(k.ch, conn[c].ch),
           Updated(c, k)
    PROVE  Keeps(c)
<1>1. CASE conn[c].ch.index = -1 /\ ChannelMap_[k.ch.fd] # None
  BY <1>1, NothingKeeps DEF Updated, Die
<1>2. CASE ~(conn[c].ch.index = -1 /\ ChannelMap_[k.ch.fd] # None)
  <2>1. /\ conn' = [conn EXCEPT ![c] = k]
        /\ ChannelMap_' = IF conn[c].ch.index = -1
                          THEN [ChannelMap_ EXCEPT ![k.ch.fd] = c]
                          ELSE ChannelMap_
        /\ UNCHANGED <<connections_, pendingFunctors_>>
    BY <1>2 DEF Updated
  <2>2. c \in Conns /\ k.ch.fd \in Fds
    BY LiveTyped
  <2> QED
    BY <2>1, <2>2 DEF Keeps, Becomes, TypeOK
<1> QED
  BY <1>1, <1>2

\* The channel of a live connection, its interest changed by one of the calls
\* that do not ask for input.
LEMMA ChannelCalls ==
    ASSUME TypeOK, ObjectsOK, NEW c \in Live,
           NEW new \in {EnableWriting(conn[c].ch), DisableWriting(conn[c].ch),
                        DisableAll(conn[c].ch)}
    PROVE  /\ new \in ChannelType(Fds) /\ InStep(new)
           /\ new.fd = conn[c].ch.fd
           /\ ReadsNoMore(new, conn[c].ch)
           /\ new = DisableAll(conn[c].ch) => new.events = {}
<1> DEFINE ch == conn[c].ch
<1>1. ch \in ChannelType(Fds) /\ InStep(ch) /\ ch.events \in SUBSET Interest
  BY LiveTyped DEF ObjectsOK, ChannelType
<1>2. PICK mask \in SUBSET Interest :
          /\ new = SetEvents(ch, mask)
          /\ mask \cap readEvent_ \in {{}, ch.events \cap readEvent_}
  <2>1. /\ ch.events \cup writeEvent_ \in SUBSET Interest
        /\ ch.events \ writeEvent_ \in SUBSET Interest
    BY <1>1 DEF Interest
  <2>2. /\ (ch.events \cup writeEvent_) \cap readEvent_
              = ch.events \cap readEvent_
        /\ (ch.events \ writeEvent_) \cap readEvent_
              = ch.events \cap readEvent_
    BY DEF readEvent_, writeEvent_
  <2> QED
    BY <2>1, <2>2 DEF EnableWriting, DisableWriting, DisableAll
<1>3. /\ new \in ChannelType(Fds) /\ InStep(new)
      /\ new.fd = ch.fd /\ new.events = mask
  BY <1>1, <1>2, SetEventsInStep
<1>4. new = DisableAll(ch) => new.events = {}
  BY <1>1, SetEventsInStep DEF DisableAll
<1> QED
  BY <1>2, <1>3, <1>4 DEF ReadsNoMore

\* TcpConnection::sendInLoop (TcpServer.cc:125-155).
LEMMA AppendOutputKeeps ==
    ASSUME TypeOK, ObjectsOK, NEW c \in Live, NEW k \in ConnType,
           k.ch = conn[c].ch, AppendOutput(c, k)
    PROVE  Keeps(c)
<1>1. CASE IsWriting(k.ch)
  <2>1. [k EXCEPT !.out = TRUE] \in ConnType
        /\ [k EXCEPT !.out = TRUE].ch = conn[c].ch
    BY DEF ConnType
  <2> QED
    BY <1>1, <2>1, FieldKeeps DEF AppendOutput
<1>2. CASE ~IsWriting(k.ch)
  <2> DEFINE new == EnableWriting(conn[c].ch)
             k2  == [k EXCEPT !.out = TRUE, !.ch = EnableWriting(@)]
  <2>1. /\ new \in ChannelType(Fds) /\ InStep(new)
        /\ new.fd = conn[c].ch.fd
        /\ ReadsNoMore(new, conn[c].ch)
    BY ChannelCalls
  <2>2. k2 \in ConnType /\ k2.ch = new
    <3> HIDE DEF new
    <3>1. k2 = [k EXCEPT !.out = TRUE, !.ch = new]
      BY DEF new
    <3> QED
      BY <2>1, <3>1 DEF ConnType
  <2>3. Updated(c, k2)
    BY <1>2 DEF AppendOutput
  <2> QED
    <3> HIDE DEF new, k2
    <3> QED
      BY <2>1, <2>2, <2>3, UpdatedKeeps
<1> QED
  BY <1>1, <1>2

LEMMA SendKeeps ==
    ASSUME TypeOK, ObjectsOK, NEW c \in Live, SendInLoop(c)
    PROVE  Keeps(c)
<1> DEFINE k == conn[c]
           dead == [k EXCEPT !.peer = "dead"]
<1>1. k \in ConnType
  BY LiveTyped
<1>2. dead \in ConnType /\ dead.ch = k.ch
  BY <1>1 DEF ConnType
<1>3. \/ AppendOutput(c, k)
      \/ AppendOutput(c, dead)
      \/ UNCHANGED <<objects, pendingFunctors_>>
  BY DEF SendInLoop, Die
<1> HIDE DEF dead
<1> QED
  BY <1>1, <1>2, <1>3, AppendOutputKeeps, NothingKeeps

\* TcpConnection::shutdownInLoop (TcpServer.cc:170-180).
LEMMA ShutdownKeeps ==
    ASSUME TypeOK, ObjectsOK, NEW c \in Live, ShutdownInLoop(c)
    PROVE  Keeps(c)
<1>1. conn[c] \in ConnType
  BY LiveTyped
<1>2. PICK b \in BOOLEAN : conn' = [conn EXCEPT ![c].shut = b]
  <2>1. conn[c].shut \in BOOLEAN
    BY <1>1 DEF ConnType
  <2> DEFINE b == conn[c].shut \/ (~IsWriting(conn[c].ch)
                                     /\ conn[c].peer \in {"open", "fin"})
  <2>2. b \in BOOLEAN /\ conn' = [conn EXCEPT ![c].shut = b]
    BY <2>1 DEF ShutdownInLoop
  <2> QED
    BY <2>2
<1>3. /\ [conn[c] EXCEPT !.shut = b] \in ConnType
      /\ [conn[c] EXCEPT !.shut = b].ch = conn[c].ch
  BY <1>1 DEF ConnType
<1> QED
  BY <1>2, <1>3, FieldKeeps DEF ShutdownInLoop

\* TcpConnection::handleWrite (TcpServer.cc:75-91).
LEMMA HandleWriteKeeps ==
    ASSUME TypeOK, ObjectsOK, NEW c \in Live, HandleWrite(c)
    PROVE  Keeps(c)
<1> DEFINE k == conn[c]
           dead == [k EXCEPT !.peer = "dead"]
           new == DisableWriting(k.ch)
           sent == [k EXCEPT !.out = FALSE, !.ch = DisableWriting(@)]
<1>1. k \in ConnType
  BY LiveTyped
<1>2. dead \in ConnType /\ dead.ch = k.ch
  BY <1>1 DEF ConnType
<1>3. \/ UNCHANGED <<objects, pendingFunctors_>>
      \/ /\ conn' = [conn EXCEPT ![c] = dead]
         /\ UNCHANGED <<ChannelMap_, connections_, pendingFunctors_>>
      \/ Updated(c, sent)
  BY DEF HandleWrite, Die
<1>4. /\ new \in ChannelType(Fds) /\ InStep(new) /\ new.fd = k.ch.fd
      /\ ReadsNoMore(new, k.ch)
  BY ChannelCalls
<1>5. sent \in ConnType /\ sent.ch = new
  <2> HIDE DEF new
  <2>1. sent = [k EXCEPT !.out = FALSE, !.ch = new]
    BY DEF new
  <2> QED
    BY <1>1, <1>4, <2>1 DEF ConnType
<1> HIDE DEF dead, sent, new
<1> QED
  BY <1>2, <1>3, <1>4, <1>5, NothingKeeps, FieldKeeps, UpdatedKeeps

\* TcpConnection::connectDestroyed and Epoller::removeChannel
\* (TcpServer.cc:48-55, Epoller.cc:89-104).
LEMMA ConnectDestroyedKeeps ==
    ASSUME TypeOK, ObjectsOK, NEW c \in Live, ConnectDestroyed(c)
    PROVE  Keeps(c)
<1> DEFINE k == conn[c]
           off == DisableAll(k.ch)
           new == RemoveChannel(off)
           gone == [k EXCEPT !.state = "Disconnected",
                             !.ch = RemoveChannel(DisableAll(@))]
<1>1. k \in ConnType /\ k.ch.fd \in Fds
  BY LiveTyped
<1>2. CASE UNCHANGED <<objects, pendingFunctors_>>
  BY <1>2, NothingKeeps
<1>3. CASE /\ conn' = [conn EXCEPT ![c] = gone]
           /\ ChannelMap_' = [ChannelMap_ EXCEPT ![conn[c].ch.fd] = None]
           /\ UNCHANGED <<connections_, pendingFunctors_>>
  <2>1. off \in ChannelType(Fds) /\ InStep(off) /\ off.fd = k.ch.fd
    BY ChannelCalls
  <2>2. /\ new \in ChannelType(Fds) /\ InStep(new)
        /\ new.fd = k.ch.fd /\ new.events = {}
    <3> HIDE DEF off
    <3> QED
      BY <2>1, RemoveChannelInStep
  <2>3. gone \in ConnType /\ gone.ch = new
    <3> HIDE DEF new
    <3>1. gone = [k EXCEPT !.state = "Disconnected", !.ch = new]
      BY DEF new
    <3> QED
      BY <1>1, <2>2, <3>1 DEF ConnType
  <2>4. ChannelMap_' \in [Fds -> Conns \cup {None}]
    BY <1>1, <1>3 DEF TypeOK
  <2> HIDE DEF gone, new
  <2> QED
    BY <1>3, <2>2, <2>3, <2>4 DEF Keeps, Becomes, ReadsNoMore
<1> QED
  BY <1>2, <1>3 DEF ConnectDestroyed, Die

\* TcpConnection::handleClose and TcpServer::removeConnection
\* (TcpServer.cc:93-100, 261-275).
LEMMA HandleCloseCloses ==
    ASSUME TypeOK, ObjectsOK, NEW c \in Live, HandleClose(c)
    PROVE  Keeps(c) \/ Closes(c)
<1> DEFINE k == conn[c]
           off == DisableAll(k.ch)
           shut == [k EXCEPT !.ch = DisableAll(@)]
<1>1. CASE UNCHANGED <<objects, pendingFunctors_>>
  BY <1>1, NothingKeeps
<1>2. CASE /\ c \in connections_
           /\ conn' = [conn EXCEPT ![c] = shut]
           /\ connections_' = connections_ \ {c}
           /\ pendingFunctors_' =
                  Append(pendingFunctors_, Functor("connectDestroyed", c))
           /\ UNCHANGED ChannelMap_
  <2>1. k \in ConnType
    BY LiveTyped
  <2>2. /\ off \in ChannelType(Fds) /\ InStep(off)
        /\ off.fd = k.ch.fd /\ off.events = {}
    BY ChannelCalls
  <2>3. shut \in ConnType /\ shut.ch = off
    <3> HIDE DEF off
    <3>1. shut = [k EXCEPT !.ch = off]
      BY DEF off
    <3> QED
      BY <2>1, <2>2, <3>1 DEF ConnType
  <2> HIDE DEF shut, off
  <2> QED
    BY <1>2, <2>2, <2>3 DEF Closes, Becomes, ReadsNoMore, Destroy
<1> QED
  BY <1>1, <1>2 DEF HandleClose, RemoveConnection, Die

\* It neither reads nor fetches an error.
LEMMA HandleCloseFields ==
    ASSUME TypeOK, NEW c \in Live, HandleClose(c)
    PROVE  conn'[c].rx = conn[c].rx /\ conn'[c].peer = conn[c].peer
<1>1. c \in Conns /\ conn[c] \in ConnType /\ conn \in [Conns -> ConnType \cup {None}]
  BY LiveTyped DEF TypeOK
<1>2. \/ conn' = conn
      \/ conn' = [conn EXCEPT ![c] = [conn[c] EXCEPT !.ch = DisableAll(@)]]
  BY DEF HandleClose, RemoveConnection, Die, objects
<1> DEFINE k == [conn[c] EXCEPT !.ch = DisableAll(@)]
<1>3. k.rx = conn[c].rx /\ k.peer = conn[c].peer
  BY <1>1 DEF ConnType
<1> HIDE DEF k
<1>4. conn' = conn \/ conn' = [conn EXCEPT ![c] = k]
  BY <1>2 DEF k
<1>5. conn'[c] = conn[c] \/ conn'[c] = k
  BY <1>1, <1>4
<1> QED
  BY <1>3, <1>5

\* TcpConnection::closeConnectionInLoop.
LEMMA CloseInLoopCloses ==
    ASSUME TypeOK, ObjectsOK, NEW c \in Live, CloseConnectionInLoop(c)
    PROVE  Keeps(c) \/ Closes(c)
BY NothingKeeps, HandleCloseCloses DEF CloseConnectionInLoop

\* The functors of a connection.
LEMMA FunctorCalls ==
    ASSUME TypeOK, ObjectsOK, NEW c \in Live,
           \/ ConnectDestroyed(c) \/ SendInLoop(c) \/ ShutdownInLoop(c)
           \/ CloseConnectionInLoop(c)
    PROVE  Keeps(c) \/ Closes(c)
BY ConnectDestroyedKeeps, SendKeeps, ShutdownKeeps, CloseInLoopCloses

-----------------------------------------------------------------------------
(* What is left of the invariant to show for each kind of step.            *)

\* Objects, after a call that kept c or closed it.
LEMMA ObjectsStep ==
    ASSUME TypeOK, ObjectsOK, NEW c \in Live, Keeps(c) \/ Closes(c)
    PROVE  /\ Live' = Live /\ ObjectsOK'
           /\ conn' \in [Conns -> ConnType \cup {None}]
           /\ ChannelMap_' \in [Fds -> Conns \cup {None}]
           /\ connections_' \subseteq Conns
<1>1. PICK k \in ConnType : /\ Becomes(c, k)
                            /\ Closes(c) => k.ch.events = {}
                            /\ Keeps(c) \/ (Closes(c) /\ k.ch.events = {})
  BY DEF Keeps, Closes
<1>2. c \in Conns /\ conn[c] # None /\ k # None
  BY LiveTyped, NoneIsNoConnection
<1>3. conn'[c] = k /\ \A d \in Conns \ {c} : conn'[d] = conn[d]
  BY <1>1, <1>2 DEF Becomes, TypeOK
<1>4. Live' = Live
  BY <1>2, <1>3 DEF Live
<1>5. conn' \in [Conns -> ConnType \cup {None}]
  BY <1>1 DEF Becomes, TypeOK
<1>6. connections_' = connections_ \/ (connections_' = connections_ \ {c}
                                         /\ k.ch.events = {})
  BY <1>1 DEF Keeps, Closes
<1>7. ObjectsOK'
  <2>1. connections_' \subseteq Live'
    BY <1>4, <1>6 DEF ObjectsOK
  <2>2. ASSUME NEW d \in Live'
        PROVE  /\ InStep(conn'[d].ch)
               /\ \/ conn'[d].ch.events \cap readEvent_ = {}
                  \/ /\ readEvent_ \subseteq conn'[d].ch.events
                     /\ d \in connections_'
    <3>1. CASE d = c
      <4>1. \/ conn[c].ch.events \cap readEvent_ = {}
            \/ readEvent_ \subseteq conn[c].ch.events /\ c \in connections_
        BY DEF ObjectsOK
      <4>2. InStep(k.ch) /\ k.ch.events \cap readEvent_
                               \in {{}, conn[c].ch.events \cap readEvent_}
        BY <1>1 DEF Becomes, ReadsNoMore
      <4>3. \/ k.ch.events \cap readEvent_ = {}
            \/ readEvent_ \subseteq k.ch.events /\ c \in connections_
        BY <4>1, <4>2
      <4> QED
        BY <1>3, <1>6, <3>1, <4>2, <4>3
    <3>2. CASE d # c
      <4>1. d \in Live /\ conn'[d] = conn[d]
        BY <1>3, <1>4, <2>2, <3>2 DEF Live
      <4> QED
        BY <1>6, <3>2, <4>1 DEF ObjectsOK
    <3> QED
      BY <3>1, <3>2
  <2> QED
    BY <2>1, <2>2 DEF ObjectsOK, InStep
<1> QED
  BY <1>4, <1>5, <1>6, <1>7 DEF Keeps, Closes, TypeOK

\* The queues, after such a call, made by a handler or by the next functor.
LEMMA QueuesStep ==
    ASSUME TypeOK, TypeOK', QueuesOK, NEW c \in Live, Live' = Live,
           Keeps(c) \/ Closes(c),
           phase' = phase, tempFunctors' = tempFunctors,
           next' = next \/ (next < Len(tempFunctors) /\ next' = next + 1)
    PROVE  QueuesOK'
<1>1. ASSUME NEW d \in Conns
      PROVE  /\ DestroyFunctors(d)' # 0 => d \in Live'
             /\ (IF d \in connections_' THEN 1 ELSE 0)
                    + DestroyFunctors(d)' <= 1
  <2> DEFINE listed == IF d \in connections_ THEN 1 ELSE 0
             gone   == IF Closes(c) /\ ~Keeps(c) /\ d = c THEN 1 ELSE 0
  <2>1. /\ DestroyFunctors(d) = PendingCount(d) + RunCount(d)
        /\ PendingCount(d) \in Nat /\ RunCount(d) \in Nat
        /\ DestroyFunctors(d)' = PendingCount(d)' + RunCount(d)'
        /\ PendingCount(d)' \in Nat /\ RunCount(d)' \in Nat
    BY FunctorsCounted, FunctorsCountedNext
  <2>2. RunCount(d)' <= RunCount(d)
    <3>1. CASE next' = next
      BY <2>1, <3>1 DEF RunCount
    <3>2. CASE next < Len(tempFunctors) /\ next' = next + 1
      BY <2>1, <3>2, RanOne
    <3> QED
      BY <3>1, <3>2
  <2>3. PendingCount(d)' = PendingCount(d) + gone
    <3>1. CASE Keeps(c)
      BY <2>1, <3>1 DEF Keeps, PendingCount
    <3>2. CASE Closes(c) /\ ~Keeps(c)
      <4>1. Destroy(c) \in FunctorType /\ (Destroy(c) = Destroy(d) <=> d = c)
        BY LiveTyped DEF Destroy, Functor, FunctorType
      <4> QED
        BY <3>2, <4>1, QueuedOne DEF Closes
    <3> QED
      BY <3>1, <3>2
  <2>4. (IF d \in connections_' THEN 1 ELSE 0) = listed - gone
    BY DEF Keeps, Closes
  <2>5. /\ DestroyFunctors(d) # 0 => d \in Live
        /\ listed + DestroyFunctors(d) <= 1
    BY DEF QueuesOK, DestroyedAtMostOnce
  <2>6. gone = 1 => d \in Live
    OBVIOUS
  <2>7. listed \in {0, 1} /\ gone \in {0, 1}
    OBVIOUS
  <2>8. DestroyFunctors(d)' <= DestroyFunctors(d) + gone
    <3> HIDE DEF listed, gone
    <3> QED
      BY <2>1, <2>2, <2>3, <2>7
  <2>9. DestroyFunctors(d)' # 0 => d \in Live'
    <3> HIDE DEF listed, gone
    <3> QED
      BY <2>1, <2>5, <2>6, <2>7, <2>8
  <2>10. (listed - gone) + DestroyFunctors(d)' <= 1
    <3> HIDE DEF listed, gone
    <3> QED
      BY <2>1, <2>5, <2>7, <2>8
  <2> QED
    BY <2>4, <2>9, <2>10
<1> QED
  BY <1>1 DEF QueuesOK, DestroyedAtMostOnce

\* A step of the handler in progress, or of a peer that has not reset: it calls
\* something that keeps a connection, or closes the one being handled and goes
\* on to nothing that reads what comes after the end.
LEMMA HandlerStep ==
    ASSUME LoopInv, NEW c \in Live,
           UNCHANGED <<phase, epollEvents_, revents, cur, tempFunctors, next,
                       others>>,
           \/ Keeps(c) /\ (c = cur \/ conn[c].peer \in {"open", "fin"})
           \/ Closes(c) /\ c = cur /\ calls' = <<>>,
           ReadingOK', rev' \subseteq rev, calls' \in Seq(CallNames),
           calls' # <<>> => /\ cur \in connections_
                            /\ rev' \cap readEvent_ = {},
           phase = "dispatch" \/ UNCHANGED <<rev, calls>>
    PROVE  LoopInv' /\ Live' = Live
<1>1. TypeOK /\ ObjectsOK /\ HandlingOK /\ QueuesOK /\ WorkersOK
  BY DEF LoopInv
<1>2. Keeps(c) \/ Closes(c)
  OBVIOUS
<1>3. /\ Live' = Live /\ ObjectsOK'
      /\ conn' \in [Conns -> ConnType \cup {None}]
      /\ ChannelMap_' \in [Fds -> Conns \cup {None}]
      /\ connections_' \subseteq Conns
  BY <1>1, <1>2, ObjectsStep
<1>4. c \in Conns
  BY <1>1, LiveTyped
<1>5. pendingFunctors_' \in Seq(FunctorType)
  <2>1. Destroy(c) \in FunctorType
    BY <1>4 DEF Destroy, Functor, FunctorType
  <2>2. pendingFunctors_ \in Seq(FunctorType)
    BY <1>1 DEF TypeOK
  <2>3. \/ pendingFunctors_' = pendingFunctors_
        \/ pendingFunctors_' = Append(pendingFunctors_, Destroy(c))
    BY <1>2 DEF Keeps, Closes
  <2> QED
    BY <2>1, <2>2, <2>3
<1>6. TypeOK'
  BY <1>1, <1>3, <1>5 DEF TypeOK, others
<1>7. HandlingOK'
  <2>1. \A d \in Conns \ {c} : conn'[d] = conn[d]
    BY <1>1, <1>2, <1>4 DEF Keeps, Closes, Becomes, TypeOK
  <2>2. ASSUME NEW d \in Conns, revents'[d] \cap readEvent_ # {}
        PROVE  /\ d \in connections_'
               /\ "HUP" \in revents'[d] /\ "IN" \notin revents'[d]
                     => Torn(conn'[d], revents'[d])
    <3>1. /\ d \in connections_ /\ revents' = revents
          /\ "HUP" \in revents[d] /\ "IN" \notin revents[d]
                => Torn(conn[d], revents[d])
      BY <1>1, <2>2 DEF HandlingOK
    <3>2. d # cur
      BY <1>1, <2>2, <3>1, ConstantsTyped DEF HandlingOK
    <3>3. CASE d = c
      BY <3>1, <3>2, <3>3 DEF Keeps, Torn
    <3>4. CASE d # c
      BY <1>2, <2>1, <3>1, <3>4 DEF Keeps, Closes
    <3> QED
      BY <3>3, <3>4
  <2>3. calls' # <<>> => cur' \in connections_' /\ rev' \cap readEvent_ = {}
    BY DEF Keeps
  <2> QED
    BY <1>1, <2>2, <2>3 DEF HandlingOK, others
<1>8. QueuesOK'
  BY <1>1, <1>2, <1>3, <1>6, QueuesStep
<1>9. WorkersOK'
  BY <1>1, <1>3 DEF WorkersOK, others
<1> QED
  BY <1>3, <1>6, <1>7, <1>8, <1>9 DEF LoopInv

-----------------------------------------------------------------------------
(* Every action preserves the invariant.                                   *)

LEMMA LoopInit == Init => LoopInv
<1> SUFFICES ASSUME Init PROVE LoopInv
  OBVIOUS
<1>1. Live = {}
  BY DEF Init, Live
<1>2. TypeOK
  <2>1. /\ pendingFunctors_ \in Seq(FunctorType)
        /\ tempFunctors \in Seq(FunctorType) /\ Len(tempFunctors) = 0
        /\ calls \in Seq(CallNames)
    BY DEF Init
  <2>2. /\ revents \in [Chans -> SUBSET PollFlags]
        /\ conn \in [Conns -> ConnType \cup {None}]
        /\ ChannelMap_ \in [Fds -> Conns \cup {None}]
    BY DEF Init
  <2>3. worker \in [Workers -> [conn : Conns \cup {None},
                                 todo : Ops \cup WorkerOps \cup {"none"}]]
    BY DEF Init
  <2>4. /\ phase \in {"poll", "dispatch", "functors"}
        /\ cur \in Conns \cup {None} /\ listenning_ \in BOOLEAN
        /\ rev \subseteq PollFlags
        /\ connections_ \subseteq Conns /\ next = 0
    BY DEF Init
  <2>5. epollEvents_ \in Nat \ {0} /\ backlog \in 0 .. MaxBacklog
    <3>1. epollEvents_ = InitEvents /\ backlog = 0
      BY DEF Init
    <3> QED
      BY <3>1, ConstantsTyped
  <2> QED
    BY <2>1, <2>2, <2>3, <2>4, <2>5 DEF TypeOK
<1>3. \A c : DestroyFunctors(c) = 0
  <2> TAKE c
  <2>1. PendingCount(c) = 0 /\ RunCount(c) = 0
    <3>1. pendingFunctors_ = <<>> /\ tempFunctors = <<>> /\ next = 0
      BY DEF Init
    <3> QED
      BY <3>1, CountEmpty DEF PendingCount, RunCount
  <2> QED
    BY <1>2, <2>1, FunctorsCounted
<1>4. ObjectsOK /\ HandlingOK /\ WorkersOK
  BY <1>1 DEF Init, ObjectsOK, HandlingOK, ReadingOK, WorkersOK, Chans
<1>5. QueuesOK
  BY <1>3 DEF Init, QueuesOK, DestroyedAtMostOnce
<1> QED
  BY <1>2, <1>4, <1>5 DEF LoopInv

\* Steps that touch neither the loop nor its objects.
LEMMA OutsideStep ==
    ASSUME LoopInv, UNCHANGED <<sched, objects, queues, worker>>,
           listenning_' \in BOOLEAN, backlog' \in backlog .. MaxBacklog
    PROVE  LoopInv'
<1>1. Live' = Live
  BY DEF Live, objects
<1>2. TypeOK'
  BY DEF LoopInv, TypeOK, sched, objects, queues
<1>3. ObjectsOK' /\ WorkersOK'
  BY <1>1 DEF LoopInv, ObjectsOK, WorkersOK, InStep, sched, objects, queues
<1>6. HandlingOK'
  <2>1. backlog > 0 => backlog' > 0
    BY DEF LoopInv, TypeOK
  <2> QED
    BY <1>1, <2>1 DEF LoopInv, HandlingOK, ReadingOK, Torn, sched, objects
<1>4. \A c : DestroyFunctors(c)' = DestroyFunctors(c)
  BY SameQueues DEF queues
<1>5. QueuesOK'
  BY <1>1, <1>4 DEF LoopInv, QueuesOK, DestroyedAtMostOnce, sched, objects,
                    queues
<1> QED
  BY <1>2, <1>3, <1>5, <1>6 DEF LoopInv

\* What a peer does to its connection keeps it.
LEMMA PeerActsStep ==
    ASSUME LoopInv, NEW c \in Conns, PeerActs(c)
    PROVE  LoopInv' /\ Live' = Live
<1>1. c \in Live /\ conn[c] \in ConnType
  BY LiveTyped DEF PeerActs, LoopInv
<1>2. PICK k \in {[conn[c] EXCEPT !.rx = "data"], [conn[c] EXCEPT !.rx = "urgent"],
                  [conn[c] EXCEPT !.peer = "fin"], [conn[c] EXCEPT !.peer = "rst"]} :
          conn' = [conn EXCEPT ![c] = k]
  BY DEF PeerActs
<1>3. k \in ConnType /\ k.ch = conn[c].ch
  BY <1>1, <1>2 DEF ConnType
<1>4. Keeps(c)
  BY <1>1, <1>2, <1>3, FieldKeeps DEF PeerActs, LoopInv, queues
<1>5. /\ calls \in Seq(CallNames)
      /\ calls # <<>> => cur \in connections_ /\ rev \cap readEvent_ = {}
      /\ ReadingOK
  BY DEF LoopInv, TypeOK, HandlingOK
<1>6. conn[c].peer \in {"open", "fin"}
  BY DEF PeerActs
<1>7. ReadingOK'
  <2>1. UNCHANGED <<cur, rev, connections_>>
    BY DEF PeerActs, sched
  <2>2. CASE cur = c
    <3>1. \A evs : ~Torn(conn[c], evs)
      BY <1>6 DEF Torn
    <3> QED
      BY <1>1, <1>5, <2>1, <2>2, <3>1 DEF ReadingOK
  <2>3. CASE cur # c
    <3>1. cur \in Conns => conn'[cur] = conn[cur]
      BY <1>2, <2>3 DEF LoopInv, TypeOK
    <3>2. cur \in Live' => cur \in Live
      BY <2>1, <3>1 DEF Live
    <3>3. connections_ \subseteq Conns
      BY DEF LoopInv, TypeOK
    <3>4. cur \in Live' => cur \in Conns
      BY <2>1 DEF Live
    <3> QED
      BY <1>5, <2>1, <3>1, <3>2, <3>3, <3>4 DEF ReadingOK
  <2> QED
    BY <2>2, <2>3
<1> QED
  BY <1>1, <1>4, <1>5, <1>6, <1>7, HandlerStep DEF PeerActs, sched, queues

\* poll reports input only where the kernel was asked for it.
LEMMA PollStep ==
    ASSUME LoopInv, PollReturns
    PROVE  LoopInv'
<1>1. PICK rep \in [Watched -> UNION {Reports(c) : c \in Watched}],
           got \in SUBSET (Watched \cup {x \in {"acceptor"} : backlog > 0}) :
          /\ \A c \in Watched : rep[c] \in Reports(c)
          /\ epollEvents_' = Grow(Cardinality(got))
          /\ revents' = [x \in Chans |->
                IF x \notin got THEN {}
                ELSE IF x = "acceptor" THEN {"IN"} ELSE rep[x]]
  BY DEF PollReturns
<1>2. /\ phase = "poll" /\ phase' = "dispatch"
      /\ UNCHANGED <<cur, rev, calls, objects, queues, others, fault>>
  BY DEF PollReturns
<1>3. Live' = Live
  BY <1>2 DEF Live, objects
<1>4. ASSUME NEW c \in Watched
      PROVE  /\ rep[c] \subseteq PollFlags
             /\ rep[c] \cap readEvent_ # {} =>
                  /\ c \in connections_
                  /\ "HUP" \in rep[c] /\ "IN" \notin rep[c]
                        => Torn(conn[c], rep[c])
  <2> DEFINE k == conn[c]
             mask == (UNION k.ch.reg) \cup {"ERR", "HUP"}
             gone == k.peer \in {"rst", "dead"}
  <2>1. PICK m \in SUBSET PollFlags :
            /\ rep[c] = m \cap mask
            /\ k.rx = "data" \/ k.peer \in {"fin", "dead"} => "IN" \in m
            /\ "PRI" \in m <=> k.rx = "urgent"
            /\ "ERR" \in m <=> k.peer = "rst"
            /\ "HUP" \in m <=> gone \/ (k.shut /\ k.peer = "fin")
    BY <1>1 DEF Reports
  <2>2. c \in Live /\ InStep(k.ch) /\ k \in ConnType
    BY LiveTyped DEF Watched, LoopInv, ObjectsOK
  <2>3. /\ UNION k.ch.reg \subseteq k.ch.events
        /\ UNION k.ch.reg # {} => UNION k.ch.reg = k.ch.events
    <3>1. k.ch.reg = {} \/ k.ch.reg = {k.ch.events}
      BY <2>2 DEF InStep
    <3> QED
      BY <3>1
  <2>4. ASSUME rep[c] \cap readEvent_ # {}
        PROVE  c \in connections_ /\ "IN" \in mask
    <3>1. (UNION k.ch.reg) \cap readEvent_ # {}
      BY <2>1, <2>4 DEF readEvent_
    <3>2. \/ k.ch.events \cap readEvent_ = {}
          \/ readEvent_ \subseteq k.ch.events /\ c \in connections_
      BY <2>2 DEF LoopInv, ObjectsOK
    <3> QED
      BY <2>3, <3>1, <3>2 DEF readEvent_
  <2>5. ASSUME rep[c] \cap readEvent_ # {}, "HUP" \in rep[c], "IN" \notin rep[c]
        PROVE  Torn(k, rep[c])
    <3>1. "IN" \notin m /\ "PRI" \in m /\ "HUP" \in m
      BY <2>1, <2>4, <2>5 DEF readEvent_
    <3>2. k.rx = "urgent" /\ k.peer = "rst"
      BY <2>1, <3>1
    <3>3. "ERR" \in rep[c]
      BY <2>1, <3>2
    <3> QED
      BY <3>2, <3>3 DEF Torn
  <2>6. rep[c] \subseteq PollFlags
    BY <2>1
  <2> QED
    BY <2>4, <2>5, <2>6
<1>5. revents' \in [Chans -> SUBSET PollFlags]
  <2>1. {"IN"} \in SUBSET PollFlags
    BY DEF PollFlags
  <2> QED
    BY <1>1, <1>4, <2>1
<1>6. ASSUME NEW c \in Conns, revents'[c] \cap readEvent_ # {}
      PROVE  /\ c \in connections_
             /\ "HUP" \in revents'[c] /\ "IN" \notin revents'[c]
                   => Torn(conn[c], revents'[c])
  <2>1. c # "acceptor" /\ c \in Chans
    BY ConstantsTyped DEF Chans
  <2>2. c \in Watched /\ revents'[c] = rep[c]
    BY <1>1, <1>6, <2>1
  <2> QED
    BY <1>4, <1>6, <2>2
<1>7. epollEvents_' \in Nat \ {0}
  <2>1. epollEvents_ \in Nat \ {0}
    BY DEF LoopInv, TypeOK
  <2> QED
    BY <1>1, <2>1 DEF Grow
<1>8. TypeOK'
  BY <1>2, <1>5, <1>7 DEF LoopInv, TypeOK, objects, queues, others
<1>9. ObjectsOK' /\ WorkersOK'
  BY <1>2, <1>3 DEF LoopInv, ObjectsOK, WorkersOK, InStep, objects, others
<1>10. HandlingOK'
  <2>1. rev = {} /\ calls = <<>> /\ cur = None
    BY <1>2 DEF LoopInv, HandlingOK
  <2>2. revents'["acceptor"] # {} => backlog > 0
    <3>1. "acceptor" \in Chans /\ "acceptor" \notin Watched
      BY ConstantsTyped DEF Chans, Watched, Live
    <3> QED
      BY <1>1, <3>1
  <2> QED
    BY <1>2, <1>6, <2>1, <2>2 DEF HandlingOK, ReadingOK, Torn, objects, others
<1>11. QueuesOK'
  <2>1. \A c : DestroyFunctors(c)' = DestroyFunctors(c)
    BY <1>2, SameQueues
  <2> QED
    BY <1>2, <1>3, <2>1 DEF LoopInv, QueuesOK, DestroyedAtMostOnce, objects,
                            queues
<1> QED
  BY <1>8, <1>9, <1>10, <1>11 DEF LoopInv

\* Channel::handler begins.
LEMMA HandlerBeginsStep ==
    ASSUME LoopInv, NEW c \in Conns, HandlerBegins(c)
    PROVE  LoopInv'
<1>1. /\ phase = "dispatch" /\ c \in Live /\ calls = <<>>
      /\ cur' = c /\ revents' = [revents EXCEPT ![c] = {}]
      /\ rev' = IF "IN" \in revents[c] THEN revents[c] \ {"HUP"}
                                       ELSE revents[c]
      /\ UNCHANGED <<phase, epollEvents_, calls, objects, queues, others>>
  BY DEF HandlerBegins, BetweenHandlers
<1>2. Live' = Live
  BY <1>1 DEF Live, objects
<1>3. c \in Chans /\ revents[c] \subseteq PollFlags
  BY DEF Chans, LoopInv, TypeOK
<1>4. /\ revents'[c] = {} /\ \A x \in Chans \ {c} : revents'[x] = revents[x]
      /\ revents' \in [Chans -> SUBSET PollFlags]
  BY <1>1, <1>3 DEF LoopInv, TypeOK
<1>5. TypeOK'
  BY <1>1, <1>3, <1>4 DEF LoopInv, TypeOK, objects, queues, others
<1>6. ObjectsOK' /\ WorkersOK'
  BY <1>1, <1>2 DEF LoopInv, ObjectsOK, WorkersOK, InStep, objects, others
<1>7. HandlingOK'
  <2>1. HandlingOK
    BY DEF LoopInv
  <2>2. /\ conn' = conn /\ connections_' = connections_
        /\ calls' = <<>>
    BY <1>1 DEF objects
  <2>3. ASSUME NEW d \in Conns, revents'[d] \cap readEvent_ # {}
        PROVE  /\ d \in connections_'
               /\ "HUP" \in revents'[d] /\ "IN" \notin revents'[d]
                     => Torn(conn'[d], revents'[d])
    <3>1. revents'[d] = revents[d]
      BY <1>4, <2>3 DEF Chans
    <3> QED
      BY <2>1, <2>2, <2>3, <3>1 DEF HandlingOK
  <2>4. "HUP" \in rev' => "IN" \notin rev'
    BY <1>1
  <2>5. ReadingOK'
    <3>1. ASSUME rev' \cap readEvent_ # {}
          PROVE  /\ c \in connections_
                 /\ "HUP" \in rev' => Torn(conn[c], rev')
      <4>1. revents[c] \cap readEvent_ # {}
        BY <1>1, <3>1
      <4>2. /\ c \in connections_
            /\ "HUP" \in revents[c] /\ "IN" \notin revents[c]
                  => Torn(conn[c], revents[c])
        BY <2>1, <4>1 DEF HandlingOK
      <4>3. "HUP" \in rev' => rev' = revents[c] /\ "IN" \notin revents[c]
        BY <1>1
      <4> QED
        BY <4>2, <4>3
    <3> QED
      BY <1>1, <2>2, <3>1 DEF ReadingOK
  <2>6. revents'["acceptor"] # {} => backlog > 0
    BY <1>4, ConstantsTyped DEF LoopInv, HandlingOK, Chans
  <2> QED
    BY <1>1, <1>4, <2>2, <2>3, <2>4, <2>5, <2>6 DEF HandlingOK, others
<1>8. QueuesOK'
  <2>1. \A d : DestroyFunctors(d)' = DestroyFunctors(d)
    BY <1>1, SameQueues
  <2> QED
    BY <1>1, <1>2, <2>1 DEF LoopInv, QueuesOK, DestroyedAtMostOnce, objects,
                            queues
<1> QED
  BY <1>5, <1>6, <1>7, <1>8 DEF LoopInv

\* A listed connection is read, and watched for POLLOUT while it has output.
Listed(k) ==
    /\ k.state = "Connected" /\ k.ch.index = 1
    /\ k.ch.events = readEvent_ \cup (IF k.out THEN writeEvent_ ELSE {})

\* connectEstablished (TcpServer.cc:39-46) leaves a connection to be listed,
\* whether or not the kernel has room for it.
LEMMA EstablishedListed ==
    ASSUME NEW fd \in Fds, NEW room \in BOOLEAN
    PROVE  LET k == ConnectEstablished(NewConn(fd, room))
           IN  /\ k \in ConnType /\ InStep(k.ch) /\ k.ch.fd = fd
               /\ Listed(k) /\ readEvent_ \subseteq k.ch.events
<1> PICK new : new = NewConn(fd, room)
  OBVIOUS
<1>1. new \in ConnType /\ new.ch = NewChannel(fd, room) /\ new.out = FALSE
  BY NewChannelInStep DEF NewConn, ConnType
<1>2. /\ new.ch \in ChannelType(Fds) /\ InStep(new.ch)
      /\ new.ch.fd = fd /\ new.ch.events = {} /\ new.ch.index = -1
  BY <1>1, NewChannelInStep
<1> PICK ch : ch = EnableReading(new.ch)
  OBVIOUS
<1>3. /\ ch \in ChannelType(Fds) /\ InStep(ch)
      /\ ch.fd = fd /\ ch.events = readEvent_ /\ ch.index = 1
  <2>1. readEvent_ \in SUBSET Interest /\ readEvent_ # {}
    BY DEF Interest, readEvent_
  <2>2. ch = SetEvents(new.ch, readEvent_)
    BY <1>2 DEF EnableReading
  <2> QED
    BY <1>2, <2>1, <2>2, SetEventsInStep
<1> DEFINE k == [new EXCEPT !.state = "Connected", !.ch = ch]
<1>4. ConnectEstablished(NewConn(fd, room)) = k
  BY DEF ConnectEstablished
<1>5. k \in ConnType /\ k.ch = ch /\ k.state = "Connected" /\ k.out = FALSE
  BY <1>1, <1>3 DEF ConnType
<1> HIDE DEF k
<1> QED
  BY <1>3, <1>4, <1>5 DEF Listed

\* Accepting: the new object was not in use, so nothing knows it yet.
LEMMA AcceptStep ==
    ASSUME LoopInv, AcceptorReads
    PROVE  LoopInv' /\ Live \subseteq Live'
<1>1. /\ phase = "dispatch" /\ rev = {} /\ calls = <<>>
      /\ revents' = [revents EXCEPT !["acceptor"] = {}]
      /\ UNCHANGED <<phase, epollEvents_, cur, rev, calls, queues, listenning_,
                     worker>>
      /\ revents["acceptor"] # {}
  BY DEF AcceptorReads, BetweenHandlers
<1>2. TypeOK /\ ObjectsOK /\ HandlingOK /\ QueuesOK /\ WorkersOK
  BY DEF LoopInv
<1>3. /\ \A x \in Conns : revents'[x] = revents[x]
      /\ revents'["acceptor"] = {}
      /\ revents' \in [Chans -> SUBSET PollFlags]
  BY <1>1, <1>2, ConstantsTyped DEF TypeOK, Chans
<1>4. backlog' \in 0 .. MaxBacklog
  <2>1. backlog' = backlog \/ backlog' = backlog - 1
    BY DEF AcceptorReads
  <2>2. backlog > 0 /\ backlog \in 0 .. MaxBacklog
    BY <1>1, <1>2 DEF HandlingOK, TypeOK
  <2> QED
    BY <2>1, <2>2, ConstantsTyped
<1>5. CASE UNCHANGED objects
  <2>1. Live' = Live
    BY <1>5 DEF Live, objects
  <2>2. TypeOK'
    BY <1>1, <1>2, <1>3, <1>4, <1>5 DEF TypeOK, objects, queues
  <2>3. ObjectsOK' /\ HandlingOK' /\ WorkersOK'
    BY <1>1, <1>2, <1>3, <1>5, <2>1, ConstantsTyped
       DEF ObjectsOK, HandlingOK, ReadingOK, Torn, WorkersOK, InStep, objects,
           TypeOK
  <2>4. \A d : DestroyFunctors(d)' = DestroyFunctors(d)
    BY <1>1, SameQueues
  <2>5. QueuesOK'
    BY <1>1, <1>2, <1>5, <2>1, <2>4
       DEF QueuesOK, DestroyedAtMostOnce, objects, queues
  <2> QED
    BY <2>1, <2>2, <2>3, <2>5 DEF LoopInv
<1>6. ASSUME NEW c \in Conns \ Live, NEW fd \in Fds, NEW room \in BOOLEAN,
             conn' = [conn EXCEPT ![c] = ConnectEstablished(NewConn(fd, room))],
             ChannelMap_' = [ChannelMap_ EXCEPT ![fd] = c],
             connections_' = connections_ \cup {c}
      PROVE  LoopInv' /\ Live \subseteq Live'
  <2> DEFINE k == ConnectEstablished(NewConn(fd, room))
  <2>1. /\ k \in ConnType /\ InStep(k.ch)
        /\ readEvent_ \subseteq k.ch.events
    BY EstablishedListed DEF Listed
  <2> HIDE DEF k
  <2>4. k # None
    BY <2>1, NoneIsNoConnection
  <2>5. conn' = [conn EXCEPT ![c] = k]
    BY <1>6 DEF k
  <2>6. conn'[c] = k /\ \A d \in Conns \ {c} : conn'[d] = conn[d]
    BY <1>2, <2>5 DEF TypeOK
  <2>7. Live' = Live \cup {c}
    BY <2>4, <2>6 DEF Live
  <2>8. TypeOK'
    <3>1. conn' \in [Conns -> ConnType \cup {None}]
      <4>1. conn \in [Conns -> ConnType \cup {None}]
        BY <1>2 DEF TypeOK
      <4> QED
        BY <2>1, <2>5, <4>1
    <3>2. ChannelMap_' \in [Fds -> Conns \cup {None}]
      BY <1>2, <1>6 DEF TypeOK
    <3>3. connections_' \subseteq Conns
      BY <1>2, <1>6 DEF TypeOK
    <3> QED
      BY <1>1, <1>2, <1>3, <1>4, <1>6, <3>1, <3>2, <3>3 DEF TypeOK, queues
  <2>9. ObjectsOK'
    <3>1. connections_' \subseteq Live'
      BY <1>2, <1>6, <2>7 DEF ObjectsOK
    <3>2. /\ InStep(conn'[c].ch) /\ c \in connections_'
          /\ readEvent_ \subseteq conn'[c].ch.events
      BY <1>6, <2>1, <2>6
    <3>3. ASSUME NEW d \in Live, d # c
          PROVE  /\ conn'[d] = conn[d] /\ InStep(conn[d].ch)
                 /\ \/ conn[d].ch.events \cap readEvent_ = {}
                    \/ /\ readEvent_ \subseteq conn[d].ch.events
                       /\ d \in connections_'
      BY <1>2, <1>6, <2>6, <3>3 DEF ObjectsOK, Live
    <3>4. ASSUME NEW d \in Live'
          PROVE  /\ InStep(conn'[d].ch)
                 /\ \/ conn'[d].ch.events \cap readEvent_ = {}
                    \/ /\ readEvent_ \subseteq conn'[d].ch.events
                       /\ d \in connections_'
      BY <2>7, <3>2, <3>3, <3>4
    <3> QED
      BY <3>1, <3>4 DEF ObjectsOK, InStep
  <2>10. HandlingOK' /\ WorkersOK'
    <3>1. ASSUME NEW d \in Conns, revents'[d] \cap readEvent_ # {}
          PROVE  /\ d \in connections_'
                 /\ "HUP" \in revents'[d] /\ "IN" \notin revents'[d]
                       => Torn(conn'[d], revents'[d])
      <4>1. /\ d \in connections_ /\ revents'[d] = revents[d]
            /\ "HUP" \in revents[d] /\ "IN" \notin revents[d]
                  => Torn(conn[d], revents[d])
        BY <1>2, <1>3, <3>1 DEF HandlingOK
      <4>2. conn'[d] = conn[d]
        BY <1>2, <2>6, <4>1 DEF ObjectsOK
      <4> QED
        BY <1>6, <4>1, <4>2
    <3>2. ReadingOK' /\ rev' = {} /\ calls' = <<>>
      BY <1>1 DEF ReadingOK
    <3>3. /\ cur' # None => revents'[cur'] = {}
          /\ revents'["acceptor"] = {} /\ phase' = "dispatch"
      BY <1>1, <1>2, <1>3 DEF HandlingOK, TypeOK
    <3>4. HandlingOK'
      BY <3>1, <3>2, <3>3 DEF HandlingOK
    <3>5. WorkersOK'
      BY <1>1, <1>2, <2>7 DEF WorkersOK
    <3> QED
      BY <3>4, <3>5
  <2>11. \A d : DestroyFunctors(d)' = DestroyFunctors(d)
    BY <1>1, SameQueues
  <2>12. DestroyFunctors(c) = 0
    BY <1>2, <1>6 DEF QueuesOK
  <2>13. QueuesOK'
    BY <1>1, <1>2, <1>6, <2>7, <2>11, <2>12
       DEF QueuesOK, DestroyedAtMostOnce, queues
  <2> QED
    BY <2>7, <2>8, <2>9, <2>10, <2>13 DEF LoopInv
<1>7. CASE FreeFds # {} /\ ~UNCHANGED objects
  <2>1. PICK c \in Conns \ Live : NewConnection(c, Min(FreeFds))
    BY <1>7 DEF AcceptorReads
  <2>2. Min(FreeFds) \in Fds
    <3>1. FreeFds \in SUBSET Nat /\ FreeFds \subseteq Fds
      BY ConstantsTyped DEF FreeFds
    <3> QED
      BY <1>7, <3>1, MinIsElement
  <2>3. PICK room \in BOOLEAN :
            conn' = [conn EXCEPT ![c] =
                         ConnectEstablished(NewConn(Min(FreeFds), room))]
    BY <1>7, <2>1 DEF NewConnection
  <2>4. /\ ChannelMap_' = [ChannelMap_ EXCEPT ![Min(FreeFds)] = c]
        /\ connections_' = connections_ \cup {c}
    BY <1>7, <2>1 DEF NewConnection
  <2> QED
    BY <1>6, <2>2, <2>3, <2>4
<1> QED
  BY <1>5, <1>7 DEF AcceptorReads

\* closeCallback_.
LEMMA OnHupStep ==
    ASSUME LoopInv, OnHup
    PROVE  LoopInv' /\ Live' = Live
<1>1. /\ phase = "dispatch" /\ calls = <<>> /\ cur \in Live /\ "HUP" \in rev
      /\ rev' = rev \ {"HUP"} /\ HandleClose(cur)
      /\ UNCHANGED <<phase, epollEvents_, revents, cur, calls, tempFunctors,
                     next, others>>
  BY DEF OnHup, Callback, InHandler
<1>2. TypeOK /\ ObjectsOK /\ HandlingOK
  BY DEF LoopInv
<1>3. Keeps(cur) \/ Closes(cur)
  BY <1>1, <1>2, HandleCloseCloses
<1>4. "IN" \notin rev' /\ rev' \subseteq rev
  BY <1>1, <1>2 DEF HandlingOK
<1>5. /\ calls' = <<>>
      /\ calls' \in Seq(CallNames)
  BY <1>1
<1>6. ReadingOK'
  <2>1. ASSUME rev' \cap readEvent_ # {}
        PROVE  Torn(conn'[cur], rev')
    <3>1. Torn(conn[cur], rev)
      BY <1>1, <1>2, <2>1 DEF HandlingOK, ReadingOK
    <3>2. conn'[cur].rx = conn[cur].rx /\ conn'[cur].peer = conn[cur].peer
      BY <1>1, <1>2, HandleCloseFields
    <3>3. "ERR" \in rev' <=> "ERR" \in rev
      BY <1>1
    <3> QED
      BY <3>1, <3>2, <3>3 DEF Torn
  <2>2. "HUP" \notin rev' /\ cur' = cur
    BY <1>1
  <2> QED
    BY <1>4, <2>1, <2>2 DEF ReadingOK
<1> QED
  BY <1>1, <1>3, <1>4, <1>5, <1>6, HandlerStep

\* errorCallback_.
LEMMA OnErrorStep ==
    ASSUME LoopInv, OnError
    PROVE  LoopInv' /\ Live' = Live
<1> DEFINE k == conn[cur]
           told == [k EXCEPT !.peer = IF @ = "rst" THEN "dead" ELSE @]
<1>1. /\ phase = "dispatch" /\ calls = <<>> /\ cur \in Live
      /\ "HUP" \notin rev /\ "ERR" \in rev
      /\ rev' = rev \ {"ERR"} /\ conn' = [conn EXCEPT ![cur] = told]
      /\ UNCHANGED <<phase, epollEvents_, revents, cur, calls, tempFunctors,
                     next, others>>
      /\ UNCHANGED <<ChannelMap_, connections_, pendingFunctors_>>
  BY DEF OnError, Callback, InHandler, queues
<1>2. TypeOK /\ ObjectsOK
  BY DEF LoopInv
<1>3. k \in ConnType
  BY <1>1, <1>2, LiveTyped
<1>4. told \in ConnType /\ told.ch = k.ch
  BY <1>3 DEF ConnType
<1>5. Keeps(cur)
  <2> HIDE DEF told
  <2> QED
    BY <1>1, <1>2, <1>4, FieldKeeps
<1>6. /\ calls' = <<>> /\ rev' \subseteq rev
      /\ calls' \in Seq(CallNames)
  BY <1>1
<1>7. ReadingOK'
  <2>1. conn'[cur] = told
    BY <1>1, <1>2, LiveTyped DEF TypeOK
  <2>2. Torn(k, rev) => Torn(told, rev')
    BY <1>1, <1>3 DEF Torn, ConnType
  <2>3. ASSUME rev' \cap readEvent_ # {}
        PROVE  \/ cur \in connections_
               \/ "IN" \notin rev /\ Torn(k, rev)
    <3>1. rev \cap readEvent_ # {} /\ ReadingOK
      BY <1>1, <2>3 DEF LoopInv, HandlingOK
    <3> QED
      BY <1>1, <3>1 DEF ReadingOK
  <2> HIDE DEF told
  <2> QED
    BY <1>1, <2>1, <2>2, <2>3 DEF ReadingOK
<1> QED
  BY <1>1, <1>5, <1>6, <1>7, HandlerStep

\* readCallback_: what it calls next is for a listed connection.
LEMMA OnReadStep ==
    ASSUME LoopInv, OnRead
    PROVE  LoopInv' /\ Live' = Live
<1> DEFINE k == conn[cur]
           read == [k EXCEPT !.rx = "none"]
           told == [k EXCEPT !.rx = "none",
                             !.peer = IF @ = "rst" THEN "dead" ELSE @]
<1>1. /\ phase = "dispatch" /\ calls = <<>> /\ cur \in Live
      /\ rev \cap readEvent_ # {} /\ "HUP" \notin rev
      /\ rev' = rev \ readEvent_
      /\ UNCHANGED <<phase, epollEvents_, revents, cur, tempFunctors, next,
                     others>>
  BY DEF OnRead, Callback, InHandler
<1>2. TypeOK /\ ObjectsOK /\ ReadingOK
  BY DEF LoopInv, HandlingOK
<1>3. k \in ConnType
  BY <1>1, <1>2, LiveTyped
<1>4. /\ read \in ConnType /\ read.ch = k.ch
      /\ told \in ConnType /\ told.ch = k.ch
  BY <1>3 DEF ConnType
<1>5. rev' \subseteq rev /\ rev' \cap readEvent_ = {} /\ ReadingOK'
  BY <1>1 DEF ReadingOK
<1> HIDE DEF read, told
<1>6. CASE /\ k.rx = "data"
           /\ conn' = [conn EXCEPT ![cur] = read] /\ calls' \in Callbacks
           /\ UNCHANGED <<ChannelMap_, connections_, pendingFunctors_>>
  <2>1. Keeps(cur)
    BY <1>1, <1>2, <1>4, <1>6, FieldKeeps
  <2>2. calls' \in Seq(CallNames)
    BY <1>6, ConstantsTyped
  <2>3. cur \in connections_
    BY <1>1, <1>2, <1>6 DEF ReadingOK, Torn
  <2> QED
    BY <1>1, <1>5, <2>1, <2>2, <2>3, HandlerStep
<1>7. CASE HandleClose(cur) /\ UNCHANGED calls
  <2>1. Keeps(cur) \/ Closes(cur)
    BY <1>1, <1>2, <1>7, HandleCloseCloses
  <2>2. /\ calls' = <<>>
        /\ calls' \in Seq(CallNames)
    BY <1>1, <1>7
  <2> QED
    BY <1>1, <1>5, <2>1, <2>2, HandlerStep
<1>8. CASE /\ conn' = [conn EXCEPT ![cur] = told] /\ UNCHANGED calls
           /\ UNCHANGED <<ChannelMap_, connections_, pendingFunctors_>>
  <2>1. Keeps(cur)
    BY <1>1, <1>2, <1>4, <1>8, FieldKeeps
  <2>2. /\ calls' = <<>>
        /\ calls' \in Seq(CallNames)
    BY <1>1, <1>8
  <2> QED
    BY <1>1, <1>5, <2>1, <2>2, HandlerStep
<1>9. \/ /\ k.rx = "data"
         /\ conn' = [conn EXCEPT ![cur] = read] /\ calls' \in Callbacks
         /\ UNCHANGED <<ChannelMap_, connections_, pendingFunctors_>>
      \/ HandleClose(cur) /\ UNCHANGED calls
      \/ /\ conn' = [conn EXCEPT ![cur] = told] /\ UNCHANGED calls
         /\ UNCHANGED <<ChannelMap_, connections_, pendingFunctors_>>
  BY DEF OnRead, read, told
<1> QED
  BY <1>6, <1>7, <1>8, <1>9

\* writeCallback_.
LEMMA OnWriteStep ==
    ASSUME LoopInv, OnWrite
    PROVE  LoopInv' /\ Live' = Live
<1>1. /\ phase = "dispatch" /\ calls = <<>> /\ cur \in Live
      /\ rev \cap readEvent_ = {}
      /\ rev' = rev \ writeEvent_ /\ HandleWrite(cur)
      /\ UNCHANGED <<phase, epollEvents_, revents, cur, calls, tempFunctors,
                     next, others>>
  BY DEF OnWrite, Callback, InHandler
<1>2. Keeps(cur)
  BY <1>1, HandleWriteKeeps DEF LoopInv
<1>3. /\ calls' = <<>> /\ rev' \subseteq rev
      /\ calls' \in Seq(CallNames)
  BY <1>1
<1>4. ReadingOK'
  BY <1>1, <1>3 DEF ReadingOK
<1> QED
  BY <1>1, <1>2, <1>3, <1>4, HandlerStep

\* closeConnection() sets the state and nothing else (TcpServer.cc:182-189).
LEMMA CloseConnectionObjects ==
    ASSUME TypeOK, ObjectsOK, NEW c \in Live, CloseConnection(c)
    PROVE  /\ Live' = Live /\ ObjectsOK'
           /\ conn' \in [Conns -> ConnType \cup {None}]
           /\ UNCHANGED <<ChannelMap_, connections_>>
           /\ \A d \in Live : /\ conn'[d].rx = conn[d].rx
                              /\ conn'[d].peer = conn[d].peer
<1> DEFINE k == [conn[c] EXCEPT !.state = "Disconnetcing"]
<1>1. conn[c] \in ConnType /\ c \in Conns
  BY LiveTyped
<1>2. /\ k \in ConnType /\ k.ch = conn[c].ch /\ k # None
      /\ k.rx = conn[c].rx /\ k.peer = conn[c].peer
  BY <1>1, NoneIsNoConnection DEF ConnType
<1>3. /\ conn' = [conn EXCEPT ![c] = k]
      /\ UNCHANGED <<ChannelMap_, connections_>>
  BY DEF CloseConnection
<1> HIDE DEF k
<1>4. conn'[c] = k /\ \A d \in Conns \ {c} : conn'[d] = conn[d]
  BY <1>1, <1>3 DEF TypeOK
<1>5. Live' = Live
  BY <1>1, <1>2, <1>4 DEF Live
<1>6. conn' \in [Conns -> ConnType \cup {None}]
  BY <1>2, <1>3 DEF TypeOK
<1>7. \A d \in Live : /\ conn'[d].ch = conn[d].ch /\ conn'[d].rx = conn[d].rx
                      /\ conn'[d].peer = conn[d].peer
  BY <1>2, <1>4 DEF Live
<1>8. ObjectsOK'
  BY <1>3, <1>5, <1>7 DEF ObjectsOK, InStep
<1> QED
  BY <1>3, <1>5, <1>6, <1>7, <1>8

\* What has been read and said of each connection is what the handlers go by.
LEMMA SameReading ==
    ASSUME ObjectsOK, HandlingOK, UNCHANGED <<connections_, revents, cur, rev>>,
           \A d \in connections_ \cup (Live' \cap {cur}) :
               d \in Live => /\ conn'[d].rx = conn[d].rx
                            /\ conn'[d].peer = conn[d].peer,
           Live' \subseteq Live
    PROVE  /\ ReadingOK'
           /\ \A c \in Conns : revents'[c] \cap readEvent_ # {} =>
                 /\ c \in connections_'
                 /\ "HUP" \in revents'[c] /\ "IN" \notin revents'[c]
                       => Torn(conn'[c], revents'[c])
<1>1. \A d \in connections_ : \A evs : Torn(conn[d], evs) => Torn(conn'[d], evs)
  BY DEF ObjectsOK, Torn
<1>2. cur \in Live' => \A evs : Torn(conn[cur], evs) => Torn(conn'[cur], evs)
  BY DEF Torn
<1> QED
  BY <1>1, <1>2 DEF HandlingOK, ReadingOK

\* A functor that destroys nothing is not counted.
LEMMA QueuedOther ==
    ASSUME TypeOK, TypeOK', NEW f \in FunctorType, f.op # "connectDestroyed",
           pendingFunctors_' = Append(pendingFunctors_, f),
           UNCHANGED <<tempFunctors, next>>, NEW c
    PROVE  DestroyFunctors(c)' = DestroyFunctors(c)
<1>1. f # Destroy(c)
  BY DEF Destroy, Functor
<1>2. PendingCount(c) \in Nat /\ PendingCount(c)' = PendingCount(c)
  BY <1>1, QueuedOne, FunctorsCounted
<1>3. RunCount(c)' = RunCount(c)
  BY DEF RunCount
<1> QED
  BY <1>2, <1>3, FunctorsCounted, FunctorsCountedNext

\* The message callback's next call.
LEMMA CallStep ==
    ASSUME LoopInv, Call
    PROVE  LoopInv' /\ Live' = Live
<1>1. /\ phase = "dispatch" /\ calls # <<>> /\ calls' = Tail(calls)
      /\ UNCHANGED <<phase, epollEvents_, revents, cur, rev, tempFunctors,
                     next, others>>
  BY DEF Call
<1>2. TypeOK /\ ObjectsOK /\ HandlingOK /\ QueuesOK /\ WorkersOK
  BY DEF LoopInv
<1>3. cur \in connections_ /\ cur \in Live
  BY <1>1, <1>2 DEF HandlingOK, ObjectsOK
<1>4. calls' \in Seq(CallNames)
  BY <1>1, <1>2 DEF TypeOK
<1>5. CASE \/ SendInLoop(cur) \/ ShutdownInLoop(cur)
           \/ UNCHANGED <<objects, pendingFunctors_>>
  <2>1. Keeps(cur)
    BY <1>2, <1>3, <1>5, SendKeeps, ShutdownKeeps, NothingKeeps
  <2>2. rev' \cap readEvent_ = {} /\ ReadingOK'
    BY <1>1, <1>2 DEF HandlingOK, ReadingOK
  <2> QED
    BY <1>1, <1>3, <1>4, <2>1, <2>2, HandlerStep
<1>6. CASE /\ CloseConnection(cur)
           /\ pendingFunctors_' =
                 Append(pendingFunctors_, Functor("closeConnectionInLoop", cur))
  <2> DEFINE f == Functor("closeConnectionInLoop", cur)
  <2>1. f \in FunctorType /\ f.op # "connectDestroyed"
    BY <1>2, <1>3, LiveTyped DEF Functor, FunctorType, Ops
  <2>2. /\ Live' = Live /\ ObjectsOK'
        /\ conn' \in [Conns -> ConnType \cup {None}]
        /\ UNCHANGED <<ChannelMap_, connections_>>
        /\ \A d \in Live : /\ conn'[d].rx = conn[d].rx
                           /\ conn'[d].peer = conn[d].peer
    BY <1>2, <1>3, <1>6, CloseConnectionObjects
  <2> HIDE DEF f
  <2>3. pendingFunctors_' = Append(pendingFunctors_, f)
    BY <1>6 DEF f
  <2>4. pendingFunctors_' \in Seq(FunctorType)
    <3>1. pendingFunctors_ \in Seq(FunctorType)
      BY <1>2 DEF TypeOK
    <3> QED
      BY <2>1, <2>3, <3>1
  <2>5. TypeOK'
    BY <1>1, <1>2, <1>4, <2>2, <2>4 DEF TypeOK, others
  <2>6. \A d : DestroyFunctors(d)' = DestroyFunctors(d)
    BY <1>1, <1>2, <2>1, <2>3, <2>5, QueuedOther
  <2>7. QueuesOK'
    BY <1>1, <1>2, <2>2, <2>6 DEF QueuesOK, DestroyedAtMostOnce
  <2>8. /\ ReadingOK'
        /\ \A c \in Conns : revents'[c] \cap readEvent_ # {} =>
              /\ c \in connections_'
              /\ "HUP" \in revents'[c] /\ "IN" \notin revents'[c]
                    => Torn(conn'[c], revents'[c])
    BY <1>1, <1>2, <2>2, SameReading
  <2>9. HandlingOK' /\ WorkersOK'
    BY <1>1, <1>2, <1>3, <2>2, <2>8 DEF HandlingOK, WorkersOK, others
  <2> QED
    BY <2>2, <2>5, <2>7, <2>9 DEF LoopInv
<1> QED
  BY <1>5, <1>6 DEF Call

\* Swapping the queues takes no functor out of the count.
LEMMA SwappedAll ==
    ASSUME TypeOK, TypeOK', QueuesOK, SwapFunctors, NEW d
    PROVE  DestroyFunctors(d)' = DestroyFunctors(d)
<1>1. /\ phase = "dispatch"
      /\ tempFunctors' = pendingFunctors_ /\ pendingFunctors_' = <<>>
      /\ next' = 0
  BY DEF SwapFunctors, BetweenHandlers
<1>2. tempFunctors = <<>> /\ next = 0
  BY <1>1 DEF QueuesOK, TypeOK
<1>3. RunCount(d) = 0 /\ PendingCount(d)' = 0
  BY <1>1, <1>2, CountEmpty DEF RunCount, PendingCount
<1>4. RunCount(d)' = PendingCount(d)
  BY <1>1 DEF RunCount, PendingCount, Destroy, Functor
<1> QED
  BY <1>3, <1>4, FunctorsCounted, FunctorsCountedNext

\* The functors are taken, in the loop's turn between handlers.
LEMMA SwapStep ==
    ASSUME LoopInv, SwapFunctors
    PROVE  LoopInv'
<1>1. /\ phase = "dispatch" /\ rev = {} /\ calls = <<>>
      /\ \A x \in Chans : revents[x] = {}
      /\ phase' = "functors" /\ cur' = None
      /\ tempFunctors' = pendingFunctors_ /\ pendingFunctors_' = <<>>
      /\ next' = 0
      /\ UNCHANGED <<epollEvents_, revents, rev, calls, objects, others>>
  BY DEF SwapFunctors, BetweenHandlers
<1>2. TypeOK /\ ObjectsOK /\ HandlingOK /\ QueuesOK /\ WorkersOK
  BY DEF LoopInv
<1>3. Live' = Live
  BY <1>1 DEF Live, objects
<1>4. TypeOK'
  <2>1. pendingFunctors_ \in Seq(FunctorType) /\ <<>> \in Seq(FunctorType)
    BY <1>2 DEF TypeOK
  <2>2. next' \in 0 .. Len(tempFunctors')
    BY <1>1, <2>1
  <2> QED
    BY <1>1, <1>2, <2>1, <2>2 DEF TypeOK, objects, others
<1>5. \A d : DestroyFunctors(d)' = DestroyFunctors(d)
  BY <1>2, <1>4, SwappedAll
<1>6. QueuesOK'
  BY <1>1, <1>2, <1>3, <1>5 DEF QueuesOK, DestroyedAtMostOnce, objects
<1>7. ObjectsOK' /\ HandlingOK' /\ WorkersOK'
  BY <1>1, <1>2, <1>3
     DEF ObjectsOK, HandlingOK, ReadingOK, WorkersOK, InStep, objects, others
<1> QED
  BY <1>4, <1>6, <1>7 DEF LoopInv

\* The next functor, on a connection that may be gone.
LEMMA RunStep ==
    ASSUME LoopInv, RunFunctor
    PROVE  LoopInv' /\ Live' = Live
<1> DEFINE f == tempFunctors[next + 1]
<1>1. /\ phase = "functors" /\ next < Len(tempFunctors) /\ next' = next + 1
      /\ UNCHANGED <<sched, tempFunctors, others>>
  BY DEF RunFunctor
<1>2. TypeOK /\ ObjectsOK /\ HandlingOK /\ QueuesOK /\ WorkersOK
  BY DEF LoopInv
<1>3. next' \in 0 .. Len(tempFunctors) /\ f \in FunctorType
  BY <1>1, <1>2 DEF TypeOK
<1>4. /\ \A x \in Chans : revents[x] = {}
      /\ rev = {} /\ calls = <<>> /\ cur = None
  BY <1>1, <1>2 DEF HandlingOK
<1>5. HandlingOK'
  BY <1>1, <1>2, <1>4 DEF HandlingOK, ReadingOK, sched, others, Chans
<1>6. CASE f.conn \notin Live
  <2>1. UNCHANGED objects /\ UNCHANGED pendingFunctors_
    BY <1>6 DEF RunFunctor, Die
  <2>2. Live' = Live
    BY <2>1 DEF Live, objects
  <2>3. TypeOK'
    BY <1>1, <1>2, <1>3, <2>1 DEF TypeOK, sched, objects, others
  <2>4. ASSUME NEW d
        PROVE  /\ DestroyFunctors(d)' <= DestroyFunctors(d)
               /\ DestroyFunctors(d) \in Nat /\ DestroyFunctors(d)' \in Nat
    <3>1. PendingCount(d)' = PendingCount(d)
      BY <2>1 DEF PendingCount
    <3> QED
      BY <1>1, <1>2, <2>3, <3>1, RanOne, FunctorsCounted, FunctorsCountedNext
  <2>5. ASSUME NEW d \in Conns
        PROVE  /\ DestroyFunctors(d)' # 0 => d \in Live'
               /\ (IF d \in connections_' THEN 1 ELSE 0)
                    + DestroyFunctors(d)' <= 1
    <3>1. /\ DestroyFunctors(d) # 0 => d \in Live
          /\ (IF d \in connections_ THEN 1 ELSE 0) + DestroyFunctors(d) <= 1
      BY <1>2 DEF QueuesOK, DestroyedAtMostOnce
    <3> QED
      BY <2>1, <2>2, <2>4, <3>1 DEF objects
  <2>6. QueuesOK'
    BY <1>1, <1>2, <2>5 DEF QueuesOK, DestroyedAtMostOnce, sched
  <2>7. ObjectsOK' /\ WorkersOK'
    BY <1>1, <1>2, <2>1, <2>2 DEF ObjectsOK, WorkersOK, InStep, objects, others
  <2> QED
    BY <1>5, <2>2, <2>3, <2>6, <2>7 DEF LoopInv
<1>7. CASE f.conn \in Live
  <2> DEFINE c == f.conn
  <2>1. \/ ConnectDestroyed(c) \/ SendInLoop(c) \/ ShutdownInLoop(c)
        \/ CloseConnectionInLoop(c)
    BY <1>7 DEF RunFunctor
  <2> HIDE DEF c
  <2>2. c \in Live
    BY <1>7 DEF c
  <2>3. Keeps(c) \/ Closes(c)
    BY <1>2, <2>1, <2>2, FunctorCalls
  <2>4. /\ Live' = Live /\ ObjectsOK'
        /\ conn' \in [Conns -> ConnType \cup {None}]
        /\ ChannelMap_' \in [Fds -> Conns \cup {None}]
        /\ connections_' \subseteq Conns
    BY <1>2, <2>2, <2>3, ObjectsStep
  <2>5. pendingFunctors_' \in Seq(FunctorType)
    <3>1. Destroy(c) \in FunctorType
      BY <1>2, <2>2, LiveTyped DEF Destroy, Functor, FunctorType
    <3>2. pendingFunctors_ \in Seq(FunctorType)
      BY <1>2 DEF TypeOK
    <3>3. \/ pendingFunctors_' = pendingFunctors_
          \/ pendingFunctors_' = Append(pendingFunctors_, Destroy(c))
      BY <2>3 DEF Keeps, Closes
    <3> QED
      BY <3>1, <3>2, <3>3
  <2>6. TypeOK'
    BY <1>1, <1>2, <1>3, <2>4, <2>5 DEF TypeOK, sched, others
  <2>7. QueuesOK'
    BY <1>1, <1>2, <2>2, <2>3, <2>4, <2>6, QueuesStep DEF sched
  <2>8. WorkersOK'
    BY <1>1, <1>2, <2>4 DEF WorkersOK, others
  <2> QED
    BY <1>5, <2>4, <2>6, <2>7, <2>8 DEF LoopInv
<1> QED
  BY <1>6, <1>7

\* What is freed had no owner left among those counted.
LEMMA FreeStep ==
    ASSUME TypeOK, ObjectsOK, NEW functors, NEW workers,
           FreeUnowned(connections_, functors, workers),
           UNCHANGED <<ChannelMap_, connections_>>
    PROVE  /\ conn' \in [Conns -> ConnType \cup {None}]
           /\ \A c \in Live :
                 c \in Live' <=> \/ c \in connections_
                                 \/ Destroy(c) \in functors
                                 \/ \E w \in Workers : workers[w].conn = c
           /\ \A c \in Live' : c \in Live /\ conn'[c] = conn[c]
           /\ ObjectsOK'
<1> DEFINE owned(c) == \/ c \in connections_
                       \/ Destroy(c) \in functors
                       \/ \E w \in Workers : workers[w].conn = c
<1>1. conn' = [c \in Conns |-> IF owned(c) THEN conn[c] ELSE None]
  BY DEF FreeUnowned, Destroy
<1> HIDE DEF owned
<1>2. conn' \in [Conns -> ConnType \cup {None}]
  BY <1>1 DEF TypeOK
<1>3. \A c \in Live : c \in Live' <=> owned(c)
  BY <1>1 DEF Live
<1>4. \A c \in Live' : c \in Live /\ conn'[c] = conn[c]
  BY <1>1 DEF Live
<1>5. \A c \in connections_ : owned(c)
  BY DEF owned
<1>6. ObjectsOK'
  BY <1>3, <1>4, <1>5 DEF ObjectsOK, InStep
<1> QED
  BY <1>2, <1>3, <1>4, <1>6 DEF owned

\* A functor that is counted is in its queue.
LEMMA CountedIsQueued ==
    ASSUME TypeOK, NEW c
    PROVE  /\ PendingCount(c) # 0 =>
                 \E i \in DOMAIN pendingFunctors_ :
                     pendingFunctors_[i] = Destroy(c)
           /\ RunCount(c) # 0 =>
                 \E i \in DOMAIN tempFunctors : tempFunctors[i] = Destroy(c)
<1>1. /\ pendingFunctors_ \in Seq(FunctorType)
      /\ tempFunctors \in Seq(FunctorType) /\ next \in Nat
  BY DEF TypeOK
<1>2. PendingCount(c) # 0 =>
        \E i \in 0 + 1 .. Len(pendingFunctors_) :
            pendingFunctors_[i] = Destroy(c)
  <2>1. \A n \in Nat : Count(pendingFunctors_, n, Destroy(c)) # 0 =>
            \E i \in n + 1 .. Len(pendingFunctors_) :
                pendingFunctors_[i] = Destroy(c)
    BY <1>1, CountZero
  <2> QED
    BY <2>1 DEF PendingCount
<1>3. RunCount(c) # 0 =>
        \E i \in next + 1 .. Len(tempFunctors) : tempFunctors[i] = Destroy(c)
  BY <1>1, CountZero DEF RunCount
<1> QED
  BY <1>1, <1>2, <1>3

\* The functors are destroyed with whatever only they owned.
LEMMA EndStep ==
    ASSUME LoopInv, EndFunctors
    PROVE  LoopInv'
<1> DEFINE waiting == {pendingFunctors_[i] : i \in DOMAIN pendingFunctors_}
<1>1. /\ phase = "functors" /\ next = Len(tempFunctors) /\ phase' = "poll"
      /\ tempFunctors' = <<>> /\ next' = 0
      /\ FreeUnowned(connections_, waiting, worker)
      /\ UNCHANGED <<epollEvents_, revents, cur, rev, calls, ChannelMap_,
                     connections_, pendingFunctors_, others>>
  BY DEF EndFunctors
<1>2. TypeOK /\ ObjectsOK /\ HandlingOK /\ QueuesOK /\ WorkersOK
  BY DEF LoopInv
<1>3. /\ conn' \in [Conns -> ConnType \cup {None}]
      /\ \A c \in Live :
            c \in Live' <=> \/ c \in connections_
                            \/ Destroy(c) \in waiting
                            \/ \E w \in Workers : worker[w].conn = c
      /\ ObjectsOK'
  <2> HIDE DEF waiting
  <2> QED
    BY <1>1, <1>2, FreeStep
<1>4. TypeOK'
  <2>1. <<>> \in Seq(FunctorType) /\ Len(<<>>) = 0
    OBVIOUS
  <2>2. tempFunctors' \in Seq(FunctorType) /\ next' \in 0 .. Len(tempFunctors')
    BY <1>1, <2>1
  <2> QED
    BY <1>1, <1>2, <1>3, <2>2 DEF TypeOK, others
<1>5. ASSUME NEW d
      PROVE  /\ DestroyFunctors(d)' = DestroyFunctors(d)
             /\ DestroyFunctors(d) = PendingCount(d)
  <2>1. RunCount(d) = 0 /\ RunCount(d)' = 0
    BY <1>1, <1>2, NoneLeft, CountEmpty DEF RunCount
  <2>2. PendingCount(d)' = PendingCount(d)
    BY <1>1 DEF PendingCount
  <2> QED
    BY <1>2, <1>4, <2>1, <2>2, FunctorsCounted, FunctorsCountedNext
<1>6. QueuesOK'
  <2>1. ASSUME NEW d \in Conns, DestroyFunctors(d)' # 0
        PROVE  d \in Live'
    <3>1. d \in Live /\ PendingCount(d) # 0
      BY <1>2, <1>5, <2>1 DEF QueuesOK
    <3>2. Destroy(d) \in waiting
      BY <1>2, <3>1, CountedIsQueued
    <3> HIDE DEF waiting
    <3> QED
      BY <1>3, <3>1, <3>2
  <2> QED
    BY <1>1, <1>2, <1>5, <2>1 DEF QueuesOK, DestroyedAtMostOnce
<1>7. WorkersOK'
  BY <1>1, <1>2, <1>3 DEF WorkersOK, others
<1>8. HandlingOK'
  BY <1>1, <1>2 DEF HandlingOK, ReadingOK, others, Chans
<1> QED
  BY <1>3, <1>4, <1>6, <1>7, <1>8 DEF LoopInv

\* A thread is given a connection, while its callback runs.
LEMMA WorkerTakesStep ==
    ASSUME LoopInv, NEW w \in Workers, WorkerTakes(w)
    PROVE  LoopInv'
<1>1. /\ calls # <<>> /\ worker' = [worker EXCEPT ![w].conn = cur]
      /\ worker[w].conn = None
      /\ UNCHANGED <<sched, objects, queues, listenning_, backlog>>
  BY DEF WorkerTakes
<1>2. TypeOK /\ ObjectsOK /\ HandlingOK /\ QueuesOK /\ WorkersOK
  BY DEF LoopInv
<1>3. cur \in Live /\ cur \in Conns
  BY <1>1, <1>2 DEF HandlingOK, ObjectsOK, Live
<1>4. Live' = Live
  BY <1>1 DEF Live, objects
<1>5. worker' \in [Workers -> [conn : Conns \cup {None},
                               todo : Ops \cup WorkerOps \cup {"none"}]]
  <2>1. worker \in [Workers -> [conn : Conns \cup {None},
                                todo : Ops \cup WorkerOps \cup {"none"}]]
    BY <1>2 DEF TypeOK
  <2> QED
    BY <1>1, <1>3, <2>1
<1>6. TypeOK'
  BY <1>1, <1>2, <1>5 DEF TypeOK, sched, objects, queues
<1>7. WorkersOK'
  <2>1. worker[w].todo = "none"
    BY <1>1, <1>2 DEF WorkersOK
  <2>2. /\ worker'[w].conn = cur /\ worker'[w].todo = worker[w].todo
        /\ \A x \in Workers \ {w} : worker'[x] = worker[x]
    BY <1>1, <1>2 DEF TypeOK
  <2> QED
    BY <1>2, <1>3, <1>4, <2>1, <2>2 DEF WorkersOK
<1>8. ObjectsOK' /\ HandlingOK'
  BY <1>1, <1>2, <1>4
     DEF ObjectsOK, HandlingOK, ReadingOK, Torn, InStep, sched, objects
<1>9. QueuesOK'
  <2>1. \A d : DestroyFunctors(d)' = DestroyFunctors(d)
    BY <1>1, SameQueues
  <2> QED
    BY <1>1, <1>2, <1>4, <2>1
       DEF QueuesOK, DestroyedAtMostOnce, sched, objects, queues
<1> QED
  BY <1>6, <1>7, <1>8, <1>9 DEF LoopInv

\* It calls send, shutdown or closeConnection ...
LEMMA WorkerCallsStep ==
    ASSUME LoopInv, NEW w \in Workers, NEW call \in WorkerOps,
           WorkerCalls(w, call)
    PROVE  LoopInv'
<1>1. /\ worker[w].conn # None /\ worker' = [worker EXCEPT ![w].todo = call]
      /\ UNCHANGED <<sched, objects, queues, listenning_, backlog>>
  BY DEF WorkerCalls
<1>2. TypeOK /\ ObjectsOK /\ HandlingOK /\ QueuesOK /\ WorkersOK
  BY DEF LoopInv
<1>3. Live' = Live
  BY <1>1 DEF Live, objects
<1>4. worker' \in [Workers -> [conn : Conns \cup {None},
                               todo : Ops \cup WorkerOps \cup {"none"}]]
  BY <1>1, <1>2 DEF TypeOK
<1>5. TypeOK'
  BY <1>1, <1>2, <1>4 DEF TypeOK, sched, objects, queues
<1>6. WorkersOK'
  BY <1>1, <1>2, <1>3 DEF WorkersOK, TypeOK
<1>7. ObjectsOK' /\ HandlingOK'
  BY <1>1, <1>2, <1>3
     DEF ObjectsOK, HandlingOK, ReadingOK, Torn, InStep, sched, objects
<1>8. QueuesOK'
  <2>1. \A d : DestroyFunctors(d)' = DestroyFunctors(d)
    BY <1>1, SameQueues
  <2> QED
    BY <1>1, <1>2, <1>3, <2>1
       DEF QueuesOK, DestroyedAtMostOnce, sched, objects, queues
<1> QED
  BY <1>5, <1>6, <1>7, <1>8 DEF LoopInv

\* ... sets the state to close it ...
LEMMA WorkerSetsStateStep ==
    ASSUME LoopInv, NEW w \in Workers, WorkerSetsState(w)
    PROVE  LoopInv' /\ Live' = Live
<1> DEFINE c == worker[w].conn
<1>1. /\ worker[w].todo = "closeConnection" /\ CloseConnection(c)
      /\ worker' = [worker EXCEPT ![w].todo = "closeConnectionInLoop"]
      /\ UNCHANGED <<sched, queues, listenning_, backlog>>
  BY DEF WorkerSetsState
<1>2. TypeOK /\ ObjectsOK /\ HandlingOK /\ QueuesOK /\ WorkersOK
  BY DEF LoopInv
<1>3. c \in Live
  BY <1>1, <1>2 DEF WorkersOK
<1>4. /\ Live' = Live /\ ObjectsOK'
      /\ conn' \in [Conns -> ConnType \cup {None}]
      /\ UNCHANGED <<ChannelMap_, connections_>>
      /\ \A d \in Live : /\ conn'[d].rx = conn[d].rx
                         /\ conn'[d].peer = conn[d].peer
  <2> HIDE DEF c
  <2> QED
    BY <1>1, <1>2, <1>3, CloseConnectionObjects
<1>5. worker' \in [Workers -> [conn : Conns \cup {None},
                               todo : Ops \cup WorkerOps \cup {"none"}]]
  BY <1>1, <1>2 DEF TypeOK, Ops
<1>6. TypeOK'
  BY <1>1, <1>2, <1>4, <1>5 DEF TypeOK, sched, queues
<1>7. WorkersOK'
  BY <1>1, <1>2, <1>3, <1>4 DEF WorkersOK, TypeOK
<1>8. HandlingOK'
  <2>1. /\ ReadingOK'
        /\ \A d \in Conns : revents'[d] \cap readEvent_ # {} =>
              /\ d \in connections_'
              /\ "HUP" \in revents'[d] /\ "IN" \notin revents'[d]
                    => Torn(conn'[d], revents'[d])
    BY <1>1, <1>2, <1>4, SameReading DEF sched
  <2> QED
    BY <1>1, <1>2, <1>4, <2>1 DEF HandlingOK, sched
<1>9. QueuesOK'
  <2>1. \A d : DestroyFunctors(d)' = DestroyFunctors(d)
    BY <1>1, SameQueues
  <2> QED
    BY <1>1, <1>2, <1>4, <2>1 DEF QueuesOK, DestroyedAtMostOnce, sched, queues
<1> QED
  BY <1>4, <1>6, <1>7, <1>8, <1>9 DEF LoopInv

\* ... queues the functor ...
LEMMA WorkerQueuesStep ==
    ASSUME LoopInv, NEW w \in Workers, WorkerQueues(w)
    PROVE  LoopInv'
<1> DEFINE f == Functor(worker[w].todo, worker[w].conn)
<1>1. /\ worker[w].todo \in Ops /\ worker[w].todo # "none"
      /\ pendingFunctors_' = Append(pendingFunctors_, f)
      /\ worker' = [worker EXCEPT ![w].todo = "none"]
      /\ UNCHANGED <<sched, objects, tempFunctors, next, listenning_, backlog>>
  BY DEF WorkerQueues, Ops
<1>2. TypeOK /\ ObjectsOK /\ HandlingOK /\ QueuesOK /\ WorkersOK
  BY DEF LoopInv
<1>3. Live' = Live
  BY <1>1 DEF Live, objects
<1>4. worker[w].conn \in Conns /\ worker[w].todo \in Ops
  BY <1>1, <1>2 DEF WorkersOK, TypeOK
<1>5. f \in FunctorType /\ f.op # "connectDestroyed"
  BY <1>4 DEF Functor, FunctorType, Ops
<1>6. worker' \in [Workers -> [conn : Conns \cup {None},
                               todo : Ops \cup WorkerOps \cup {"none"}]]
  BY <1>1, <1>2 DEF TypeOK
<1> HIDE DEF f
<1>7. pendingFunctors_' \in Seq(FunctorType)
  <2>1. pendingFunctors_ \in Seq(FunctorType)
    BY <1>2 DEF TypeOK
  <2> QED
    BY <1>1, <1>5, <2>1
<1>8. TypeOK'
  BY <1>1, <1>2, <1>6, <1>7 DEF TypeOK, sched, objects
<1>9. WorkersOK'
  BY <1>1, <1>2, <1>3 DEF WorkersOK, TypeOK
<1>10. ObjectsOK' /\ HandlingOK'
  BY <1>1, <1>2, <1>3
     DEF ObjectsOK, HandlingOK, ReadingOK, Torn, InStep, sched, objects
<1>11. QueuesOK'
  <2>1. \A d : DestroyFunctors(d)' = DestroyFunctors(d)
    BY <1>1, <1>2, <1>5, <1>8, QueuedOther
  <2> QED
    BY <1>1, <1>2, <1>3, <2>1
       DEF QueuesOK, DestroyedAtMostOnce, sched, objects
<1> QED
  BY <1>8, <1>9, <1>10, <1>11 DEF LoopInv

\* ... and lets go of the connection, freeing it if it was the last owner.
LEMMA WorkerDropsStep ==
    ASSUME LoopInv, NEW w \in Workers, WorkerDrops(w)
    PROVE  LoopInv'
<1>1. /\ worker[w].todo = "none"
      /\ worker' = [worker EXCEPT ![w].conn = None]
      /\ FreeUnowned(connections_, Queued, worker')
      /\ UNCHANGED <<sched, ChannelMap_, connections_, queues, listenning_,
                     backlog>>
  BY DEF WorkerDrops
<1>2. TypeOK /\ ObjectsOK /\ HandlingOK /\ QueuesOK /\ WorkersOK
  BY DEF LoopInv
<1>3. PICK workers : workers = worker'
  OBVIOUS
<1>4. FreeUnowned(connections_, Queued, workers)
  BY <1>1, <1>3
<1>5. PICK functors : functors = Queued
  OBVIOUS
<1>6. /\ conn' \in [Conns -> ConnType \cup {None}]
      /\ \A c \in Live :
            c \in Live' <=> \/ c \in connections_
                            \/ Destroy(c) \in functors
                            \/ \E x \in Workers : workers[x].conn = c
      /\ \A c \in Live' : c \in Live /\ conn'[c] = conn[c]
      /\ ObjectsOK'
  BY <1>1, <1>2, <1>4, <1>5, FreeStep
<1>7. worker' \in [Workers -> [conn : Conns \cup {None},
                               todo : Ops \cup WorkerOps \cup {"none"}]]
  BY <1>1, <1>2 DEF TypeOK
<1>8. TypeOK'
  BY <1>1, <1>2, <1>6, <1>7 DEF TypeOK, sched, queues
<1>9. WorkersOK'
  BY <1>1, <1>2, <1>3, <1>6, <1>7 DEF WorkersOK, TypeOK
<1>10. HandlingOK'
  <2>1. connections_ \subseteq Live'
    BY <1>2, <1>6 DEF ObjectsOK
  <2>2. /\ ReadingOK'
        /\ \A d \in Conns : revents'[d] \cap readEvent_ # {} =>
              /\ d \in connections_'
              /\ "HUP" \in revents'[d] /\ "IN" \notin revents'[d]
                    => Torn(conn'[d], revents'[d])
    BY <1>1, <1>2, <1>6, <2>1, SameReading DEF sched
  <2> QED
    BY <1>1, <1>2, <2>2 DEF HandlingOK, sched
<1>11. QueuesOK'
  <2>1. \A d : DestroyFunctors(d)' = DestroyFunctors(d)
    BY <1>1, SameQueues
  <2>2. ASSUME NEW d \in Conns, DestroyFunctors(d) # 0
        PROVE  d \in Live'
    <3>1. d \in Live
      BY <1>2, <2>2 DEF QueuesOK
    <3>2. PendingCount(d) # 0 \/ RunCount(d) # 0
      BY <1>2, <2>2, FunctorsCounted
    <3>3. Destroy(d) \in Queued
      BY <1>2, <3>2, CountedIsQueued DEF Queued
    <3> QED
      BY <1>5, <1>6, <3>1, <3>3
  <2> QED
    BY <1>1, <1>2, <2>1, <2>2 DEF QueuesOK, DestroyedAtMostOnce, sched, queues
<1> QED
  BY <1>6, <1>8, <1>9, <1>10, <1>11 DEF LoopInv

\* Every step preserves the invariant.
LEMMA LoopStepKeeps == LoopInv /\ [Next]_vars => LoopInv'
<1> SUFFICES ASSUME LoopInv, [Next]_vars PROVE LoopInv'
  OBVIOUS
<1>1. listenning_ \in BOOLEAN /\ backlog \in 0 .. MaxBacklog
  BY DEF LoopInv, TypeOK
<1>2. CASE Start
  BY <1>1, <1>2, OutsideStep, ConstantsTyped DEF Start, Listen
<1>3. CASE PeerConnect
  <2>1. backlog' \in backlog .. MaxBacklog
    BY <1>1, <1>3, ConstantsTyped DEF PeerConnect
  <2> QED
    BY <1>1, <1>3, <2>1, OutsideStep DEF PeerConnect
<1>4. CASE HandlerOnFreed \/ UNCHANGED vars
  <2>1. UNCHANGED <<sched, objects, queues, worker>>
        /\ UNCHANGED <<listenning_, backlog>>
    BY <1>4 DEF HandlerOnFreed, vars, others
  <2>2. backlog' \in backlog .. MaxBacklog
    BY <1>1, <2>1, ConstantsTyped
  <2> QED
    BY <1>1, <2>1, <2>2, OutsideStep
<1>5. CASE LoopStep
  BY <1>4, <1>5, PollStep, AcceptStep, HandlerBeginsStep, OnHupStep,
     OnErrorStep, OnReadStep, OnWriteStep, CallStep, SwapStep, RunStep, EndStep
     DEF LoopStep
<1>6. ASSUME NEW w \in Workers, WorkerStep(w)
      PROVE  LoopInv'
  BY <1>6, WorkerTakesStep, WorkerCallsStep, WorkerSetsStateStep,
     WorkerQueuesStep, WorkerDropsStep DEF WorkerStep
<1>7. CASE UNCHANGED vars \/ Ended
  BY <1>4, <1>7 DEF Ended
<1> QED
  BY <1>2, <1>3, <1>5, <1>6, <1>7, PeerActsStep DEF Next

\* Only the end of a round of functors and a thread letting go free anything.
LEMMA OnlyDropsFree ==
    ASSUME LoopInv, [Next]_vars, ~EndFunctors,
           \A w \in Workers : ~WorkerDrops(w)
    PROVE  Live \subseteq Live'
<1>1. CASE UNCHANGED conn
  BY <1>1 DEF Live
<1>2. CASE LoopStep
  <2>1. PollReturns \/ HandlerOnFreed \/ SwapFunctors
          \/ (\E c \in Conns : HandlerBegins(c)) => UNCHANGED conn
    BY DEF PollReturns, HandlerOnFreed, SwapFunctors, HandlerBegins, objects
  <2> QED
    BY <1>1, <1>2, <2>1, AcceptStep, OnHupStep, OnErrorStep, OnReadStep,
       OnWriteStep, CallStep, RunStep DEF LoopStep
<1>3. CASE \E c \in Conns : PeerActs(c)
  BY <1>3, PeerActsStep
<1>4. ASSUME NEW w \in Workers, WorkerStep(w)
      PROVE  Live \subseteq Live'
  <2>1. CASE WorkerTakes(w) \/ WorkerQueues(w)
               \/ \E call \in WorkerOps : WorkerCalls(w, call)
    BY <1>1, <2>1 DEF WorkerTakes, WorkerQueues, WorkerCalls, objects
  <2>2. CASE WorkerSetsState(w)
    BY <2>2, WorkerSetsStateStep
  <2> QED
    BY <1>4, <2>1, <2>2 DEF WorkerStep
<1>5. Start \/ PeerConnect \/ Ended \/ UNCHANGED vars => UNCHANGED conn
  BY DEF Start, PeerConnect, Ended, vars, objects
<1> QED
  BY <1>1, <1>2, <1>3, <1>4, <1>5 DEF Next

\* With any threads and callbacks: the invariant the next two are parts of.
THEOREM LoopInvariant == Spec => []LoopInv
BY LoopInit, LoopStepKeeps, PTL DEF Spec

\* The objects, queues and handler of the loop keep their types, whatever
\* threads and callbacks do, through asserts and uses of freed objects too.
THEOREM TypeCorrect == Spec => []TypeOK
BY LoopInvariant, PTL DEF LoopInv

\* TcpServer.cc:261-275: a connection is queued for destruction at most once,
\* and not while the server lists it, whoever closes it and however often.
THEOREM NeverDestroyedTwice == Spec => []DestroyedAtMostOnce
BY LoopInvariant, PTL DEF LoopInv, QueuesOK

-----------------------------------------------------------------------------
(* The program as it is.  Its one message callback is HttpServer::onMessage,*)
(* which calls send and shutdown (HttpServer.cc:43-76) if it returns, and   *)
(* it gives no connection to another thread.  What follows holds for every  *)
(* callback that makes only these calls, in any number and order.           *)

HttpOnly == Workers = {} /\ Callbacks \subseteq Seq({"send", "shutdown", "spin"})

\* A listed connection (above) is read, and watched for POLLOUT while it has
\* output; a closed one waits in the map with no interest; a destroyed one is
\* out.
Closing(k)   == k.state = "Connected" /\ k.ch.index = 2 /\ k.ch.events = {}
Destroyed(k) == k.state = "Disconnected" /\ k.ch.index = -1

StatesOK ==
    \A c \in Live :
        IF c \in connections_ THEN Listed(conn[c])
        ELSE \/ Closing(conn[c])
             \/ Destroyed(conn[c]) /\ phase = "functors"

\* ChannelMap_ holds exactly the channels that say they are in it, and no two
\* of the connections share a descriptor.
MapOK ==
    /\ \A c, d \in Live : conn[c].ch.fd = conn[d].ch.fd => c = d
    /\ \A fd \in Fds, c \in Conns :
          ChannelMap_[fd] = c
            <=> c \in Live /\ conn[c].ch.fd = fd /\ conn[c].ch.index # -1

\* The only functors are those of removeConnection, queued by handlers.
FunctorsOK ==
    /\ \A i \in DOMAIN pendingFunctors_ :
          pendingFunctors_[i].op = "connectDestroyed"
    /\ \A i \in DOMAIN tempFunctors : tempFunctors[i].op = "connectDestroyed"
    /\ calls \in Seq({"send", "shutdown", "spin"})
    /\ phase # "dispatch" => pendingFunctors_ = <<>>

\* Only listed connections are reported, and handled unless they close now.
ReportsOK ==
    /\ \A c \in Conns : revents[c] # {} => c \in connections_
    /\ "HUP" \in rev => cur \in connections_
    /\ rev # {} => cur \in Live

HttpInv ==
    /\ AssertsHold /\ OwnedOnce /\ StatesOK /\ MapOK /\ FunctorsOK /\ ReportsOK

-----------------------------------------------------------------------------
(* What the calls do to a listed or a closing connection.                  *)

\* The call leaves c in the status it has; writing may end the process.
Stays(c) ==
    /\ \E k \in ConnType :
          /\ conn' = [conn EXCEPT ![c] = k]
          /\ k.ch.fd = conn[c].ch.fd /\ k.ch.index = conn[c].ch.index
          /\ k.state = conn[c].state
          /\ Listed(conn[c]) => Listed(k)
          /\ Closing(conn[c]) => Closing(k)
    /\ UNCHANGED <<ChannelMap_, connections_, pendingFunctors_>>
    /\ fault' \in {fault, "SIGPIPE"}

\* The call closes c, which was listed.
Shuts(c) ==
    /\ c \in connections_
    /\ \E k \in ConnType : /\ conn' = [conn EXCEPT ![c] = k]
                           /\ k.ch.fd = conn[c].ch.fd /\ Closing(k)
    /\ connections_' = connections_ \ {c}
    /\ pendingFunctors_' = Append(pendingFunctors_, Destroy(c))
    /\ UNCHANGED <<ChannelMap_, fault>>

LEMMA NothingStays ==
    ASSUME TypeOK, NEW c \in Live, UNCHANGED objects,
           UNCHANGED pendingFunctors_, fault' \in {fault, "SIGPIPE"}
    PROVE  Stays(c)
<1>1. conn[c] \in ConnType
  BY LiveTyped
<1>2. conn' = [conn EXCEPT ![c] = conn[c]]
  BY DEF objects, TypeOK
<1> QED
  BY <1>1, <1>2 DEF Stays, objects

LEMMA FieldStays ==
    ASSUME NEW c \in Live, NEW k \in ConnType,
           k.ch = conn[c].ch, k.state = conn[c].state, k.out = conn[c].out,
           conn' = [conn EXCEPT ![c] = k],
           UNCHANGED <<ChannelMap_, connections_, pendingFunctors_, fault>>
    PROVE  Stays(c)
BY DEF Stays, Listed, Closing

\* Output: the channel is watched for POLLOUT from now on, and stays in the
\* map, so the assert of Epoller.cc:69 is not reached.
LEMMA AppendOutputStays ==
    ASSUME TypeOK, ObjectsOK, NEW c \in Live, NEW k \in ConnType,
           Listed(conn[c]), k.ch = conn[c].ch, k.state = conn[c].state,
           k.out = conn[c].out, AppendOutput(c, k)
    PROVE  Stays(c)
<1>1. CASE IsWriting(k.ch)
  <2> DEFINE k2 == [k EXCEPT !.out = TRUE]
  <2>1. /\ k2 \in ConnType /\ k2.ch = k.ch /\ k2.state = k.state
        /\ k2.out = TRUE
    BY DEF ConnType
  <2>2. k.out = TRUE
    BY <1>1 DEF IsWriting, Listed, ConnType, readEvent_, writeEvent_
  <2>3. /\ conn' = [conn EXCEPT ![c] = k2]
        /\ UNCHANGED <<ChannelMap_, connections_, pendingFunctors_, fault>>
    BY <1>1 DEF AppendOutput
  <2> HIDE DEF k2
  <2> QED
    BY <2>1, <2>2, <2>3, FieldStays
<1>2. CASE ~IsWriting(k.ch)
  <2> DEFINE new == EnableWriting(conn[c].ch)
             k2  == [k EXCEPT !.out = TRUE, !.ch = EnableWriting(@)]
  <2>1. conn[c].ch \in ChannelType(Fds) /\ InStep(conn[c].ch)
    BY LiveTyped DEF ObjectsOK
  <2>2. /\ new \in ChannelType(Fds) /\ new.fd = conn[c].ch.fd
        /\ new.index = 1 /\ new.events = Interest
    <3>1. conn[c].ch.events \cup writeEvent_ = Interest
      BY DEF Listed, Interest
    <3>2. Interest \in SUBSET Interest /\ Interest # {}
      BY DEF Interest, readEvent_
    <3>3. new = SetEvents(conn[c].ch, Interest)
      BY <3>1 DEF EnableWriting
    <3> HIDE DEF new
    <3> QED
      BY <2>1, <3>2, <3>3, SetEventsInStep
  <2>3. /\ k2 \in ConnType /\ k2.ch = new /\ k2.state = k.state
        /\ k2.out = TRUE
    <3> HIDE DEF new
    <3>1. k2 = [k EXCEPT !.out = TRUE, !.ch = new]
      BY DEF new
    <3> QED
      BY <2>2, <3>1 DEF ConnType
  <2>4. Updated(c, k2)
    BY <1>2 DEF AppendOutput
  <2> HIDE DEF k2, new
  <2>5. /\ conn' = [conn EXCEPT ![c] = k2]
        /\ UNCHANGED <<ChannelMap_, connections_, pendingFunctors_, fault>>
    BY <2>4 DEF Updated, Listed
  <2>6. Listed(k2) /\ k2.state = conn[c].state
    BY <2>2, <2>3 DEF Listed, Interest
  <2>7. ~ Closing(conn[c]) /\ conn[c].ch.index = 1
    BY DEF Listed, Closing
  <2>8. k2.ch.fd = conn[c].ch.fd /\ k2.ch.index = conn[c].ch.index
    BY <2>2, <2>3, <2>7
  <2> QED
    BY <2>3, <2>5, <2>6, <2>7, <2>8 DEF Stays
<1> QED
  BY <1>1, <1>2

LEMMA SendStays ==
    ASSUME TypeOK, ObjectsOK, NEW c \in Live, Listed(conn[c]), SendInLoop(c)
    PROVE  Stays(c)
<1> DEFINE k == conn[c]
           dead == [k EXCEPT !.peer = "dead"]
<1>1. k \in ConnType
  BY LiveTyped
<1>2. /\ dead \in ConnType /\ dead.ch = k.ch /\ dead.state = k.state
      /\ dead.out = k.out
  BY <1>1 DEF ConnType
<1>3. \/ AppendOutput(c, k)
      \/ AppendOutput(c, dead)
      \/ /\ UNCHANGED objects /\ UNCHANGED pendingFunctors_
         /\ fault' \in {fault, "SIGPIPE"}
  BY DEF SendInLoop, Die
<1> HIDE DEF dead
<1> QED
  BY <1>1, <1>2, <1>3, AppendOutputStays, NothingStays

LEMMA ShutdownStays ==
    ASSUME TypeOK, NEW c \in Live, ShutdownInLoop(c)
    PROVE  Stays(c)
<1>1. conn[c] \in ConnType
  BY LiveTyped
<1>2. PICK b \in BOOLEAN : conn' = [conn EXCEPT ![c].shut = b]
  <2>1. conn[c].shut \in BOOLEAN
    BY <1>1 DEF ConnType
  <2> DEFINE b == conn[c].shut \/ (~IsWriting(conn[c].ch)
                                     /\ conn[c].peer \in {"open", "fin"})
  <2>2. b \in BOOLEAN /\ conn' = [conn EXCEPT ![c].shut = b]
    BY <2>1 DEF ShutdownInLoop
  <2> QED
    BY <2>2
<1> DEFINE k == [conn[c] EXCEPT !.shut = b]
<1>3. /\ k \in ConnType /\ k.ch = conn[c].ch /\ k.state = conn[c].state
      /\ k.out = conn[c].out
  BY <1>1 DEF ConnType
<1>4. /\ conn' = [conn EXCEPT ![c] = k]
      /\ UNCHANGED <<ChannelMap_, connections_, pendingFunctors_, fault>>
  BY <1>2 DEF ShutdownInLoop
<1> HIDE DEF k
<1> QED
  BY <1>3, <1>4, FieldStays

\* All output written: POLLOUT is switched off, the connection still read.
LEMMA HandleWriteStays ==
    ASSUME TypeOK, ObjectsOK, NEW c \in Live,
           Listed(conn[c]) \/ Closing(conn[c]), HandleWrite(c)
    PROVE  Stays(c)
<1> DEFINE k == conn[c]
           dead == [k EXCEPT !.peer = "dead"]
           new == DisableWriting(k.ch)
           sent == [k EXCEPT !.out = FALSE, !.ch = DisableWriting(@)]
<1>1. k \in ConnType
  BY LiveTyped
<1>2. CASE /\ UNCHANGED objects /\ UNCHANGED pendingFunctors_
           /\ fault' \in {fault, "SIGPIPE"}
  BY <1>2, NothingStays
<1>3. CASE /\ conn' = [conn EXCEPT ![c] = dead]
           /\ UNCHANGED <<ChannelMap_, connections_, pendingFunctors_, fault>>
  <2>1. /\ dead \in ConnType /\ dead.ch = k.ch /\ dead.state = k.state
        /\ dead.out = k.out
    BY <1>1 DEF ConnType
  <2> HIDE DEF dead
  <2> QED
    BY <1>3, <2>1, FieldStays
<1>4. CASE IsWriting(k.ch) /\ Updated(c, sent)
  <2>1. Listed(k)
    BY <1>4 DEF IsWriting, Closing
  <2>2. k.ch \in ChannelType(Fds) /\ InStep(k.ch)
    BY LiveTyped DEF ObjectsOK
  <2>3. /\ new \in ChannelType(Fds) /\ new.fd = k.ch.fd
        /\ new.index = 1 /\ new.events = readEvent_
    <3>1. k.ch.events \ writeEvent_ = readEvent_
      BY <2>1 DEF Listed, readEvent_, writeEvent_
    <3>2. readEvent_ \in SUBSET Interest /\ readEvent_ # {}
      BY DEF Interest, readEvent_
    <3>3. new = SetEvents(k.ch, readEvent_)
      BY <3>1 DEF DisableWriting
    <3> HIDE DEF new
    <3> QED
      BY <2>2, <3>2, <3>3, SetEventsInStep
  <2>4. /\ sent \in ConnType /\ sent.ch = new /\ sent.state = k.state
        /\ sent.out = FALSE
    <3> HIDE DEF new
    <3>1. sent = [k EXCEPT !.out = FALSE, !.ch = new]
      BY DEF new
    <3> QED
      BY <1>1, <2>3, <3>1 DEF ConnType
  <2> HIDE DEF sent, new
  <2>5. /\ conn' = [conn EXCEPT ![c] = sent]
        /\ UNCHANGED <<ChannelMap_, connections_, pendingFunctors_, fault>>
    BY <1>4, <2>1 DEF Updated, Listed
  <2> QED
    BY <2>1, <2>3, <2>4, <2>5 DEF Stays, Listed, Closing
<1> QED
  BY <1>2, <1>3, <1>4 DEF HandleWrite, Die

\* handleClose on a listed connection: the asserts of TcpServer.cc:97 and 272
\* hold, and the channel is left in the map with no interest.
LEMMA HandleCloseShuts ==
    ASSUME TypeOK, ObjectsOK, NEW c \in Live, c \in connections_,
           Listed(conn[c]), HandleClose(c)
    PROVE  Shuts(c)
<1> DEFINE k == conn[c]
           off == DisableAll(k.ch)
           shut == [k EXCEPT !.ch = DisableAll(@)]
<1>1. /\ conn' = [conn EXCEPT ![c] = shut]
      /\ connections_' = connections_ \ {c}
      /\ pendingFunctors_' =
             Append(pendingFunctors_, Functor("connectDestroyed", c))
      /\ UNCHANGED <<ChannelMap_, fault>>
  BY DEF HandleClose, RemoveConnection, Listed
<1>2. k \in ConnType /\ k.ch \in ChannelType(Fds) /\ InStep(k.ch)
  BY LiveTyped DEF ObjectsOK
<1>3. /\ off \in ChannelType(Fds) /\ off.fd = k.ch.fd
      /\ off.index = 2 /\ off.events = {}
  <2>1. k.ch.index = 1
    BY DEF Listed
  <2> QED
    BY <1>2, <2>1, SetEventsInStep DEF DisableAll
<1>4. shut \in ConnType /\ shut.ch = off /\ shut.state = k.state
  <2> HIDE DEF off
  <2>1. shut = [k EXCEPT !.ch = off]
    BY DEF off
  <2> QED
    BY <1>2, <1>3, <2>1 DEF ConnType
<1> HIDE DEF shut, off
<1> QED
  BY <1>1, <1>3, <1>4 DEF Shuts, Closing, Listed, Destroy

\* connectDestroyed on a closing connection that the map still has: the
\* asserts of TcpServer.cc:50 and Epoller.cc:92 hold.
LEMMA ConnectDestroyedDestroys ==
    ASSUME TypeOK, ObjectsOK, NEW c \in Live, Closing(conn[c]),
           ChannelMap_[conn[c].ch.fd] = c, ConnectDestroyed(c)
    PROVE  /\ \E k \in ConnType : /\ conn' = [conn EXCEPT ![c] = k]
                                  /\ k.ch.fd = conn[c].ch.fd /\ Destroyed(k)
           /\ ChannelMap_' = [ChannelMap_ EXCEPT ![conn[c].ch.fd] = None]
           /\ UNCHANGED <<connections_, pendingFunctors_, fault>>
<1> DEFINE k == conn[c]
           off == DisableAll(k.ch)
           new == RemoveChannel(off)
           gone == [k EXCEPT !.state = "Disconnected",
                             !.ch = RemoveChannel(DisableAll(@))]
<1>1. k \in ConnType /\ k.ch \in ChannelType(Fds) /\ InStep(k.ch)
  BY LiveTyped DEF ObjectsOK
<1>2. /\ conn' = [conn EXCEPT ![c] = gone]
      /\ ChannelMap_' = [ChannelMap_ EXCEPT ![conn[c].ch.fd] = None]
      /\ UNCHANGED <<connections_, pendingFunctors_, fault>>
  BY DEF ConnectDestroyed, Closing
<1>3. off \in ChannelType(Fds) /\ InStep(off) /\ off.fd = k.ch.fd
  BY ChannelCalls
<1>4. new \in ChannelType(Fds) /\ new.fd = k.ch.fd /\ new.index = -1
  <2> HIDE DEF off
  <2> QED
    BY <1>3, RemoveChannelInStep
<1>5. gone \in ConnType /\ gone.ch = new /\ gone.state = "Disconnected"
  <2> HIDE DEF new
  <2>1. gone = [k EXCEPT !.state = "Disconnected", !.ch = new]
    BY DEF new
  <2> QED
    BY <1>1, <1>4, <2>1 DEF ConnType
<1> HIDE DEF gone, new
<1> QED
  BY <1>2, <1>4, <1>5 DEF Destroyed

-----------------------------------------------------------------------------
(* The steps of the program as it is.                                      *)

\* Objects, after a call of a handler.
LEMMA HttpObjects ==
    ASSUME TypeOK, StatesOK, MapOK, NEW c \in Live, Stays(c) \/ Shuts(c),
           c \in connections_ => Listed(conn[c]),
           phase' = phase
    PROVE  /\ Live' = Live /\ StatesOK' /\ MapOK'
           /\ \A d \in Live : conn'[d].state = conn[d].state
<1>1. PICK k \in ConnType :
          /\ conn' = [conn EXCEPT ![c] = k]
          /\ k.ch.fd = conn[c].ch.fd
          /\ k.ch.index # -1 <=> conn[c].ch.index # -1
          /\ k.state = conn[c].state
          /\ IF c \in connections_' THEN Listed(k)
             ELSE \/ Closing(k)
                  \/ Destroyed(k) /\ phase = "functors"
  <2>1. CASE Stays(c)
    <3>1. PICK k \in ConnType :
              /\ conn' = [conn EXCEPT ![c] = k]
              /\ k.ch.fd = conn[c].ch.fd /\ k.ch.index = conn[c].ch.index
              /\ k.state = conn[c].state
              /\ Listed(conn[c]) => Listed(k)
              /\ Closing(conn[c]) => Closing(k)
      BY <2>1 DEF Stays
    <3>2. connections_' = connections_
      BY <2>1 DEF Stays
    <3>3. IF c \in connections_ THEN Listed(conn[c])
          ELSE \/ Closing(conn[c])
               \/ Destroyed(conn[c]) /\ phase = "functors"
      BY DEF StatesOK
    <3> QED
      BY <3>1, <3>2, <3>3 DEF Destroyed
  <2>2. CASE Shuts(c)
    <3>1. c \in connections_ /\ c \notin connections_' /\ Listed(conn[c])
      BY <2>2 DEF Shuts
    <3>2. PICK k \in ConnType : /\ conn' = [conn EXCEPT ![c] = k]
                                /\ k.ch.fd = conn[c].ch.fd /\ Closing(k)
      BY <2>2 DEF Shuts
    <3>3. /\ k.state = conn[c].state
          /\ k.ch.index # -1 /\ conn[c].ch.index # -1
      BY <3>1, <3>2 DEF Listed, Closing
    <3> QED
      BY <3>1, <3>2, <3>3
  <2> QED
    BY <2>1, <2>2
<1>2. c \in Conns /\ conn[c] # None /\ k # None
  BY LiveTyped, NoneIsNoConnection
<1>3. conn'[c] = k /\ \A d \in Conns \ {c} : conn'[d] = conn[d]
  BY <1>1, <1>2 DEF TypeOK
<1>4. Live' = Live
  BY <1>2, <1>3 DEF Live
<1>5. /\ ChannelMap_' = ChannelMap_
      /\ \A d \in Conns \ {c} : d \in connections_' <=> d \in connections_
  BY DEF Stays, Shuts
<1>6. StatesOK'
  <2>1. ASSUME NEW d \in Live'
        PROVE  IF d \in connections_' THEN Listed(conn'[d])
               ELSE \/ Closing(conn'[d])
                    \/ Destroyed(conn'[d]) /\ phase' = "functors"
    <3>1. CASE d = c
      BY <1>1, <1>3, <3>1
    <3>2. CASE d # c
      <4>1. d \in Live /\ d \in Conns \ {c} /\ conn'[d] = conn[d]
        BY <1>3, <1>4, <2>1, <3>2 DEF Live
      <4> QED
        BY <1>5, <4>1 DEF StatesOK
    <3> QED
      BY <3>1, <3>2
  <2> QED
    BY <2>1 DEF StatesOK, Listed, Closing, Destroyed
<1>7. /\ \A d \in Live : /\ conn'[d].ch.fd = conn[d].ch.fd
                         /\ conn'[d].state = conn[d].state
                         /\ conn'[d].ch.index # -1 <=> conn[d].ch.index # -1
  BY <1>1, <1>3 DEF Live
<1>8. MapOK'
  BY <1>4, <1>5, <1>7 DEF MapOK
<1> QED
  BY <1>4, <1>6, <1>7, <1>8

\* The only owner, after a call of a handler.
LEMMA HttpOwned ==
    ASSUME TypeOK, TypeOK', OwnedOnce, NEW c \in Live, Stays(c) \/ Shuts(c),
           Live' = Live, \A d \in Live : conn'[d].state = conn[d].state,
           UNCHANGED <<tempFunctors, next>>
    PROVE  OwnedOnce'
<1>1. ASSUME NEW d \in Conns
      PROVE  (IF d \in connections_' THEN 1 ELSE 0) + DestroyFunctors(d)'
               = IF d \in Live /\ conn[d].state = "Connected" THEN 1 ELSE 0
  <2>1. /\ DestroyFunctors(d) = PendingCount(d) + RunCount(d)
        /\ PendingCount(d) \in Nat /\ RunCount(d) \in Nat
        /\ DestroyFunctors(d)' = PendingCount(d)' + RunCount(d)'
    BY FunctorsCounted, FunctorsCountedNext
  <2>2. RunCount(d)' = RunCount(d)
    BY DEF RunCount
  <2>3. (IF d \in connections_ THEN 1 ELSE 0) + DestroyFunctors(d)
          = IF d \in Live /\ conn[d].state = "Connected" THEN 1 ELSE 0
    BY DEF OwnedOnce
  <2>4. CASE Stays(c)
    <3>1. PendingCount(d)' = PendingCount(d) /\ connections_' = connections_
      BY <2>4 DEF Stays, PendingCount
    <3> QED
      BY <2>1, <2>2, <2>3, <3>1
  <2>5. CASE Shuts(c)
    <3>1. Destroy(c) \in FunctorType /\ (Destroy(c) = Destroy(d) <=> d = c)
      BY LiveTyped DEF Destroy, Functor, FunctorType
    <3>2. PendingCount(d)' = PendingCount(d) + (IF d = c THEN 1 ELSE 0)
      BY <2>5, <3>1, QueuedOne DEF Shuts
    <3>3. c \in connections_ /\ connections_' = connections_ \ {c}
      BY <2>5 DEF Shuts
    <3> QED
      BY <2>1, <2>2, <2>3, <3>2, <3>3
  <2> QED
    BY <2>4, <2>5
<1>2. \A d \in Conns : d \in Live' /\ conn'[d].state = "Connected"
                         <=> d \in Live /\ conn[d].state = "Connected"
  OBVIOUS
<1> QED
  BY <1>1, <1>2 DEF OwnedOnce

\* A step of the handler in progress, or of a peer.
LEMMA HttpHandlerStep ==
    ASSUME LoopInv, LoopInv', HttpInv, NEW c \in Live, fault = "none",
           UNCHANGED <<phase, revents, cur, tempFunctors, next>>,
           \/ Stays(c)
           \/ Shuts(c) /\ c = cur /\ "HUP" \notin rev' /\ phase = "dispatch",
           rev' \subseteq rev, calls' \in Seq({"send", "shutdown", "spin"})
    PROVE  HttpInv'
<1>1. TypeOK /\ TypeOK' /\ HandlingOK
  BY DEF LoopInv
<1>2. AssertsHold /\ OwnedOnce /\ StatesOK /\ MapOK /\ FunctorsOK /\ ReportsOK
  BY DEF HttpInv
<1>3. Stays(c) \/ Shuts(c)
  OBVIOUS
<1>4. c \in connections_ => Listed(conn[c])
  BY <1>2 DEF StatesOK
<1>5. /\ Live' = Live /\ StatesOK' /\ MapOK'
      /\ \A d \in Live : conn'[d].state = conn[d].state
  BY <1>1, <1>2, <1>3, <1>4, HttpObjects
<1>6. OwnedOnce'
  BY <1>1, <1>2, <1>3, <1>5, HttpOwned
<1>7. AssertsHold'
  BY <1>3 DEF AssertsHold, Stays, Shuts
<1>8. FunctorsOK'
  <2>1. CASE Stays(c)
    BY <1>2, <2>1 DEF FunctorsOK, Stays
  <2>2. CASE Shuts(c) /\ phase = "dispatch"
    <3>1. /\ pendingFunctors_ \in Seq(FunctorType)
          /\ pendingFunctors_' = Append(pendingFunctors_, Destroy(c))
          /\ Destroy(c) \in FunctorType /\ Destroy(c).op = "connectDestroyed"
      BY <1>1, <2>2, LiveTyped
         DEF TypeOK, Shuts, Destroy, Functor, FunctorType
    <3>2. \A i \in DOMAIN pendingFunctors_' :
              pendingFunctors_'[i].op = "connectDestroyed"
      BY <1>2, <3>1, AppendProperties DEF FunctorsOK
    <3> QED
      BY <1>2, <2>2, <3>2 DEF FunctorsOK
  <2> QED
    BY <2>1, <2>2
<1>9. ReportsOK'
  <2>1. CASE Stays(c)
    BY <1>2, <1>5, <2>1 DEF ReportsOK, Stays
  <2>2. CASE Shuts(c) /\ c = cur /\ "HUP" \notin rev'
    <3>1. revents[cur] = {}
      BY <1>1, <2>2, LiveTyped, ConstantsTyped DEF HandlingOK
    <3>2. ASSUME NEW d \in Conns, revents'[d] # {}
          PROVE  d \in connections_'
      BY <1>2, <2>2, <3>1, <3>2 DEF ReportsOK, Shuts
    <3> QED
      BY <1>2, <1>5, <2>2, <3>2 DEF ReportsOK
  <2> QED
    BY <2>1, <2>2
<1> QED
  BY <1>5, <1>6, <1>7, <1>8, <1>9 DEF HttpInv

LEMMA HttpInit == HttpOnly /\ Init => HttpInv
<1> SUFFICES ASSUME Init PROVE HttpInv
  OBVIOUS
<1>1. Live = {} /\ connections_ = {}
  BY DEF Init, Live
<1>2. LoopInv
  BY LoopInit
<1>3. \A c \in Conns : DestroyFunctors(c) = 0
  <2>1. pendingFunctors_ = <<>> /\ tempFunctors = <<>> /\ next = 0
    BY DEF Init
  <2>2. \A c : PendingCount(c) = 0 /\ RunCount(c) = 0
    BY <2>1, CountEmpty DEF PendingCount, RunCount
  <2> QED
    BY <1>2, <2>2, FunctorsCounted DEF LoopInv
<1>4. OwnedOnce /\ StatesOK
  BY <1>1, <1>3 DEF OwnedOnce, StatesOK
<1>5. MapOK
  BY <1>1, ConstantsTyped DEF Init, MapOK
<1>6. FunctorsOK
  <2>1. /\ pendingFunctors_ = <<>> /\ tempFunctors = <<>>
        /\ calls = <<>> /\ calls \in Seq({"send", "shutdown", "spin"})
    BY DEF Init
  <2> QED
    BY <2>1 DEF FunctorsOK
<1>7. AssertsHold /\ ReportsOK
  BY DEF Init, AssertsHold, ReportsOK, Chans
<1> QED
  BY <1>4, <1>5, <1>6, <1>7 DEF HttpInv

\* Steps that change nothing the invariant is about.
LEMMA HttpOutsideStep ==
    ASSUME HttpInv, UNCHANGED <<sched, objects, queues, fault>>
    PROVE  HttpInv'
<1>1. Live' = Live
  BY DEF Live, objects
<1>2. \A c : DestroyFunctors(c)' = DestroyFunctors(c)
  BY SameQueues
<1>3. AssertsHold' /\ OwnedOnce'
  BY <1>1, <1>2 DEF HttpInv, AssertsHold, ResetWithUrgentByte, OwnedOnce,
                    objects, sched
<1>4. StatesOK' /\ MapOK'
  BY <1>1 DEF HttpInv, StatesOK, MapOK, Listed, Closing, Destroyed, objects,
              sched
<1>5. FunctorsOK' /\ ReportsOK'
  BY <1>1 DEF HttpInv, FunctorsOK, ReportsOK, objects, sched, queues
<1> QED
  BY <1>3, <1>4, <1>5 DEF HttpInv

LEMMA HttpPeerActs ==
    ASSUME LoopInv, LoopInv', HttpInv, NEW c \in Conns, PeerActs(c)
    PROVE  HttpInv'
<1>1. c \in Live /\ conn[c] \in ConnType
  BY LiveTyped DEF PeerActs, LoopInv
<1>2. PICK k \in {[conn[c] EXCEPT !.rx = "data"], [conn[c] EXCEPT !.rx = "urgent"],
                  [conn[c] EXCEPT !.peer = "fin"], [conn[c] EXCEPT !.peer = "rst"]} :
          conn' = [conn EXCEPT ![c] = k]
  BY DEF PeerActs
<1>3. /\ k \in ConnType /\ k.ch = conn[c].ch /\ k.state = conn[c].state
      /\ k.out = conn[c].out
  BY <1>1, <1>2 DEF ConnType
<1>4. /\ UNCHANGED <<ChannelMap_, connections_, pendingFunctors_, fault>>
      /\ UNCHANGED <<phase, revents, cur, tempFunctors, next>>
      /\ UNCHANGED <<rev, calls>> /\ fault = "none"
  BY DEF PeerActs, sched, queues, Up
<1>5. Stays(c)
  BY <1>1, <1>2, <1>3, <1>4, FieldStays
<1>6. rev' \subseteq rev /\ calls' \in Seq({"send", "shutdown", "spin"})
  BY <1>4 DEF HttpInv, FunctorsOK
<1> QED
  BY <1>1, <1>4, <1>5, <1>6, HttpHandlerStep

\* A connection that is watched is listed, so only those are reported.
LEMMA HttpPoll ==
    ASSUME LoopInv, HttpInv, PollReturns
    PROVE  HttpInv'
<1>1. PICK rep \in [Watched -> UNION {Reports(c) : c \in Watched}],
           got \in SUBSET (Watched \cup {"acceptor"}) :
          revents' = [x \in Chans |->
                IF x \notin got THEN {}
                ELSE IF x = "acceptor" THEN {"IN"} ELSE rep[x]]
  BY DEF PollReturns
<1>2. /\ phase = "poll" /\ phase' = "dispatch" /\ fault = "none"
      /\ UNCHANGED <<cur, rev, calls, objects, queues, others, fault>>
  BY DEF PollReturns, Up
<1>3. /\ ObjectsOK /\ HandlingOK
      /\ AssertsHold /\ OwnedOnce /\ StatesOK /\ MapOK /\ FunctorsOK
  BY DEF LoopInv, HttpInv
<1>4. Live' = Live
  BY <1>2 DEF Live, objects
<1>5. \A c : DestroyFunctors(c)' = DestroyFunctors(c)
  BY <1>2, SameQueues
<1>6. AssertsHold' /\ OwnedOnce'
  BY <1>2, <1>3, <1>4, <1>5 DEF AssertsHold, OwnedOnce, objects
<1>7. StatesOK' /\ MapOK'
  BY <1>2, <1>3, <1>4
     DEF StatesOK, MapOK, Listed, Closing, Destroyed, objects
<1>8. FunctorsOK'
  <2>1. UNCHANGED <<pendingFunctors_, tempFunctors, calls>>
        /\ pendingFunctors_ = <<>>
    BY <1>2, <1>3 DEF FunctorsOK, queues
  <2> QED
    BY <1>3, <2>1 DEF FunctorsOK
<1>9. ASSUME NEW c \in Conns, revents'[c] # {}
      PROVE  c \in connections_'
  <2>1. c \in Chans /\ c # "acceptor"
    BY ConstantsTyped DEF Chans
  <2>2. c \in Live /\ conn[c].ch.reg # {}
    BY <1>1, <1>9, <2>1 DEF Watched
  <2>3. conn[c].ch.index = 1
    BY <1>3, <2>2 DEF ObjectsOK, InStep
  <2>4. c \in connections_
    BY <1>3, <2>2, <2>3 DEF StatesOK, Closing, Destroyed
  <2> QED
    BY <1>2, <2>4 DEF objects
<1>10. ReportsOK'
  <2>1. rev' = {}
    BY <1>2, <1>3 DEF HandlingOK
  <2> QED
    BY <1>9, <2>1 DEF ReportsOK
<1> QED
  BY <1>6, <1>7, <1>8, <1>10 DEF HttpInv

LEMMA HttpHandlerBegins ==
    ASSUME LoopInv, HttpInv, NEW c \in Conns, HandlerBegins(c)
    PROVE  HttpInv'
<1>1. /\ c \in Live /\ cur' = c /\ revents' = [revents EXCEPT ![c] = {}]
      /\ revents[c] # {}
      /\ rev' = IF "IN" \in revents[c] THEN revents[c] \ {"HUP"}
                                       ELSE revents[c]
      /\ UNCHANGED <<phase, calls, objects, queues, fault>> /\ fault = "none"
  BY DEF HandlerBegins, BetweenHandlers, Up
<1>2. /\ TypeOK /\ AssertsHold /\ OwnedOnce /\ StatesOK /\ MapOK /\ FunctorsOK
      /\ ReportsOK
  BY DEF LoopInv, HttpInv
<1>3. Live' = Live
  BY <1>1 DEF Live, objects
<1>4. \A d : DestroyFunctors(d)' = DestroyFunctors(d)
  BY <1>1, SameQueues
<1>5. AssertsHold' /\ OwnedOnce'
  BY <1>1, <1>2, <1>3, <1>4 DEF AssertsHold, OwnedOnce, objects
<1>6. StatesOK' /\ MapOK'
  BY <1>1, <1>2, <1>3
     DEF StatesOK, MapOK, Listed, Closing, Destroyed, objects
<1>7. FunctorsOK'
  BY <1>1, <1>2 DEF FunctorsOK, queues
<1>8. ReportsOK'
  <2>1. \A d \in Conns : revents'[d] # {} => revents[d] # {}
    BY <1>1, <1>2 DEF TypeOK, Chans
  <2> QED
    BY <1>1, <1>2, <1>3, <2>1 DEF ReportsOK, objects
<1> QED
  BY <1>5, <1>6, <1>7, <1>8 DEF HttpInv

\* The kernel reuses a descriptor only after its connection is out of the
\* map, so the assert of Epoller.cc:69 holds for the new one.
LEMMA HttpAccept ==
    ASSUME LoopInv, LoopInv', HttpInv, AcceptorReads
    PROVE  HttpInv'
<1>1. /\ phase = "dispatch" /\ rev = {} /\ fault = "none"
      /\ revents' = [revents EXCEPT !["acceptor"] = {}]
      /\ UNCHANGED <<phase, cur, rev, calls, queues>>
  BY DEF AcceptorReads, BetweenHandlers, Up
<1>2. /\ TypeOK /\ ObjectsOK /\ QueuesOK
      /\ AssertsHold /\ OwnedOnce /\ StatesOK /\ MapOK /\ FunctorsOK
      /\ ReportsOK
  BY DEF LoopInv, HttpInv
<1>3. \A x \in Conns : revents'[x] = revents[x]
  BY <1>1, <1>2, ConstantsTyped DEF TypeOK, Chans
<1>4. FunctorsOK'
  BY <1>1, <1>2 DEF FunctorsOK, queues
<1>5. \A d : DestroyFunctors(d)' = DestroyFunctors(d)
  BY <1>1, SameQueues
<1>6. CASE UNCHANGED objects /\ UNCHANGED fault
  <2>1. Live' = Live
    BY <1>6 DEF Live, objects
  <2>2. AssertsHold' /\ OwnedOnce'
    BY <1>1, <1>2, <1>5, <1>6, <2>1 DEF AssertsHold, OwnedOnce, objects
  <2>3. StatesOK' /\ MapOK'
    BY <1>1, <1>2, <1>6, <2>1
       DEF StatesOK, MapOK, Listed, Closing, Destroyed, objects
  <2>4. ReportsOK'
    BY <1>1, <1>2, <1>3, <1>6 DEF ReportsOK, objects
  <2> QED
    BY <1>4, <2>2, <2>3, <2>4 DEF HttpInv
<1>7. ASSUME NEW c \in Conns \ Live, NEW fd \in FreeFds, NewConnection(c, fd)
      PROVE  HttpInv'
  <2>1. fd \in Fds /\ \A d \in Live : conn[d].ch.fd # fd
    BY DEF FreeFds
  <2>2. ChannelMap_[fd] = None
    BY <1>2, <2>1 DEF MapOK, TypeOK
  <2>3. PICK room \in BOOLEAN :
            conn' = [conn EXCEPT ![c] = ConnectEstablished(NewConn(fd, room))]
    BY <1>7, <2>2 DEF NewConnection
  <2>4. /\ ChannelMap_' = [ChannelMap_ EXCEPT ![fd] = c]
        /\ connections_' = connections_ \cup {c}
        /\ UNCHANGED fault
    BY <1>7, <2>2 DEF NewConnection
  <2> DEFINE k == ConnectEstablished(NewConn(fd, room))
  <2>5. k \in ConnType /\ k.ch.fd = fd /\ Listed(k)
    BY <2>1, EstablishedListed
  <2>6. k.state = "Connected" /\ conn' = [conn EXCEPT ![c] = k]
    BY <2>3, <2>5 DEF Listed
  <2> HIDE DEF k
  <2>7. k # None
    BY <2>5, NoneIsNoConnection
  <2>8. conn'[c] = k /\ \A d \in Conns \ {c} : conn'[d] = conn[d]
    BY <1>2, <2>6 DEF TypeOK
  <2>9. Live' = Live \cup {c}
    BY <2>7, <2>8 DEF Live
  <2>10. Listed(conn'[c]) /\ conn'[c].ch.fd = fd
    BY <2>5, <2>8
  <2>11. c \notin connections_ /\ c \notin Live /\ DestroyFunctors(c) = 0
    BY <1>2 DEF ObjectsOK, QueuesOK
  <2>12. AssertsHold' /\ OwnedOnce'
    BY <1>1, <1>2, <1>5, <2>4, <2>6, <2>8, <2>9, <2>11
       DEF AssertsHold, OwnedOnce, Live
  <2>13. StatesOK'
    <3>1. ASSUME NEW d \in Live'
          PROVE  IF d \in connections_' THEN Listed(conn'[d])
                 ELSE \/ Closing(conn'[d])
                      \/ Destroyed(conn'[d]) /\ phase' = "functors"
      <4>1. CASE d = c
        BY <2>4, <2>10, <4>1
      <4>2. CASE d # c
        <5>1. d \in Live /\ conn'[d] = conn[d]
          BY <2>8, <2>9, <4>2 DEF Live
        <5> QED
          BY <1>1, <1>2, <2>4, <4>2, <5>1 DEF StatesOK
      <4> QED
        BY <4>1, <4>2
    <3> QED
      BY <3>1 DEF StatesOK, Listed, Closing, Destroyed
  <2>14. MapOK'
    <3>1. \A d, e \in Live' : conn'[d].ch.fd = conn'[e].ch.fd => d = e
      BY <1>2, <2>1, <2>8, <2>9, <2>10 DEF MapOK, Live
    <3>2. /\ ChannelMap_'[fd] = c
          /\ \A x \in Fds \ {fd} : ChannelMap_'[x] = ChannelMap_[x]
      BY <1>2, <2>1, <2>4 DEF TypeOK
    <3>3. conn'[c].ch.index # -1
      BY <2>10 DEF Listed
    <3>4. ASSUME NEW x \in Fds, NEW d \in Conns
          PROVE  ChannelMap_'[x] = d
                   <=> d \in Live' /\ conn'[d].ch.fd = x
                                   /\ conn'[d].ch.index # -1
      <4>1. CASE d = c
        BY <1>2, <2>9, <2>10, <2>11, <3>2, <3>3, <4>1 DEF MapOK
      <4>2. CASE d # c
        <5>1. conn'[d] = conn[d] /\ (d \in Live' <=> d \in Live)
          BY <2>8, <2>9, <4>2
        <5> QED
          BY <1>2, <2>1, <3>2, <4>2, <5>1 DEF MapOK
      <4> QED
        BY <4>1, <4>2
    <3> QED
      BY <3>1, <3>4 DEF MapOK
  <2>15. ReportsOK'
    BY <1>1, <1>2, <1>3, <2>4 DEF ReportsOK
  <2> QED
    BY <1>4, <2>12, <2>13, <2>14, <2>15 DEF HttpInv
<1>8. CASE FreeFds # {}
  <2>1. PICK c \in Conns \ Live : NewConnection(c, Min(FreeFds))
    BY <1>8 DEF AcceptorReads
  <2>2. Min(FreeFds) \in FreeFds
    <3>1. FreeFds \in SUBSET Nat
      BY ConstantsTyped DEF FreeFds
    <3> QED
      BY <1>8, <3>1, MinIsElement
  <2> QED
    BY <1>7, <2>1, <2>2
<1> QED
  BY <1>6, <1>8 DEF AcceptorReads

\* POLLHUP on a listed connection closes it.
LEMMA HttpOnHup ==
    ASSUME LoopInv, LoopInv', HttpInv, OnHup
    PROVE  HttpInv'
<1>1. /\ phase = "dispatch" /\ cur \in Live /\ "HUP" \in rev
      /\ rev' = rev \ {"HUP"} /\ HandleClose(cur) /\ fault = "none"
      /\ UNCHANGED <<phase, revents, cur, tempFunctors, next>>
      /\ UNCHANGED calls
  BY DEF OnHup, Callback, InHandler, Up
<1>2. TypeOK /\ ObjectsOK /\ StatesOK /\ FunctorsOK /\ ReportsOK
  BY DEF LoopInv, HttpInv
<1>3. cur \in connections_ /\ Listed(conn[cur])
  BY <1>1, <1>2 DEF ReportsOK, StatesOK
<1>4. Shuts(cur)
  BY <1>1, <1>2, <1>3, HandleCloseShuts
<1>5. /\ rev' \subseteq rev /\ "HUP" \notin rev'
      /\ calls' \in Seq({"send", "shutdown", "spin"})
  BY <1>1, <1>2 DEF FunctorsOK
<1> QED
  BY <1>1, <1>4, <1>5, HttpHandlerStep

\* Fetching SO_ERROR leaves the connection as it is.
LEMMA HttpOnError ==
    ASSUME LoopInv, LoopInv', HttpInv, OnError
    PROVE  HttpInv'
<1> DEFINE k == [conn[cur] EXCEPT !.peer = IF @ = "rst" THEN "dead" ELSE @]
<1>1. /\ cur \in Live /\ rev' = rev \ {"ERR"} /\ fault = "none"
      /\ conn' = [conn EXCEPT ![cur] = k]
      /\ UNCHANGED <<phase, revents, cur, tempFunctors, next>>
      /\ UNCHANGED <<ChannelMap_, connections_, pendingFunctors_, fault>>
      /\ UNCHANGED calls
  BY DEF OnError, Callback, InHandler, Up, queues
<1>2. TypeOK /\ FunctorsOK
  BY DEF LoopInv, HttpInv
<1>3. /\ k \in ConnType /\ k.ch = conn[cur].ch /\ k.state = conn[cur].state
      /\ k.out = conn[cur].out
  <2>1. conn[cur] \in ConnType
    BY <1>1, <1>2, LiveTyped
  <2> QED
    BY <2>1 DEF ConnType
<1> HIDE DEF k
<1>4. Stays(cur)
  BY <1>1, <1>3, FieldStays
<1>5. rev' \subseteq rev /\ calls' \in Seq({"send", "shutdown", "spin"})
  BY <1>1, <1>2 DEF FunctorsOK
<1> QED
  BY <1>1, <1>4, <1>5, HttpHandlerStep

\* A connection torn and closed by this handler is read for the end of file,
\* and its removal fails the assert of TcpServer.cc:272.
LEMMA TornDies ==
    ASSUME LoopInv, HttpInv, OnRead, cur \notin connections_
    PROVE  HttpInv'
<1> DEFINE k == conn[cur]
<1>1. /\ cur \in Live /\ rev \cap readEvent_ # {} /\ "ERR" \notin rev
      /\ rev' = rev \ readEvent_
      /\ UNCHANGED <<phase, revents, cur, tempFunctors, next>>
  BY DEF OnRead, Callback, InHandler
<1>2. /\ ReadingOK /\ AssertsHold /\ OwnedOnce /\ StatesOK /\ MapOK
      /\ FunctorsOK /\ ReportsOK
  BY DEF LoopInv, HandlingOK, HttpInv
<1>3. k.rx = "urgent" /\ k.peer = "dead"
  BY <1>1, <1>2 DEF ReadingOK, Torn
<1>4. k.state = "Connected"
  <2>1. phase = "dispatch"
    BY DEF OnRead, Callback, InHandler
  <2> QED
    BY <1>1, <1>2, <2>1 DEF StatesOK, Closing
<1>5. HandleClose(cur) /\ UNCHANGED calls
  BY <1>3 DEF OnRead
<1>6. /\ fault' = "TcpServer.cc:272"
      /\ UNCHANGED <<objects, pendingFunctors_>>
  BY <1>4, <1>5 DEF HandleClose, RemoveConnection, Die
<1>7. Live' = Live
  BY <1>6 DEF Live, objects
<1>8. AssertsHold'
  <2>1. conn' = conn /\ connections_' = connections_
    BY <1>6 DEF objects
  <2> QED
    BY <1>1, <1>3, <1>6, <1>7, <2>1 DEF AssertsHold, ResetWithUrgentByte
<1>9. OwnedOnce'
  <2>1. \A c : DestroyFunctors(c)' = DestroyFunctors(c)
    BY <1>1, <1>6, SameQueues DEF queues
  <2> QED
    BY <1>2, <1>6, <1>7, <2>1 DEF OwnedOnce, objects
<1>10. StatesOK' /\ MapOK'
  BY <1>1, <1>2, <1>6, <1>7
     DEF StatesOK, MapOK, Listed, Closing, Destroyed, objects
<1>11. FunctorsOK' /\ ReportsOK'
  BY <1>1, <1>2, <1>5, <1>6, <1>7 DEF FunctorsOK, ReportsOK, objects
<1> QED
  BY <1>8, <1>9, <1>10, <1>11 DEF HttpInv

\* Data starts a message callback, end of file and errors close.
LEMMA HttpOnRead ==
    ASSUME HttpOnly, LoopInv, LoopInv', HttpInv, OnRead, cur \in connections_
    PROVE  HttpInv'
<1> DEFINE k == conn[cur]
           read == [k EXCEPT !.rx = "none"]
           told == [k EXCEPT !.rx = "none",
                             !.peer = IF @ = "rst" THEN "dead" ELSE @]
<1>1. /\ phase = "dispatch" /\ cur \in Live /\ fault = "none"
      /\ "HUP" \notin rev /\ rev' = rev \ readEvent_
      /\ UNCHANGED <<phase, revents, cur, tempFunctors, next>>
  BY DEF OnRead, Callback, InHandler, Up
<1>2. /\ TypeOK /\ ObjectsOK /\ HandlingOK
      /\ StatesOK /\ FunctorsOK
  BY DEF LoopInv, HttpInv
<1>3. Listed(k)
  BY <1>1, <1>2 DEF StatesOK
<1>4. /\ read \in ConnType /\ read.ch = k.ch
      /\ read.state = k.state /\ read.out = k.out
      /\ told \in ConnType /\ told.ch = k.ch
      /\ told.state = k.state /\ told.out = k.out
  <2>1. k \in ConnType
    BY <1>1, <1>2, LiveTyped
  <2> QED
    BY <2>1 DEF ConnType
<1>5. rev' \subseteq rev /\ "HUP" \notin rev'
  BY <1>1
<1>6. calls \in Seq({"send", "shutdown", "spin"})
  BY <1>2 DEF FunctorsOK
<1>7. \/ /\ conn' = [conn EXCEPT ![cur] = read] /\ calls' \in Callbacks
         /\ UNCHANGED <<ChannelMap_, connections_, pendingFunctors_, fault>>
      \/ HandleClose(cur) /\ UNCHANGED calls
      \/ /\ conn' = [conn EXCEPT ![cur] = told] /\ UNCHANGED calls
         /\ UNCHANGED <<ChannelMap_, connections_, pendingFunctors_, fault>>
  BY DEF OnRead
<1> HIDE DEF read, told
<1>8. CASE /\ conn' = [conn EXCEPT ![cur] = read] /\ calls' \in Callbacks
           /\ UNCHANGED <<ChannelMap_, connections_, pendingFunctors_, fault>>
  <2>1. Stays(cur)
    BY <1>1, <1>4, <1>8, FieldStays
  <2>2. calls' \in Seq({"send", "shutdown", "spin"})
    BY <1>8 DEF HttpOnly
  <2> QED
    BY <1>1, <1>5, <2>1, <2>2, HttpHandlerStep
<1>9. CASE HandleClose(cur) /\ UNCHANGED calls
  <2>1. Shuts(cur)
    BY <1>1, <1>2, <1>3, <1>9, HandleCloseShuts
  <2>2. calls' \in Seq({"send", "shutdown", "spin"})
    BY <1>6, <1>9
  <2> QED
    BY <1>1, <1>5, <2>1, <2>2, HttpHandlerStep
<1>10. CASE /\ conn' = [conn EXCEPT ![cur] = told] /\ UNCHANGED calls
            /\ UNCHANGED <<ChannelMap_, connections_, pendingFunctors_, fault>>
  <2>1. Stays(cur)
    BY <1>1, <1>4, <1>10, FieldStays
  <2>2. calls' \in Seq({"send", "shutdown", "spin"})
    BY <1>6, <1>10
  <2> QED
    BY <1>1, <1>5, <2>1, <2>2, HttpHandlerStep
<1> QED
  BY <1>7, <1>8, <1>9, <1>10

\* Output is written; a connection closed by this handler has none to write.
LEMMA HttpOnWrite ==
    ASSUME LoopInv, LoopInv', HttpInv, OnWrite
    PROVE  HttpInv'
<1>1. /\ phase = "dispatch" /\ cur \in Live /\ fault = "none"
      /\ rev' = rev \ writeEvent_ /\ HandleWrite(cur)
      /\ UNCHANGED <<phase, revents, cur, tempFunctors, next>>
      /\ UNCHANGED calls
  BY DEF OnWrite, Callback, InHandler, Up
<1>2. TypeOK /\ ObjectsOK /\ StatesOK /\ FunctorsOK
  BY DEF LoopInv, HttpInv
<1>3. Listed(conn[cur]) \/ Closing(conn[cur])
  BY <1>1, <1>2 DEF StatesOK
<1>4. Stays(cur)
  BY <1>1, <1>2, <1>3, HandleWriteStays
<1>5. rev' \subseteq rev /\ calls' \in Seq({"send", "shutdown", "spin"})
  BY <1>1, <1>2 DEF FunctorsOK
<1> QED
  BY <1>1, <1>4, <1>5, HttpHandlerStep

\* The next call of the message callback, on a connection that is listed.
LEMMA HttpCall ==
    ASSUME LoopInv, LoopInv', HttpInv, Call
    PROVE  HttpInv'
<1>1. /\ calls # <<>> /\ calls' = Tail(calls)
      /\ fault = "none" /\ Head(calls) # "spin"
      /\ UNCHANGED <<phase, revents, cur, tempFunctors, next>>
      /\ UNCHANGED rev
  BY DEF Call, Up, Spinning
<1>2. /\ TypeOK /\ ObjectsOK /\ HandlingOK
      /\ StatesOK /\ FunctorsOK
  BY DEF LoopInv, HttpInv
<1>3. calls \in Seq({"send", "shutdown", "spin"})
  BY <1>2 DEF FunctorsOK
<1>4. /\ Head(calls) \in {"send", "shutdown", "spin"}
      /\ calls' \in Seq({"send", "shutdown", "spin"})
  BY <1>1, <1>3
<1>5. cur \in connections_ /\ cur \in Live /\ Listed(conn[cur])
  BY <1>1, <1>2 DEF HandlingOK, ObjectsOK, StatesOK
<1>6. SendInLoop(cur) \/ ShutdownInLoop(cur)
  BY <1>1, <1>4, <1>5 DEF Call, Listed
<1>7. Stays(cur)
  BY <1>2, <1>5, <1>6, SendStays, ShutdownStays
<1>8. rev' \subseteq rev
  BY <1>1
<1> QED
  BY <1>1, <1>4, <1>5, <1>7, <1>8, HttpHandlerStep

\* No handler meets an object that was freed.
LEMMA HttpNotFreed ==
    ASSUME LoopInv, HttpInv
    PROVE  ~HandlerOnFreed
BY DEF LoopInv, HttpInv, ObjectsOK, ReportsOK, HandlerOnFreed

\* The functors queued by the handlers become the ones to run.
LEMMA HttpSwap ==
    ASSUME LoopInv, LoopInv', HttpInv, SwapFunctors
    PROVE  HttpInv'
<1>1. /\ phase = "dispatch" /\ phase' = "functors" /\ rev = {}
      /\ tempFunctors' = pendingFunctors_ /\ pendingFunctors_' = <<>>
      /\ next' = 0 /\ fault = "none"
      /\ UNCHANGED <<revents, rev, calls, objects, fault>>
  BY DEF SwapFunctors, BetweenHandlers, Up
<1>2. /\ TypeOK /\ TypeOK' /\ QueuesOK
      /\ AssertsHold /\ OwnedOnce /\ StatesOK /\ MapOK /\ FunctorsOK
      /\ ReportsOK
  BY DEF LoopInv, HttpInv
<1>3. Live' = Live
  BY <1>1 DEF Live, objects
<1>4. \A d : DestroyFunctors(d)' = DestroyFunctors(d)
  BY <1>2, SwappedAll
<1>5. AssertsHold' /\ OwnedOnce'
  BY <1>1, <1>2, <1>3, <1>4 DEF AssertsHold, OwnedOnce, objects
<1>6. StatesOK' /\ MapOK'
  BY <1>1, <1>2, <1>3
     DEF StatesOK, MapOK, Listed, Closing, Destroyed, objects
<1>7. FunctorsOK'
  BY <1>1, <1>2 DEF FunctorsOK
<1>8. ReportsOK'
  BY <1>1, <1>2 DEF ReportsOK, objects
<1> QED
  BY <1>5, <1>6, <1>7, <1>8 DEF HttpInv

\* A functor that runs destroys a connection that was closed and not yet
\* destroyed: the asserts of TcpServer.cc:50 and Epoller.cc:92 hold.
LEMMA HttpRun ==
    ASSUME LoopInv, LoopInv', HttpInv, RunFunctor
    PROVE  HttpInv'
<1> DEFINE c == tempFunctors[next + 1].conn
<1>1. /\ phase = "functors" /\ next < Len(tempFunctors) /\ next' = next + 1
      /\ UNCHANGED <<sched, tempFunctors>> /\ fault = "none"
  BY DEF RunFunctor, Up
<1>2. /\ TypeOK /\ TypeOK' /\ ObjectsOK /\ HandlingOK
      /\ AssertsHold /\ OwnedOnce /\ StatesOK /\ MapOK /\ FunctorsOK
      /\ ReportsOK
  BY DEF LoopInv, HttpInv
<1>3. /\ c \in Conns /\ tempFunctors[next + 1].op = "connectDestroyed"
      /\ tempFunctors[next + 1] = Destroy(c)
  <2>1. next + 1 \in DOMAIN tempFunctors
    BY <1>1, <1>2 DEF TypeOK
  <2>2. /\ tempFunctors[next + 1] \in FunctorType
        /\ tempFunctors[next + 1].op = "connectDestroyed"
    BY <1>2, <2>1 DEF TypeOK, FunctorsOK
  <2> QED
    BY <2>2 DEF Destroy, Functor, FunctorType
<1>4. \A d : RunCount(d) = RunCount(d)' + (IF Destroy(c) = Destroy(d)
                                           THEN 1 ELSE 0)
  <2> HIDE DEF c
  <2> QED
    BY <1>1, <1>2, <1>3, RanOne
<1>5. /\ c \in Live /\ conn[c].state = "Connected" /\ c \notin connections_
  <2>1. DestroyFunctors(c) \in Nat \ {0}
    BY <1>2, <1>4, FunctorsCounted, FunctorsCountedNext
  <2>2. (IF c \in connections_ THEN 1 ELSE 0) + DestroyFunctors(c)
          = IF c \in Live /\ conn[c].state = "Connected" THEN 1 ELSE 0
    BY <1>2, <1>3 DEF OwnedOnce
  <2> HIDE DEF c
  <2> QED
    BY <2>1, <2>2
<1>6. Closing(conn[c]) /\ ChannelMap_[conn[c].ch.fd] = c
  <2>1. Closing(conn[c])
    BY <1>2, <1>5 DEF StatesOK, Destroyed
  <2>2. conn[c].ch.fd \in Fds /\ conn[c].ch.index # -1
    BY <1>2, <1>5, <2>1, LiveTyped DEF Closing
  <2> QED
    BY <1>2, <1>3, <1>5, <2>1, <2>2 DEF MapOK
<1>7. ConnectDestroyed(c)
  BY <1>3, <1>5 DEF RunFunctor
<1> HIDE DEF c
<1>8. PICK k \in ConnType :
          /\ conn' = [conn EXCEPT ![c] = k]
          /\ k.ch.fd = conn[c].ch.fd /\ Destroyed(k)
  BY <1>2, <1>5, <1>6, <1>7, ConnectDestroyedDestroys
<1>9. /\ ChannelMap_' = [ChannelMap_ EXCEPT ![conn[c].ch.fd] = None]
      /\ UNCHANGED <<connections_, pendingFunctors_, fault>>
  BY <1>2, <1>5, <1>6, <1>7, ConnectDestroyedDestroys
<1>10. conn'[c] = k /\ \A d \in Conns \ {c} : conn'[d] = conn[d]
  BY <1>2, <1>3, <1>8 DEF TypeOK
<1>11. Live' = Live
  <2>1. k # None
    BY NoneIsNoConnection
  <2> QED
    BY <1>3, <1>5, <1>10, <2>1 DEF Live
<1>12. AssertsHold' /\ FunctorsOK' /\ ReportsOK'
  BY <1>1, <1>2, <1>9, <1>11
     DEF AssertsHold, FunctorsOK, ReportsOK, sched
<1>13. OwnedOnce'
  <2>1. ASSUME NEW d \in Conns
        PROVE  (IF d \in connections_' THEN 1 ELSE 0) + DestroyFunctors(d)'
                 = IF d \in Live' /\ conn'[d].state = "Connected"
                   THEN 1 ELSE 0
    <3>1. /\ DestroyFunctors(d) = PendingCount(d) + RunCount(d)
          /\ PendingCount(d) \in Nat /\ RunCount(d) \in Nat
          /\ DestroyFunctors(d)' = PendingCount(d)' + RunCount(d)'
          /\ RunCount(d)' \in Nat
      BY <1>2, FunctorsCounted, FunctorsCountedNext
    <3>2. PendingCount(d)' = PendingCount(d)
      BY <1>9 DEF PendingCount
    <3>3. RunCount(d) = RunCount(d)' + (IF d = c THEN 1 ELSE 0)
      BY <1>4 DEF Destroy, Functor
    <3>4. (IF d \in connections_ THEN 1 ELSE 0) + DestroyFunctors(d)
            = IF d \in Live /\ conn[d].state = "Connected" THEN 1 ELSE 0
      BY <1>2 DEF OwnedOnce
    <3>5. CASE d = c
      <4>1. conn'[d].state # "Connected"
        BY <1>8, <1>10, <3>5 DEF Destroyed
      <4>2. DestroyFunctors(d) = 1 /\ d \notin connections_
        BY <1>5, <3>1, <3>4, <3>5
      <4>3. DestroyFunctors(d)' = 0
        BY <3>1, <3>2, <3>3, <3>5, <4>2
      <4> QED
        BY <1>9, <4>1, <4>2, <4>3
    <3>6. CASE d # c
      <4>1. conn'[d] = conn[d]
        BY <1>10, <3>6
      <4> QED
        BY <1>9, <1>11, <3>1, <3>2, <3>3, <3>4, <3>6, <4>1
    <3> QED
      BY <3>5, <3>6
  <2> QED
    BY <2>1 DEF OwnedOnce
<1>14. StatesOK'
  <2>1. ASSUME NEW d \in Live'
        PROVE  IF d \in connections_' THEN Listed(conn'[d])
               ELSE \/ Closing(conn'[d])
                    \/ Destroyed(conn'[d]) /\ phase' = "functors"
    <3>1. CASE d = c
      BY <1>1, <1>5, <1>8, <1>9, <1>10, <3>1 DEF sched
    <3>2. CASE d # c
      <4>1. d \in Live /\ conn'[d] = conn[d]
        BY <1>10, <1>11, <3>2 DEF Live
      <4> QED
        BY <1>1, <1>2, <1>9, <4>1 DEF StatesOK, sched
    <3> QED
      BY <3>1, <3>2
  <2> QED
    BY <2>1 DEF StatesOK, Listed, Closing, Destroyed
<1>15. MapOK'
  <2> DEFINE fd == conn[c].ch.fd
  <2>1. fd \in Fds
    BY <1>2, <1>5, LiveTyped
  <2>2. /\ ChannelMap_'[fd] = None
        /\ \A x \in Fds \ {fd} : ChannelMap_'[x] = ChannelMap_[x]
    BY <1>2, <1>9, <2>1 DEF TypeOK
  <2>3. conn'[c].ch.fd = fd /\ conn'[c].ch.index = -1
    BY <1>8, <1>10 DEF Destroyed
  <2>4. \A d \in Live : conn'[d].ch.fd = conn[d].ch.fd
    BY <1>10, <2>3 DEF Live
  <2>5. \A d, e \in Live' : conn'[d].ch.fd = conn'[e].ch.fd => d = e
    <3> HIDE DEF fd
    <3> QED
      BY <1>2, <1>11, <2>4 DEF MapOK
  <2>6. ASSUME NEW x \in Fds, NEW d \in Conns
        PROVE  ChannelMap_'[x] = d
                 <=> d \in Live' /\ conn'[d].ch.fd = x
                                 /\ conn'[d].ch.index # -1
    <3>1. CASE d = c
      <4>1. ChannelMap_'[x] # c
        <5>1. CASE x = fd
          BY <1>3, <2>2, <5>1, ConstantsTyped
        <5>2. CASE x # fd
          BY <1>2, <1>3, <2>2, <5>2 DEF MapOK
        <5> QED
          BY <5>1, <5>2
      <4> QED
        BY <2>3, <3>1, <4>1
    <3>2. CASE d # c
      <4>1. conn'[d] = conn[d] /\ (d \in Live' <=> d \in Live)
        BY <1>10, <1>11, <3>2
      <4>2. CASE x = fd
        <5>1. ChannelMap_'[x] # d
          BY <2>2, <4>2, ConstantsTyped
        <5>2. ~(d \in Live /\ conn[d].ch.fd = x)
          BY <1>2, <1>5, <3>2, <4>2 DEF MapOK
        <5> QED
          BY <4>1, <5>1, <5>2
      <4>3. CASE x # fd
        BY <1>2, <2>2, <4>1, <4>3 DEF MapOK
      <4> QED
        BY <4>2, <4>3
    <3> QED
      BY <3>1, <3>2
  <2> QED
    BY <2>5, <2>6 DEF MapOK
<1> QED
  BY <1>12, <1>13, <1>14, <1>15 DEF HttpInv

\* Everything queued has been destroyed, so what is freed is out of the map
\* and what is left is listed.
LEMMA EndFrees ==
    ASSUME HttpOnly, LoopInv, HttpInv, EndFunctors
    PROVE  /\ \A c \in Live : c \notin connections_ => Destroyed(conn[c])
           /\ Live' = connections_
           /\ \A c \in Live' : c \in Live /\ conn'[c] = conn[c]
<1> DEFINE waiting == {pendingFunctors_[i] : i \in DOMAIN pendingFunctors_}
<1>1. /\ phase = "functors" /\ next = Len(tempFunctors)
      /\ FreeUnowned(connections_, waiting, worker)
      /\ UNCHANGED <<ChannelMap_, connections_>>
  BY DEF EndFunctors
<1>2. TypeOK /\ ObjectsOK /\ OwnedOnce /\ StatesOK /\ FunctorsOK
  BY DEF LoopInv, HttpInv
<1>3. pendingFunctors_ = <<>>
  BY <1>1, <1>2 DEF FunctorsOK
<1>4. waiting = {}
  BY <1>3
<1>5. /\ \A c \in Live :
            c \in Live' <=> \/ c \in connections_
                            \/ Destroy(c) \in waiting
                            \/ \E w \in Workers : worker[w].conn = c
      /\ \A c \in Live' : c \in Live /\ conn'[c] = conn[c]
  <2> HIDE DEF waiting
  <2> QED
    BY <1>1, <1>2, FreeStep
<1>6. Live' = connections_
  BY <1>2, <1>4, <1>5 DEF HttpOnly, ObjectsOK
<1>7. ASSUME NEW c \in Live, c \notin connections_
      PROVE  Destroyed(conn[c])
  <2>1. c \in Conns
    BY <1>2, LiveTyped
  <2>2. DestroyFunctors(c) = 0
    <3>1. PendingCount(c) = 0
      BY <1>3, CountEmpty DEF PendingCount
    <3> QED
      BY <1>1, <1>2, <3>1, NoneLeft, FunctorsCounted
  <2>3. conn[c].state # "Connected"
    BY <1>2, <1>7, <2>1, <2>2 DEF OwnedOnce
  <2> QED
    BY <1>2, <1>7, <2>3 DEF StatesOK, Closing
<1> QED
  BY <1>5, <1>6, <1>7

LEMMA HttpEnd ==
    ASSUME HttpOnly, LoopInv, LoopInv', HttpInv, EndFunctors
    PROVE  HttpInv'
<1>1. /\ phase = "functors" /\ phase' = "poll" /\ next = Len(tempFunctors)
      /\ tempFunctors' = <<>> /\ next' = 0 /\ fault = "none"
      /\ UNCHANGED <<revents, cur, rev, calls, ChannelMap_, connections_,
                     pendingFunctors_, fault>>
  BY DEF EndFunctors, Up
<1>2. /\ TypeOK /\ TypeOK' /\ ObjectsOK /\ HandlingOK
      /\ AssertsHold /\ OwnedOnce /\ StatesOK /\ MapOK /\ FunctorsOK
      /\ ReportsOK
  BY DEF LoopInv, HttpInv
<1>3. /\ \A c \in Live : c \notin connections_ => Destroyed(conn[c])
      /\ Live' = connections_
      /\ \A c \in Live' : c \in Live /\ conn'[c] = conn[c]
  BY EndFrees
<1>4. \A d : DestroyFunctors(d)' = DestroyFunctors(d)
  <2> TAKE d
  <2>1. RunCount(d) = 0 /\ RunCount(d)' = 0
    BY <1>1, <1>2, NoneLeft, CountEmpty DEF RunCount
  <2>2. PendingCount(d)' = PendingCount(d)
    BY <1>1 DEF PendingCount
  <2> QED
    BY <1>2, <2>1, <2>2, FunctorsCounted, FunctorsCountedNext
<1>5. OwnedOnce'
  <2>1. \A c \in Conns : c \in Live' /\ conn'[c].state = "Connected"
                           <=> c \in Live /\ conn[c].state = "Connected"
    BY <1>3 DEF Destroyed
  <2> QED
    BY <1>1, <1>2, <1>4, <2>1 DEF OwnedOnce
<1>6. StatesOK'
  <2>1. \A c \in Live' : c \in connections_' /\ Listed(conn'[c])
    BY <1>1, <1>2, <1>3 DEF StatesOK
  <2> QED
    BY <2>1 DEF StatesOK, Listed
<1>7. MapOK'
  <2>1. \A d, e \in Live' : conn'[d].ch.fd = conn'[e].ch.fd => d = e
    BY <1>2, <1>3 DEF MapOK
  <2>2. ASSUME NEW x \in Fds, NEW d \in Conns
        PROVE  ChannelMap_'[x] = d
                 <=> d \in Live' /\ conn'[d].ch.fd = x
                                 /\ conn'[d].ch.index # -1
    BY <1>1, <1>2, <1>3 DEF MapOK, Destroyed
  <2> QED
    BY <2>1, <2>2 DEF MapOK
<1>8. FunctorsOK'
  BY <1>1, <1>2 DEF FunctorsOK
<1>9. AssertsHold' /\ ReportsOK'
  BY <1>1, <1>2, <1>3 DEF AssertsHold, ReportsOK, HandlingOK
<1> QED
  BY <1>5, <1>6, <1>7, <1>8, <1>9 DEF HttpInv

\* Every step of the program as it is preserves the invariant.
LEMMA HttpStepKeeps ==
    ASSUME HttpOnly, LoopInv, LoopInv', HttpInv, [Next]_vars
    PROVE  HttpInv'
<1>1. CASE UNCHANGED <<sched, objects, queues, fault>>
  BY <1>1, HttpOutsideStep
<1>2. CASE LoopStep
  BY <1>2, HttpPoll, HttpAccept, HttpHandlerBegins, HttpOnHup, HttpOnError,
     HttpOnRead, TornDies, HttpOnWrite, HttpCall, HttpNotFreed, HttpSwap, HttpRun,
     HttpEnd DEF LoopStep
<1>3. CASE \E c \in Conns : PeerActs(c)
  BY <1>3, HttpPeerActs
<1>4. ASSUME NEW w \in Workers
      PROVE  FALSE
  BY <1>4 DEF HttpOnly
<1>5. Start \/ PeerConnect \/ Ended \/ UNCHANGED vars
        => UNCHANGED <<sched, objects, queues, fault>>
  BY DEF Start, PeerConnect, Ended, vars
<1> QED
  BY <1>1, <1>2, <1>3, <1>4, <1>5 DEF Next

\* The program as it is, whatever the order of data, end of file, resets and
\* descriptor reuse, and whatever the sequences of send and shutdown that the
\* message callback makes: the invariant the next five are parts of.
THEOREM HttpInvariant == HttpOnly => (Spec => [](LoopInv /\ HttpInv))
<1> SUFFICES ASSUME HttpOnly PROVE Spec => [](LoopInv /\ HttpInv)
  OBVIOUS
<1>1. Init => LoopInv /\ HttpInv
  BY LoopInit, HttpInit
<1>2. LoopInv /\ HttpInv /\ [Next]_vars => (LoopInv /\ HttpInv)'
  BY LoopStepKeeps, HttpStepKeeps
<1> QED
  BY <1>1, <1>2, PTL DEF Spec

\* Whatever poll reports, in any order, no assert of TcpServer.cc or Epoller.cc
\* fails and no freed object is entered, but for one: a reset that poll reports
\* with an urgent byte unread fails TcpServer.cc:272 (Channel.cc:42-51).
THEOREM NoAssertFails == HttpOnly => (Spec => []AssertsHold)
<1> SUFFICES ASSUME HttpOnly PROVE Spec => []AssertsHold
  OBVIOUS
<1>1. Spec => [](LoopInv /\ HttpInv)
  BY HttpInvariant
<1>2. LoopInv /\ HttpInv => AssertsHold
  BY DEF HttpInv
<1> QED
  BY <1>1, <1>2, PTL

\* TcpServer.cc:93-100, 261-275: the map owns an open connection, then one
\* connectDestroyed functor, then nothing.
THEOREM OneOwner == HttpOnly => (Spec => []OwnedOnce)
<1> SUFFICES ASSUME HttpOnly PROVE Spec => []OwnedOnce
  OBVIOUS
<1>1. Spec => [](LoopInv /\ HttpInv)
  BY HttpInvariant
<1>2. LoopInv /\ HttpInv => OwnedOnce
  BY DEF HttpInv
<1> QED
  BY <1>1, <1>2, PTL

\* TcpServer.cc:266-275: nothing poll has reported, nothing in its handler and
\* nothing in ChannelMap_ is freed or has given up its descriptor.
THEOREM NoneDangles == HttpOnly => (Spec => []NothingDangles)
<1> SUFFICES ASSUME HttpOnly PROVE Spec => []NothingDangles
  OBVIOUS
<1>1. Spec => [](LoopInv /\ HttpInv)
  BY HttpInvariant
<1>2. LoopInv /\ HttpInv => NothingDangles
  <2> SUFFICES ASSUME LoopInv, HttpInv PROVE NothingDangles
    OBVIOUS
  <2>1. /\ TypeOK /\ ObjectsOK /\ HandlingOK
        /\ MapOK /\ ReportsOK
    BY DEF LoopInv, HttpInv
  <2>2. \A c \in Conns : revents[c] # {} => c \in Live
    BY <2>1 DEF ObjectsOK, ReportsOK
  <2>3. rev # {} \/ calls # <<>> => cur \in Live
    BY <2>1 DEF ObjectsOK, HandlingOK, ReportsOK
  <2>4. ASSUME NEW fd \in Fds, ChannelMap_[fd] # None
        PROVE  /\ ChannelMap_[fd] \in Live
               /\ conn[ChannelMap_[fd]].ch.fd = fd
    <3>1. ChannelMap_[fd] \in Conns
      BY <2>1, <2>4 DEF TypeOK
    <3> QED
      BY <2>1, <3>1 DEF MapOK
  <2> QED
    BY <2>2, <2>3, <2>4 DEF NothingDangles
<1> QED
  BY <1>1, <1>2, PTL

\* TcpServer.cc:75-90, 125-155: when the loop goes to sleep every connection
\* left is listed, asks to be read, and for POLLOUT exactly while it has output,
\* and the kernel watches it for that unless it had no room to.
THEOREM QuietWhenAsleep == HttpOnly => (Spec => []QuiescentConnections)
<1> SUFFICES ASSUME HttpOnly PROVE Spec => []QuiescentConnections
  OBVIOUS
<1>1. Spec => [](LoopInv /\ HttpInv)
  BY HttpInvariant
<1>2. LoopInv /\ HttpInv => QuiescentConnections
  <2> SUFFICES ASSUME LoopInv, HttpInv, phase = "poll", NEW c \in Live
               PROVE  /\ c \in connections_ /\ conn[c].ch.index = 1
                      /\ conn[c].ch.events = readEvent_ \cup
                            (IF conn[c].out THEN writeEvent_ ELSE {})
                      /\ conn[c].ch.reg = IF conn[c].ch.refused THEN {}
                                          ELSE {conn[c].ch.events}
    BY DEF QuiescentConnections
  <2>1. /\ TypeOK /\ ObjectsOK /\ QueuesOK
        /\ OwnedOnce /\ StatesOK /\ FunctorsOK
    BY DEF LoopInv, HttpInv
  <2>2. c \in Conns
    BY <2>1, LiveTyped
  <2>3. DestroyFunctors(c) = 0
    <3>1. pendingFunctors_ = <<>> /\ tempFunctors = <<>> /\ next = 0
      BY <2>1 DEF FunctorsOK, QueuesOK, TypeOK
    <3>2. PendingCount(c) = 0 /\ RunCount(c) = 0
      BY <3>1, CountEmpty DEF PendingCount, RunCount
    <3> QED
      BY <2>1, <3>2, FunctorsCounted
  <2>4. c \in connections_ /\ Listed(conn[c])
    <3>1. ~Destroyed(conn[c])
      BY <2>1 DEF StatesOK, Listed, Closing, Destroyed
    <3>2. conn[c].state = "Connected"
      BY <2>1, <3>1 DEF StatesOK, Listed, Closing
    <3>3. (IF c \in connections_ THEN 1 ELSE 0) + DestroyFunctors(c) = 1
      BY <2>1, <2>2, <3>2 DEF OwnedOnce
    <3>4. c \in connections_
      BY <2>3, <3>3
    <3> QED
      BY <2>1, <3>4 DEF StatesOK
  <2>5. InStep(conn[c].ch)
    BY <2>1 DEF ObjectsOK
  <2> QED
    BY <2>4, <2>5 DEF Listed, InStep
<1> QED
  BY <1>1, <1>2, PTL

\* Epoller.cc:89-108, TcpServer.cc:47-59: an object is freed, and its descriptor
\* given back, only once its channel is out of epoll and its map.
THEOREM FreedOnlyAfterRemoval == HttpOnly => (Spec => FreedAfterRemoval)
<1> SUFFICES ASSUME HttpOnly PROVE Spec => FreedAfterRemoval
  OBVIOUS
<1>1. Spec => [](LoopInv /\ HttpInv)
  BY HttpInvariant
<1>2. ASSUME LoopInv, HttpInv, [Next]_vars, NEW c \in Live, conn'[c] = None
      PROVE  /\ conn[c].state = "Disconnected"
             /\ conn[c].ch.index = -1 /\ conn[c].ch.reg = {}
  <2>1. c \notin Live'
    BY <1>2 DEF Live
  <2>2. CASE EndFunctors
    <3>1. Destroyed(conn[c])
      <4>1. c \notin connections_
        BY <1>2, <2>1, <2>2, EndFrees
      <4> QED
        BY <1>2, <2>2, <4>1, EndFrees
    <3>2. InStep(conn[c].ch)
      BY <1>2 DEF LoopInv, ObjectsOK
    <3> QED
      BY <3>1, <3>2 DEF Destroyed, InStep
  <2>3. CASE ~EndFunctors
    <3>1. Live \subseteq Live'
      BY <1>2, <2>3, OnlyDropsFree DEF HttpOnly
    <3> QED
      BY <2>1, <3>1
  <2> QED
    BY <2>2, <2>3
<1>3. LoopInv /\ HttpInv /\ [Next]_vars
        => [\A c \in Live : conn'[c] = None =>
              /\ conn[c].state = "Disconnected"
              /\ conn[c].ch.index = -1 /\ conn[c].ch.reg = {}]_vars
  BY <1>2
<1> QED
  BY <1>1, <1>3, PTL DEF FreedAfterRemoval, Spec
=============================================================================
