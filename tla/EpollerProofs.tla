--------------------------- MODULE EpollerProofs ---------------------------
(***************************************************************************)
(* Theorems about Epoller, and Poller beside it, for any channels and      *)
(* descriptors.                                                            *)
(***************************************************************************)
EXTENDS Poller, SequenceTheorems, TLAPS

-----------------------------------------------------------------------------
(* What the operators of Channel preserve, for any channel in any status.  *)

\* The kernel's registration of a channel is what its index says, unless the
\* kernel had no room for it.
InStep(ch) ==
    /\ ch.reg = IF ch.index = 1 /\ ~ch.refused THEN {ch.events} ELSE {}
    /\ ~ch.ctlError

\* The constructor (Channel.cc:15-23) makes a channel the kernel knows nothing
\* of, marked as not in the map.
LEMMA NewChannelInStep ==
    ASSUME NEW fd \in Fds, NEW room \in BOOLEAN
    PROVE  /\ NewChannel(fd, room) \in ChannelType(Fds)
           /\ InStep(NewChannel(fd, room))
           /\ NewChannel(fd, room).fd = fd
           /\ NewChannel(fd, room).index = -1
           /\ NewChannel(fd, room).events = {}
BY DEF NewChannel, ChannelType, InStep, Interest

\* Room found or lost changes neither what is asked for nor what is registered.
LEMMA RoomInStep ==
    ASSUME NEW ch \in ChannelType(Fds), NEW room \in BOOLEAN
    PROVE  LET new == [ch EXCEPT !.room = room]
           IN  /\ new \in ChannelType(Fds)
               /\ InStep(ch) => InStep(new)
               /\ new.fd = ch.fd /\ new.index = ch.index
               /\ new.events = ch.events /\ new.reg = ch.reg
               /\ new.refused = ch.refused
BY DEF ChannelType, InStep

\* An epoll_ctl keeps the fields of a channel in their sets, whatever it is.
LEMMA EpollCtlType ==
    ASSUME NEW ch \in ChannelType(Fds), NEW op
    PROVE  /\ EpollCtl(op, ch) \in ChannelType(Fds)
           /\ EpollCtl(op, ch).fd = ch.fd
           /\ EpollCtl(op, ch).events = ch.events
           /\ EpollCtl(op, ch).index = ch.index
<1> DEFINE reg == IF CtlFails(op, ch) THEN ch.reg ELSE IF op = "DEL" THEN {}
                  ELSE {ch.events}
           noRoom == op = "ADD" /\ ch.reg = {} /\ ~ch.room
           refused == IF op = "MOD" THEN ch.refused ELSE noRoom
           ctlError == ch.ctlError \/ (CtlFails(op, ch) /\ ~noRoom /\ ~ch.refused)
<1>1. EpollCtl(op, ch) = [ch EXCEPT !.reg = reg, !.refused = refused,
                                    !.ctlError = ctlError]
  BY Zenon DEF EpollCtl
<1>2. /\ ch.events \in SUBSET Interest /\ ch.refused \in BOOLEAN
      /\ ch.reg \in {{}} \cup {{m} : m \in SUBSET Interest}
  BY DEF ChannelType
<1>3. reg \in {{}} \cup {{m} : m \in SUBSET Interest}
  BY <1>2
<1>4. refused \in BOOLEAN /\ ctlError \in BOOLEAN
  BY <1>2
<1> HIDE DEF reg, noRoom, refused, ctlError
<1> QED
  BY <1>1, <1>3, <1>4 DEF ChannelType

\* What an epoll_ctl leaves in the kernel.
LEMMA EpollCtlEffect ==
    ASSUME NEW ch \in ChannelType(Fds), NEW op \in {"ADD", "MOD", "DEL"}
    PROVE  LET new == EpollCtl(op, ch)
           IN  /\ new.reg = IF CtlFails(op, ch) THEN ch.reg
                            ELSE IF op = "DEL" THEN {} ELSE {ch.events}
               /\ new.refused <=> IF op = "MOD" THEN ch.refused
                                  ELSE op = "ADD" /\ ch.reg = {} /\ ~ch.room
               /\ new.ctlError <=>
                    \/ ch.ctlError
                    \/ /\ CtlFails(op, ch) /\ ~ch.refused
                       /\ ~(op = "ADD" /\ ch.reg = {} /\ ~ch.room)
BY DEF EpollCtl, ChannelType

\* index_ is the code's own, and no part of what the kernel is told.
LEMMA IndexSet ==
    ASSUME NEW ch \in ChannelType(Fds), NEW index \in {-1, 1, 2}
    PROVE  LET new == [ch EXCEPT !.index = index]
           IN  /\ new \in ChannelType(Fds) /\ new.fd = ch.fd
               /\ new.index = index /\ new.events = ch.events
               /\ new.reg = ch.reg /\ new.refused = ch.refused
               /\ new.ctlError = ch.ctlError
BY DEF ChannelType

\* Whatever mask is asked for, in whatever status, the epoll_ctl chosen is
\* the one the kernel accepts, if it has room.
LEMMA SetEventsInStep ==
    ASSUME NEW ch \in ChannelType(Fds), InStep(ch),
           NEW mask \in SUBSET Interest
    PROVE  /\ SetEvents(ch, mask) \in ChannelType(Fds)
           /\ InStep(SetEvents(ch, mask))
           /\ SetEvents(ch, mask).fd = ch.fd
           /\ SetEvents(ch, mask).events = mask
           /\ SetEvents(ch, mask).index =
                IF ch.index = 1 /\ mask = {} THEN 2 ELSE 1
<1> DEFINE asked == [ch EXCEPT !.events = mask]
           op == IF ch.index # 1 THEN "ADD"
                 ELSE IF mask = {} THEN "DEL" ELSE "MOD"
           told == EpollCtl(op, asked)
           index == IF ch.index = 1 /\ mask = {} THEN 2 ELSE 1
           new == [told EXCEPT !.index = index]
<1>1. /\ asked \in ChannelType(Fds) /\ asked.fd = ch.fd
      /\ asked.events = mask /\ asked.index = ch.index /\ asked.reg = ch.reg
      /\ asked.room = ch.room /\ asked.refused = ch.refused
      /\ asked.ctlError = ch.ctlError
  BY DEF ChannelType
<1> HIDE DEF asked
<1>2. op \in {"ADD", "MOD", "DEL"} /\ index \in {-1, 1, 2}
  OBVIOUS
<1>3. told \in ChannelType(Fds) /\ told.fd = ch.fd
      /\ told.events = mask /\ told.index = ch.index
  BY <1>1, EpollCtlType
<1>4. /\ told.reg = IF CtlFails(op, asked) THEN asked.reg
                    ELSE IF op = "DEL" THEN {} ELSE {asked.events}
      /\ told.refused <=> IF op = "MOD" THEN asked.refused
                          ELSE op = "ADD" /\ asked.reg = {} /\ ~asked.room
      /\ told.ctlError <=>
           \/ asked.ctlError
           \/ /\ CtlFails(op, asked) /\ ~asked.refused
              /\ ~(op = "ADD" /\ asked.reg = {} /\ ~asked.room)
  BY <1>1, <1>2, EpollCtlEffect
<1>5. SetEvents(ch, mask) = new
  <2>1. SetEvents(ch, mask) = UpdateChannel(asked)
    BY DEF SetEvents, asked
  <2>2. CASE ch.index = 1 /\ mask = {}
    BY <1>1, <2>1, <2>2 DEF UpdateChannel
  <2>3. CASE ch.index = 1 /\ mask # {}
    <3>1. SetEvents(ch, mask) = told
      BY <1>1, <2>1, <2>3 DEF UpdateChannel
    <3>2. told.index = 1 /\ index = 1
      BY <1>3, <2>3
    <3>3. [told EXCEPT !.index = 1] = told
      <4> HIDE DEF told
      <4> QED
        BY <1>3, <3>2 DEF ChannelType
    <3> QED
      BY <3>1, <3>2, <3>3
  <2>4. CASE ch.index # 1
    BY <1>1, <2>1, <2>4 DEF UpdateChannel
  <2> QED
    BY <2>2, <2>3, <2>4
<1> HIDE DEF told
<1>6. /\ new \in ChannelType(Fds) /\ new.fd = ch.fd
      /\ new.index = index /\ new.events = mask
      /\ new.reg = told.reg /\ new.refused = told.refused
      /\ new.ctlError = told.ctlError
  BY <1>2, <1>3, IndexSet
<1> HIDE DEF new
<1>7. InStep(new)
  <2>1. /\ ch.reg = IF ch.index = 1 /\ ~ch.refused THEN {ch.events} ELSE {}
        /\ ~ch.ctlError
    BY DEF InStep
  <2>2. CASE ch.index # 1
    <3>1. told.reg = IF ch.room THEN {mask} ELSE {}
      BY <1>1, <1>4, <2>1, <2>2 DEF CtlFails
    <3>2. (told.refused <=> ~ch.room) /\ ~told.ctlError
      BY <1>1, <1>4, <2>1, <2>2 DEF CtlFails
    <3> QED
      BY <1>6, <2>2, <3>1, <3>2 DEF InStep
  <2>3. CASE ch.index = 1 /\ mask = {}
    <3>1. told.reg = {}
      BY <1>1, <1>4, <2>1, <2>3 DEF CtlFails
    <3>2. ~told.ctlError
      BY <1>1, <1>4, <2>1, <2>3 DEF CtlFails
    <3> QED
      BY <1>6, <2>3, <3>1, <3>2 DEF InStep
  <2>4. CASE ch.index = 1 /\ mask # {}
    <3>1. told.reg = IF ch.refused THEN {} ELSE {mask}
      BY <1>1, <1>4, <2>1, <2>4 DEF CtlFails
    <3>2. (told.refused <=> ch.refused) /\ ~told.ctlError
      BY <1>1, <1>4, <2>1, <2>4 DEF CtlFails
    <3> QED
      BY <1>6, <2>4, <3>1, <3>2 DEF InStep
  <2> QED
    BY <2>2, <2>3, <2>4
<1> QED
  BY <1>5, <1>6, <1>7

\* removeChannel leaves nothing in the kernel, also after the ADD without
\* interest that a second disableAll makes.
LEMMA RemoveChannelInStep ==
    ASSUME NEW ch \in ChannelType(Fds), InStep(ch)
    PROVE  /\ RemoveChannel(ch) \in ChannelType(Fds)
           /\ InStep(RemoveChannel(ch))
           /\ RemoveChannel(ch).fd = ch.fd
           /\ RemoveChannel(ch).events = {} /\ RemoveChannel(ch).index = -1
<1> PICK off : off = DisableAll(ch)
  OBVIOUS
<1>1. off \in ChannelType(Fds) /\ InStep(off) /\ off.fd = ch.fd /\ off.events = {}
  BY SetEventsInStep DEF DisableAll
<1> PICK told : told = IF off.index = 1 THEN EpollCtl("DEL", off) ELSE off
  OBVIOUS
<1>2. /\ told \in ChannelType(Fds) /\ told.fd = ch.fd /\ told.events = {}
      /\ told.reg = {} /\ ~told.ctlError
  <2>1. CASE off.index = 1
    <3>1. told \in ChannelType(Fds) /\ told.fd = ch.fd /\ told.events = {}
      BY <1>1, <2>1, EpollCtlType
    <3>2. off.reg = (IF ~off.refused THEN {off.events} ELSE {}) /\ ~off.ctlError
      BY <1>1, <2>1 DEF InStep
    <3>3. /\ told.reg = IF CtlFails("DEL", off) THEN off.reg ELSE {}
          /\ told.ctlError <=> \/ off.ctlError
                               \/ CtlFails("DEL", off) /\ ~off.refused
      BY <1>1, <2>1, EpollCtlEffect
    <3> QED
      BY <3>1, <3>2, <3>3 DEF CtlFails
  <2>2. CASE off.index # 1
    BY <1>1, <2>2 DEF InStep
  <2> QED
    BY <2>1, <2>2
<1> PICK index \in {-1, 1, 2} : index = -1
  OBVIOUS
<1> DEFINE new == [told EXCEPT !.index = index]
<1>3. RemoveChannel(ch) = new
  BY DEF RemoveChannel
<1>4. /\ new \in ChannelType(Fds) /\ new.fd = ch.fd
      /\ new.index = -1 /\ new.events = {}
      /\ new.reg = {} /\ new.ctlError = told.ctlError
  <2>1. /\ new \in ChannelType(Fds) /\ new.fd = told.fd
        /\ new.index = index /\ new.events = told.events
        /\ new.reg = told.reg /\ new.ctlError = told.ctlError
    BY <1>2 DEF ChannelType
  <2> HIDE DEF new
  <2> QED
    BY <1>2, <2>1
<1> HIDE DEF new
<1>5. InStep(new)
  BY <1>2, <1>4 DEF InStep
<1> QED
  BY <1>3, <1>4, <1>5

\* The four calls of Channel.h:27-30 keep the channel in step with the kernel
\* and in the map.
LEMMA UpdatesInStep ==
    ASSUME NEW ch \in ChannelType(Fds), InStep(ch),
           NEW new \in {EnableReading(ch), EnableWriting(ch),
                        DisableWriting(ch), DisableAll(ch)}
    PROVE  /\ new \in ChannelType(Fds) /\ InStep(new)
           /\ new.fd = ch.fd /\ new.index # -1
<1>1. ch.events \in SUBSET Interest
  BY DEF ChannelType
<1>2. \A mask \in SUBSET Interest :
        /\ SetEvents(ch, mask) \in ChannelType(Fds)
        /\ InStep(SetEvents(ch, mask))
        /\ SetEvents(ch, mask).fd = ch.fd
        /\ SetEvents(ch, mask).index \in {1, 2}
  BY SetEventsInStep
<1>3. PICK mask \in SUBSET Interest : new = SetEvents(ch, mask)
  BY <1>1 DEF EnableReading, EnableWriting, DisableWriting, DisableAll, Interest
<1> QED
  BY <1>2, <1>3

-----------------------------------------------------------------------------
(* The inductive invariant.                                                *)

\* Two live channels never share a descriptor: it is what makes an entry of
\* ChannelMap_ belong to one of them.
OneChannelPerFd ==
    \A c, d \in Live : chan[c].fd = chan[d].fd => c = d

EpollInv ==
    /\ TypeOK
    /\ OneChannelPerFd
    /\ MapAgrees
    /\ AssertsHold
    /\ \A c \in Live : InStep(chan[c])

\* The inductive invariant holds of an Epoller that has no channels.
LEMMA EpollInit == Init => EpollInv
BY NoChannelIsNone
   DEF Init, EpollInv, TypeOK, OneChannelPerFd, MapAgrees, AssertsHold, Live

\* A channel replaced by another state of itself, or created, or freed.
LEMMA CreateStep ==
    ASSUME EpollInv, NEW c \in Channels, NEW fd \in Fds, Create(c, fd)
    PROVE  EpollInv'
<1>0. PICK room \in BOOLEAN : chan' = [chan EXCEPT ![c] = NewChannel(fd, room)]
  BY DEF Create
<1> PICK new : new = NewChannel(fd, room)
  OBVIOUS
<1>1. /\ chan' = [chan EXCEPT ![c] = new]
      /\ UNCHANGED <<ChannelMap_, assertFailed>>
      /\ c \notin Live /\ \A d \in Live : chan[d].fd # fd
  BY <1>0 DEF Create
<1>2. /\ new \in ChannelType(Fds) /\ new # NoChannel
      /\ InStep(new) /\ new.fd = fd /\ new.index = -1
  BY NewChannelInStep, NoChannelIsNone
<1>3. chan'[c] = new /\ \A d \in Channels \ {c} : chan'[d] = chan[d]
  BY <1>1 DEF EpollInv, TypeOK
<1>4. Live' = Live \cup {c}
  BY <1>2, <1>3 DEF Live
<1>5. TypeOK'
  BY <1>1, <1>2 DEF EpollInv, TypeOK
<1>6. OneChannelPerFd'
  BY <1>1, <1>2, <1>3, <1>4 DEF EpollInv, OneChannelPerFd, Live
<1>7. MapAgrees'
  BY <1>1, <1>2, <1>3, <1>4 DEF EpollInv, MapAgrees, Live
<1>8. AssertsHold' /\ \A d \in Live' : InStep(chan'[d])
  BY <1>1, <1>2, <1>3, <1>4 DEF EpollInv, AssertsHold, Live
<1> QED
  BY <1>5, <1>6, <1>7, <1>8 DEF EpollInv, InStep

\* What the kernel's room changes: nothing the code or the theorems look at.
LEMMA RoomEffect ==
    ASSUME EpollInv, NEW c \in Channels, RoomChanges(c)
    PROVE  /\ c \in Live /\ Live' = Live
           /\ chan' \in [Channels -> ChannelType(Fds) \cup {NoChannel}]
           /\ \A d \in Channels \ {c} : chan'[d] = chan[d]
           /\ chan'[c].fd = chan[c].fd /\ chan'[c].index = chan[c].index
           /\ chan'[c].events = chan[c].events /\ InStep(chan'[c])
           /\ UNCHANGED <<ChannelMap_, assertFailed>>
<1>1. /\ c \in Live /\ chan[c] \in ChannelType(Fds) /\ InStep(chan[c])
      /\ chan \in [Channels -> ChannelType(Fds) \cup {NoChannel}]
  BY DEF RoomChanges, EpollInv, TypeOK, Live
<1> PICK room : room = ~chan[c].room
  OBVIOUS
<1>2. room \in BOOLEAN
  OBVIOUS
<1> PICK new : new = [chan[c] EXCEPT !.room = room]
  OBVIOUS
<1>3. /\ new \in ChannelType(Fds) /\ InStep(new) /\ new.fd = chan[c].fd
      /\ new.index = chan[c].index /\ new.events = chan[c].events
  BY <1>1, <1>2, RoomInStep
<1>4. chan' = [chan EXCEPT ![c] = new] /\ UNCHANGED <<ChannelMap_, assertFailed>>
  BY DEF RoomChanges
<1>5. /\ chan'[c] = new /\ \A d \in Channels \ {c} : chan'[d] = chan[d]
      /\ chan' \in [Channels -> ChannelType(Fds) \cup {NoChannel}]
  BY <1>1, <1>3, <1>4
<1>6. Live' = Live
  BY <1>1, <1>3, <1>5, NoChannelIsNone DEF Live
<1> QED
  BY <1>1, <1>3, <1>4, <1>5, <1>6

\* The invariant does not speak of the kernel's room.
LEMMA RoomStep ==
    ASSUME EpollInv, NEW c \in Channels, RoomChanges(c)
    PROVE  EpollInv'
<1>1. /\ c \in Live /\ Live' = Live
      /\ chan' \in [Channels -> ChannelType(Fds) \cup {NoChannel}]
      /\ \A d \in Channels \ {c} : chan'[d] = chan[d]
      /\ chan'[c].fd = chan[c].fd /\ chan'[c].index = chan[c].index
      /\ InStep(chan'[c])
      /\ UNCHANGED <<ChannelMap_, assertFailed>>
  BY RoomEffect
<1>2. TypeOK'
  BY <1>1 DEF EpollInv, TypeOK
<1>3. \A d \in Channels : chan'[d].fd = chan[d].fd /\ chan'[d].index = chan[d].index
  BY <1>1
<1>4. OneChannelPerFd' /\ MapAgrees'
  BY <1>1, <1>3 DEF EpollInv, OneChannelPerFd, MapAgrees, Live
<1>5. AssertsHold' /\ \A d \in Live' : InStep(chan'[d])
  BY <1>1 DEF EpollInv, AssertsHold, Live
<1> QED
  BY <1>2, <1>4, <1>5 DEF EpollInv, InStep

\* One of the four calls: the channel enters the map if it was not in it, and
\* the assert at Epoller.cc:69 holds because no other channel has its fd.
LEMMA UpdateEffect ==
    ASSUME EpollInv, NEW c \in Live,
           NEW new, new \in ChannelType(Fds), InStep(new),
           new.fd = chan[c].fd, new.index # -1, Update(c, new)
    PROVE  /\ chan' = [chan EXCEPT ![c] = new]
           /\ ChannelMap_' = [ChannelMap_ EXCEPT ![new.fd] = c]
           /\ UNCHANGED assertFailed
           /\ chan[c].index = -1 => ChannelMap_[new.fd] = NoChannel
<1> DEFINE fd == new.fd
<1>0. c \in Channels /\ chan[c] # NoChannel /\ chan[c] \in ChannelType(Fds)
  BY DEF Live, EpollInv, TypeOK
<1>1. fd \in Fds /\ chan[c].fd = fd
  BY DEF ChannelType
<1>2. chan[c].index = -1 => ChannelMap_[fd] = NoChannel
  <2> SUFFICES ASSUME chan[c].index = -1, ChannelMap_[fd] # NoChannel
               PROVE  FALSE
    OBVIOUS
  <2>1. PICK d \in Channels : ChannelMap_[fd] = d
    BY <1>1 DEF EpollInv, TypeOK
  <2>2. d \in Live /\ chan[d].fd = fd /\ chan[d].index # -1
    BY <1>1, <2>1 DEF EpollInv, MapAgrees
  <2> QED
    BY <1>1, <2>2 DEF EpollInv, OneChannelPerFd
<1>3. chan[c].index # -1 => ChannelMap_[fd] = c
  BY <1>0, <1>1 DEF EpollInv, MapAgrees
<1>4. CASE chan[c].index = -1
  BY <1>2, <1>4 DEF Update
<1>5. CASE chan[c].index # -1
  BY <1>3, <1>5 DEF Update, EpollInv, TypeOK
<1> QED
  BY <1>4, <1>5

\* The invariant after one of the four calls.
LEMMA UpdateStep ==
    ASSUME EpollInv, NEW c \in Live,
           NEW new, new \in ChannelType(Fds), InStep(new),
           new.fd = chan[c].fd, new.index # -1, Update(c, new)
    PROVE  EpollInv'
<1> DEFINE fd == new.fd
<1>0. c \in Channels /\ chan[c] # NoChannel /\ chan[c] \in ChannelType(Fds)
  BY DEF Live, EpollInv, TypeOK
<1>1. fd \in Fds /\ chan[c].fd = fd
  BY DEF ChannelType
<1>4. /\ chan' = [chan EXCEPT ![c] = new]
      /\ ChannelMap_' = [ChannelMap_ EXCEPT ![fd] = c]
      /\ UNCHANGED assertFailed
  BY UpdateEffect
<1>5. chan'[c] = new /\ \A d \in Channels \ {c} : chan'[d] = chan[d]
  BY <1>0, <1>4 DEF EpollInv, TypeOK
<1>6. Live' = Live
  BY <1>0, <1>5, NoChannelIsNone DEF Live
<1>7. TypeOK'
  BY <1>0, <1>4 DEF EpollInv, TypeOK
<1>8. OneChannelPerFd'
  BY <1>1, <1>5, <1>6 DEF EpollInv, OneChannelPerFd, Live
<1>9. MapAgrees'
  <2>1. /\ ChannelMap_'[fd] = c
        /\ \A x \in Fds \ {fd} : ChannelMap_'[x] = ChannelMap_[x]
    BY <1>1, <1>4 DEF EpollInv, TypeOK
  <2>2. ASSUME NEW x \in Fds, NEW d \in Channels
        PROVE  ChannelMap_'[x] = d
                 <=> d \in Live' /\ chan'[d].fd = x /\ chan'[d].index # -1
    <3>1. CASE x = fd
      BY <1>0, <1>1, <1>5, <1>6, <2>1, <3>1 DEF EpollInv, OneChannelPerFd
    <3>2. CASE x # fd
      BY <1>0, <1>1, <1>5, <1>6, <2>1, <3>2 DEF EpollInv, MapAgrees
    <3> QED
      BY <3>1, <3>2
  <2> QED
    BY <2>2 DEF MapAgrees
<1>10. AssertsHold' /\ \A d \in Live' : InStep(chan'[d])
  BY <1>4, <1>5, <1>6 DEF EpollInv, AssertsHold, Live
<1> QED
  BY <1>7, <1>8, <1>9, <1>10 DEF EpollInv, InStep

\* removeChannel (Epoller.cc:89-104) takes exactly this channel's entry out of
\* the map, so its asserts at 92, 93 and 97 hold.
LEMMA RemoveEffect ==
    ASSUME EpollInv, NEW c \in Channels, Remove(c)
    PROVE  /\ c \in Live /\ chan[c] \in ChannelType(Fds)
           /\ chan[c].index # -1 /\ chan[c].events = {}
           /\ chan[c].fd \in Fds /\ ChannelMap_[chan[c].fd] = c
           /\ chan' = [chan EXCEPT ![c] = RemoveChannel(chan[c])]
           /\ ChannelMap_' = [ChannelMap_ EXCEPT ![chan[c].fd] = NoChannel]
           /\ UNCHANGED assertFailed
<1>1. /\ c \in Live /\ chan[c] \in ChannelType(Fds)
      /\ chan[c].index # -1 /\ chan[c].events = {}
  BY DEF Remove, Live, EpollInv, TypeOK, IsNothingFocus
<1>2. chan[c].fd \in Fds /\ ChannelMap_[chan[c].fd] = c
  BY <1>1 DEF ChannelType, EpollInv, MapAgrees
<1> QED
  BY <1>1, <1>2 DEF Remove

\* The invariant after removeChannel.
LEMMA RemoveStep ==
    ASSUME EpollInv, NEW c \in Channels, Remove(c)
    PROVE  EpollInv'
<1> DEFINE new == RemoveChannel(chan[c])
           fd  == chan[c].fd
<1> HIDE DEF new
<1>1. c \in Live /\ chan[c] \in ChannelType(Fds) /\ chan[c].index # -1
  BY RemoveEffect
<1>2. fd \in Fds /\ ChannelMap_[fd] = c
  BY RemoveEffect
<1>3. /\ chan' = [chan EXCEPT ![c] = new]
      /\ ChannelMap_' = [ChannelMap_ EXCEPT ![fd] = NoChannel]
      /\ UNCHANGED assertFailed
  BY RemoveEffect DEF new
<1>4. /\ new \in ChannelType(Fds) /\ InStep(new)
      /\ new.fd = fd /\ new.index = -1 /\ new # NoChannel
  BY <1>1, RemoveChannelInStep, NoChannelIsNone DEF EpollInv, new
<1>5. chan'[c] = new /\ \A d \in Channels \ {c} : chan'[d] = chan[d]
  BY <1>3 DEF EpollInv, TypeOK
<1>6. Live' = Live
  BY <1>1, <1>4, <1>5 DEF Live
<1>7. TypeOK'
  BY <1>3, <1>4 DEF EpollInv, TypeOK
<1>8. OneChannelPerFd'
  BY <1>1, <1>4, <1>5, <1>6 DEF EpollInv, OneChannelPerFd, Live
<1>9. MapAgrees'
  <2>1. /\ ChannelMap_'[fd] = NoChannel
        /\ \A x \in Fds \ {fd} : ChannelMap_'[x] = ChannelMap_[x]
    BY <1>2, <1>3 DEF EpollInv, TypeOK
  <2>2. ASSUME NEW x \in Fds, NEW d \in Channels
        PROVE  ChannelMap_'[x] = d
                 <=> d \in Live' /\ chan'[d].fd = x /\ chan'[d].index # -1
    <3>1. CASE x = fd
      BY <1>1, <1>4, <1>5, <1>6, <2>1, <3>1, NoChannelIsNone
         DEF EpollInv, OneChannelPerFd
    <3>2. CASE x # fd
      BY <1>1, <1>4, <1>5, <1>6, <2>1, <3>2 DEF EpollInv, MapAgrees
    <3> QED
      BY <3>1, <3>2
  <2> QED
    BY <2>2 DEF MapAgrees
<1>10. AssertsHold' /\ \A d \in Live' : InStep(chan'[d])
  BY <1>3, <1>4, <1>5, <1>6 DEF EpollInv, AssertsHold, Live
<1> QED
  BY <1>7, <1>8, <1>9, <1>10 DEF EpollInv, InStep

\* A channel that is out of the map can be freed: no entry is left behind.
LEMMA DestroyStep ==
    ASSUME EpollInv, NEW c \in Channels, Destroy(c)
    PROVE  EpollInv'
<1>1. /\ chan' = [chan EXCEPT ![c] = NoChannel]
      /\ UNCHANGED <<ChannelMap_, assertFailed>>
      /\ c \in Live /\ chan[c].index = -1
  BY DEF Destroy
<1>2. chan'[c] = NoChannel /\ \A d \in Channels \ {c} : chan'[d] = chan[d]
  BY <1>1 DEF EpollInv, TypeOK
<1>3. Live' = Live \ {c}
  BY <1>2 DEF Live
<1>4. TypeOK'
  BY <1>1 DEF EpollInv, TypeOK
<1>5. OneChannelPerFd'
  BY <1>2, <1>3 DEF EpollInv, OneChannelPerFd, Live
<1>6. MapAgrees'
  BY <1>1, <1>2, <1>3 DEF EpollInv, MapAgrees, Live
<1>7. AssertsHold' /\ \A d \in Live' : InStep(chan'[d])
  BY <1>1, <1>2, <1>3 DEF EpollInv, AssertsHold, Live
<1> QED
  BY <1>4, <1>5, <1>6, <1>7 DEF EpollInv, InStep

\* Every step preserves the inductive invariant.
LEMMA EpollStep == EpollInv /\ [Next]_vars => EpollInv'
<1> SUFFICES ASSUME EpollInv, [Next]_vars PROVE EpollInv'
  OBVIOUS
<1>1. ASSUME NEW c \in Channels, UpdateEvents(c)
      PROVE  EpollInv'
  <2>1. c \in Live /\ chan[c] \in ChannelType(Fds) /\ InStep(chan[c])
    BY <1>1 DEF UpdateEvents, Live, EpollInv, TypeOK
  <2>2. PICK new \in {EnableReading(chan[c]), EnableWriting(chan[c]),
                      DisableWriting(chan[c]), DisableAll(chan[c])} :
            Update(c, new)
    BY <1>1 DEF UpdateEvents
  <2>3. /\ new \in ChannelType(Fds) /\ InStep(new)
        /\ new.fd = chan[c].fd /\ new.index # -1
    BY <2>1, UpdatesInStep
  <2> QED
    BY <2>1, <2>2, <2>3, UpdateStep
<1>2. CASE UNCHANGED vars
  <2>1. UNCHANGED <<chan, ChannelMap_, assertFailed>>
    BY <1>2 DEF vars
  <2>2. TypeOK' /\ OneChannelPerFd' /\ MapAgrees' /\ AssertsHold'
    BY <2>1 DEF EpollInv, TypeOK, OneChannelPerFd, MapAgrees, AssertsHold, Live
  <2>3. \A c \in Live' : InStep(chan'[c])
    BY <2>1 DEF EpollInv, Live
  <2> QED
    BY <2>2, <2>3 DEF EpollInv, InStep
<1> QED
  BY <1>1, <1>2, CreateStep, RoomStep, RemoveStep, DestroyStep DEF Next

\* The invariant the theorems below are parts of.
THEOREM EpollInvariant == Spec => []EpollInv
BY EpollInit, EpollStep, PTL DEF Spec

-----------------------------------------------------------------------------
\* Every channel object keeps the shape of a Channel and every map entry names
\* a channel.
THEOREM TypeCorrect == Spec => []TypeOK
BY EpollInvariant, PTL DEF EpollInv

\* Epoller.cc:60-104: ChannelMap_ holds exactly the live channels whose index
\* says they are in it, whatever the order of the calls and however often a
\* descriptor is given out again.
THEOREM MapIsExact == Spec => []MapAgrees
BY EpollInvariant, PTL DEF EpollInv

\* The asserts at Epoller.cc:69, 92, 93 and 97 cannot fail under the owners'
\* promises.
THEOREM AssertsAlwaysHold == Spec => []AssertsHold
BY EpollInvariant, PTL DEF EpollInv

\* Epoller.cc:72-85, 95-118: the kernel's interest list is what the channels
\* ask for, but for those whose ADD found no room, and nothing but want of room
\* ever makes epoll_ctl fail.
THEOREM KernelIsExact == Spec => []KernelAgrees
<1>1. EpollInv => KernelAgrees
  BY DEF EpollInv, KernelAgrees, InStep
<1> QED
  BY <1>1, EpollInvariant, PTL

-----------------------------------------------------------------------------
(* Poller.                                                                 *)

\* Every step of the two together is a step of Epoller.
THEOREM StillAnEpoller == BothSpec => Spec
<1>1. BothInit => Init
  BY DEF BothInit
<1>2. [BothNext]_<<vars, pollVars>> => [Next]_vars
  BY DEF BothNext, Next
<1> QED
  BY <1>1, <1>2, PTL DEF BothSpec, Spec

\* A channel in the map, of Epoller and of Poller, and the pollfd it has.
InMap(c) == c \in Live /\ chan[c].index # -1

Entry(c) ==
    [fd |-> IF c \in muted THEN Ignored(chan[c].fd) ELSE chan[c].fd,
     events |-> chan[c].events]

Indexed(c) ==
    /\ InTable(c) /\ Pollfd(c) = Entry(c)
    /\ chan[c].events = {} => c \in muted

PollTypeOK ==
    /\ pollfds_ \in Seq([fd : Int, events : SUBSET Interest])
    /\ idx \in [Channels -> Nat \cup {-1}]
    /\ muted \subseteq Channels

\* The channels in the map and the entries of pollfds_ are one to one.
TableInv ==
    /\ PollTypeOK
    /\ channels_ = ChannelMap_
    /\ \A c \in Live : idx[c] = -1 => c \notin muted
    /\ \A c \in Channels : InMap(c) => Indexed(c)
    /\ \A c, d \in Channels : InMap(c) /\ InMap(d) /\ idx[c] = idx[d] => c = d
    /\ \A i \in DOMAIN pollfds_ : \E c \in Channels : InMap(c) /\ idx[c] = i - 1

\* Epoller's side of it: only a channel the kernel watches has interest.
IdleOutside == \A c \in Live : chan[c].index # 1 => chan[c].events = {}

BothInv ==
    /\ EpollInv /\ IdleOutside
    /\ failedAt \in {0, 71}
    /\ failedAt = 0 => TableInv

\* A new channel is in neither map.
LEMMA PollCreateStep ==
    ASSUME EpollInv, TableInv, NEW c \in Channels, NEW fd \in Fds,
           Create(c, fd), PollCreate(c)
    PROVE  TableInv'
<1>0. PICK room \in BOOLEAN : chan' = [chan EXCEPT ![c] = NewChannel(fd, room)]
  BY DEF Create
<1>1. /\ c \notin Live /\ UNCHANGED ChannelMap_
      /\ chan' = [chan EXCEPT ![c] = NewChannel(fd, room)]
  BY <1>0 DEF Create
<1>2. /\ chan'[c] = NewChannel(fd, room) /\ chan'[c].index = -1
      /\ chan'[c] # NoChannel
      /\ \A d \in Channels \ {c} : chan'[d] = chan[d]
  BY <1>1, NewChannelInStep, NoChannelIsNone DEF EpollInv, TypeOK
<1>3. Live' = Live \cup {c}
  BY <1>2 DEF Live
<1>4. /\ idx'[c] = -1 /\ \A d \in Channels \ {c} : idx'[d] = idx[d]
      /\ idx' \in [Channels -> Nat \cup {-1}]
      /\ muted' = muted \ {c} /\ UNCHANGED <<pollfds_, channels_>>
  BY DEF PollCreate, TableInv, PollTypeOK
<1>5. \A d \in Channels : InMap(d)' <=> InMap(d) /\ d # c
  BY <1>1, <1>2, <1>3 DEF InMap
<1>6. \A d \in Channels : InMap(d) => d # c
  BY <1>1 DEF InMap
<1>7. PollTypeOK' /\ channels_' = ChannelMap_'
  BY <1>1, <1>4 DEF TableInv, PollTypeOK
<1>8. \A d \in Live' : idx'[d] = -1 => d \notin muted'
  BY <1>3, <1>4 DEF TableInv, Live
<1>9. \A d \in Channels : InMap(d)' => Indexed(d)'
  BY <1>2, <1>4, <1>5 DEF TableInv, Indexed, InTable, Pollfd, Entry, Ignored
<1>10. \A d, e \in Channels : InMap(d)' /\ InMap(e)' /\ idx'[d] = idx'[e] => d = e
  BY <1>4, <1>5 DEF TableInv
<1>11. \A i \in DOMAIN pollfds_' :
           \E d \in Channels : InMap(d)' /\ idx'[d] = i - 1
  BY <1>4, <1>5, <1>6 DEF TableInv
<1> QED
  BY <1>7, <1>8, <1>9, <1>10, <1>11 DEF TableInv

\* Room for a registration is nothing to a Poller.
LEMMA PollRoomStep ==
    ASSUME EpollInv, TableInv, NEW c \in Channels, RoomChanges(c),
           UNCHANGED pollVars
    PROVE  TableInv'
<1>1. /\ Live' = Live /\ UNCHANGED ChannelMap_
      /\ \A d \in Channels : /\ chan'[d].fd = chan[d].fd
                             /\ chan'[d].index = chan[d].index
                             /\ chan'[d].events = chan[d].events
  BY RoomEffect
<1>2. UNCHANGED <<pollfds_, channels_, idx, muted>>
  BY DEF pollVars
<1>3. \A d \in Channels : InMap(d)' <=> InMap(d)
  BY <1>1 DEF InMap
<1>4. \A d \in Channels : InMap(d)' => Indexed(d)'
  BY <1>1, <1>2, <1>3 DEF TableInv, Indexed, InTable, Pollfd, Entry, Ignored
<1>5. PollTypeOK' /\ channels_' = ChannelMap_'
  BY <1>1, <1>2 DEF TableInv, PollTypeOK
<1> QED
  BY <1>1, <1>2, <1>3, <1>4, <1>5 DEF TableInv

\* A freed channel was in neither map.
LEMMA PollDestroyStep ==
    ASSUME EpollInv, TableInv, NEW c \in Channels, Destroy(c),
           UNCHANGED pollVars
    PROVE  TableInv'
<1>1. /\ c \in Live /\ chan[c].index = -1 /\ UNCHANGED ChannelMap_
      /\ chan' = [chan EXCEPT ![c] = NoChannel]
  BY DEF Destroy
<1>2. /\ chan'[c] = NoChannel
      /\ \A d \in Channels \ {c} : chan'[d] = chan[d]
  BY <1>1 DEF EpollInv, TypeOK
<1>3. Live' = Live \ {c}
  BY <1>2 DEF Live
<1>4. \A d \in Channels : InMap(d)' <=> InMap(d)
  BY <1>1, <1>2, <1>3 DEF InMap
<1>5. \A d \in Channels : InMap(d) => d # c
  BY <1>1 DEF InMap
<1>6. PollTypeOK' /\ channels_' = ChannelMap_'
  BY <1>1 DEF TableInv, PollTypeOK, pollVars
<1>7. \A d \in Live' : idx'[d] = -1 => d \notin muted'
  BY <1>3 DEF TableInv, pollVars
<1>8. \A d \in Channels : InMap(d)' => Indexed(d)'
  BY <1>2, <1>4, <1>5
     DEF TableInv, Indexed, InTable, Pollfd, Entry, Ignored, pollVars
<1>9. \A d, e \in Channels : InMap(d)' /\ InMap(e)' /\ idx'[d] = idx'[e] => d = e
  BY <1>4 DEF TableInv, pollVars
<1>10. \A i \in DOMAIN pollfds_' :
           \E d \in Channels : InMap(d)' /\ idx'[d] = i - 1
  BY <1>4 DEF TableInv, pollVars
<1> QED
  BY <1>6, <1>7, <1>8, <1>9, <1>10 DEF TableInv

\* A descriptor is a number, and what ignores it is below zero.
LEMMA FdIsInteger ==
    ASSUME NEW fd \in Fds
    PROVE  fd \in Int
BY FdsAreNumbers

LEMMA IgnoredIsNegative ==
    ASSUME NEW fd \in Fds
    PROVE  fd >= 0 /\ ~(Ignored(fd) >= 0)
<1>1. fd \in Nat
  BY FdsAreNumbers
<1>2. fd >= 0 /\ ~(-fd - 1 >= 0)
  BY <1>1
<1> QED
  BY <1>2 DEF Ignored

\* Whatever call it is, a channel with interest is watched after it.
LEMMA UpdatesWatch ==
    ASSUME NEW ch \in ChannelType(Fds), InStep(ch),
           NEW new \in {EnableReading(ch), EnableWriting(ch),
                        DisableWriting(ch), DisableAll(ch)}
    PROVE  new.index # 1 => new.events = {}
<1>1. ch.events \in SUBSET Interest
  BY DEF ChannelType
<1>2. \A mask \in SUBSET Interest :
        SetEvents(ch, mask).index # 1 => SetEvents(ch, mask).events = {}
  BY SetEventsInStep
<1>3. PICK mask \in SUBSET Interest : new = SetEvents(ch, mask)
  BY <1>1 DEF EnableReading, EnableWriting, DisableWriting, DisableAll, Interest
<1> QED
  BY <1>2, <1>3

\* What one of the four calls does to the channel and to Epoller's map: the
\* first can only be an enable.
LEMMA UpdateEventsEffect ==
    ASSUME EpollInv, IdleOutside, NEW c \in Channels, UpdateEvents(c)
    PROVE  /\ c \in Live /\ chan[c].fd \in Fds
           /\ chan'[c] \in ChannelType(Fds) /\ chan'[c].fd = chan[c].fd
           /\ chan'[c].index # -1
           /\ chan'[c].index # 1 => chan'[c].events = {}
           /\ chan[c].index = -1 => /\ chan'[c].events # {}
                                    /\ ChannelMap_[chan[c].fd] = NoChannel
           /\ \A d \in Channels \ {c} : chan'[d] = chan[d]
           /\ ChannelMap_' = [ChannelMap_ EXCEPT ![chan[c].fd] = c]
           /\ Live' = Live
           /\ \A d \in Channels : InMap(d)' <=> InMap(d) \/ d = c
<1>1. /\ c \in Live /\ chan[c] \in ChannelType(Fds) /\ InStep(chan[c])
      /\ chan[c].fd \in Fds /\ chan[c].events \in SUBSET Interest
  BY DEF UpdateEvents, Live, EpollInv, TypeOK, ChannelType
<1>2. PICK new \in {EnableReading(chan[c]), EnableWriting(chan[c]),
                    DisableWriting(chan[c]), DisableAll(chan[c])} :
          /\ Update(c, new)
          /\ chan[c].index = -1 => new.events # {}
  <2>1. CASE Update(c, EnableReading(chan[c]))
    <3>1. EnableReading(chan[c]).events = chan[c].events \cup readEvent_
      BY <1>1, SetEventsInStep DEF EnableReading, Interest, readEvent_
    <3> QED
      BY <2>1, <3>1 DEF readEvent_
  <2>2. CASE Update(c, EnableWriting(chan[c]))
    <3>1. EnableWriting(chan[c]).events = chan[c].events \cup writeEvent_
      BY <1>1, SetEventsInStep DEF EnableWriting, Interest, writeEvent_
    <3> QED
      BY <2>2, <3>1 DEF writeEvent_
  <2>3. CASE IsWriting(chan[c]) /\ Update(c, DisableWriting(chan[c]))
    BY <1>1, <2>3 DEF IsWriting, IdleOutside
  <2>4. CASE chan[c].index # -1 /\ Update(c, DisableAll(chan[c]))
    BY <2>4
  <2> QED
    BY <2>1, <2>2, <2>3, <2>4 DEF UpdateEvents
<1>3. /\ new \in ChannelType(Fds) /\ InStep(new)
      /\ new.fd = chan[c].fd /\ new.index # -1
      /\ new.index # 1 => new.events = {}
  BY <1>1, UpdatesInStep, UpdatesWatch
<1>4. /\ chan' = [chan EXCEPT ![c] = new]
      /\ ChannelMap_' = [ChannelMap_ EXCEPT ![new.fd] = c]
      /\ chan[c].index = -1 => ChannelMap_[new.fd] = NoChannel
  BY <1>1, <1>2, <1>3, UpdateEffect
<1>5. chan'[c] = new /\ \A d \in Channels \ {c} : chan'[d] = chan[d]
  BY <1>4 DEF EpollInv, TypeOK
<1>6. Live' = Live
  BY <1>1, <1>3, <1>5, NoChannelIsNone DEF Live
<1>7. \A d \in Channels : InMap(d)' <=> InMap(d) \/ d = c
  BY <1>1, <1>3, <1>5, <1>6 DEF InMap
<1> QED
  BY <1>1, <1>2, <1>3, <1>4, <1>5, <1>6, <1>7

\* The only assert of updateChannel that can fail is the one that misses a
\* removed channel; otherwise it is the map that tells a new channel.
LEMMA UpdateAsserts ==
    ASSUME EpollInv, TableInv, NEW c \in Live
    PROVE  /\ UpdateAssert(c, chan[c].fd) \in {0, 71}
           /\ UpdateAssert(c, chan[c].fd) = 0
                => (idx[c] < 0 <=> ~InMap(c))
<1> DEFINE fd == chan[c].fd
<1>1. /\ c \in Channels /\ fd \in Fds /\ chan[c] \in ChannelType(Fds)
      /\ idx[c] \in Nat \cup {-1} /\ channels_ = ChannelMap_
  BY DEF Live, EpollInv, TypeOK, ChannelType, TableInv, PollTypeOK
<1>2. CASE InMap(c)
  <2>1. channels_[fd] = c
    BY <1>1, <1>2 DEF EpollInv, MapAgrees, InMap
  <2>2. InTable(c) /\ Pollfd(c).fd \in {fd, Ignored(fd)}
    BY <1>1, <1>2 DEF TableInv, Indexed, Entry
  <2>3. idx[c] >= 0 /\ ~(idx[c] < 0)
    BY <1>1, <2>2 DEF InTable, TableInv, PollTypeOK
  <2>4. UpdateAssert(c, fd) = 0
    BY <1>1, <2>1, <2>2, <2>3, NoChannelIsNone DEF UpdateAssert
  <2> QED
    BY <1>2, <2>3, <2>4
<1>3. CASE ~InMap(c)
  <2>1. channels_[fd] = NoChannel
    <3>1. ASSUME NEW d \in Channels, ChannelMap_[fd] = d PROVE FALSE
      <4>1. d \in Live /\ chan[d].fd = fd /\ chan[d].index # -1
        BY <1>1, <3>1 DEF EpollInv, MapAgrees
      <4> QED
        BY <1>3, <4>1 DEF EpollInv, OneChannelPerFd, InMap
    <3> QED
      BY <1>1, <3>1 DEF EpollInv, TypeOK
  <2>2. CASE idx[c] = -1
    BY <1>1, <1>3, <2>1, <2>2 DEF UpdateAssert
  <2>3. CASE idx[c] # -1
    <3>1. idx[c] >= 0 /\ ~(idx[c] < 0)
      BY <1>1, <2>3
    <3>2. UpdateAssert(c, fd) = 71
      BY <2>1, <3>1 DEF UpdateAssert
    <3> QED
      BY <3>2
  <2> QED
    BY <1>1, <2>2, <2>3
<1> QED
  BY <1>2, <1>3

\* The types of the table.
LEMMA TableTypes ==
    ASSUME TableInv
    PROVE  /\ pollfds_ \in Seq([fd : Int, events : SUBSET Interest])
           /\ Len(pollfds_) \in Nat /\ DOMAIN pollfds_ = 1 .. Len(pollfds_)
           /\ idx \in [Channels -> Nat \cup {-1}] /\ muted \subseteq Channels
           /\ channels_ = ChannelMap_
BY DEF TableInv, PollTypeOK

\* A channel in the map finds its entry at its index.
LEMMA FindsEntry ==
    ASSUME TableInv, NEW c \in Channels, InMap(c)
    PROVE  /\ Indexed(c)
           /\ idx[c] \in Nat /\ idx[c] \in 0 .. Len(pollfds_) - 1
           /\ idx[c] + 1 \in 1 .. Len(pollfds_)
           /\ pollfds_[idx[c] + 1] \in [fd : Int, events : SUBSET Interest]
           /\ pollfds_[idx[c] + 1] = Entry(c)
           /\ chan[c].events = {} => c \in muted
<1>1. Indexed(c)
  BY DEF TableInv
<1>2. idx[c] \in 0 .. Len(pollfds_) - 1 /\ pollfds_[idx[c] + 1] = Entry(c)
  BY <1>1 DEF Indexed, InTable, Pollfd
<1>3. idx[c] \in Nat /\ idx[c] + 1 \in 1 .. Len(pollfds_)
  BY <1>2, TableTypes
<1>4. pollfds_[idx[c] + 1] \in [fd : Int, events : SUBSET Interest]
  <2>1. PICK n : n = idx[c] + 1
    OBVIOUS
  <2>2. /\ pollfds_ \in Seq([fd : Int, events : SUBSET Interest])
        /\ n \in 1 .. Len(pollfds_)
    BY <1>3, <2>1, TableTypes
  <2>3. pollfds_[n] \in [fd : Int, events : SUBSET Interest]
    BY <2>2, ElementOfSeq
  <2> QED
    BY <2>1, <2>3
<1> QED
  BY <1>1, <1>2, <1>3, <1>4 DEF Indexed

\* A new channel gets the next entry, which is not ignored.
LEMMA PollAddStep ==
    ASSUME EpollInv, IdleOutside, TableInv, NEW c \in Channels,
           UpdateEvents(c), ~InMap(c), idx[c] < 0,
           PollAdd(c, chan[c].fd, chan'[c].events),
           muted' = IF chan'[c].events = {} THEN muted \cup {c} ELSE muted
    PROVE  TableInv'
<1> DEFINE fd == chan[c].fd
           entry == [fd |-> fd, events |-> chan'[c].events]
<1>0. chan[c].index = -1
  BY DEF InMap, UpdateEvents
<1>1. /\ c \in Live /\ fd \in Fds
      /\ chan'[c] \in ChannelType(Fds) /\ chan'[c].fd = fd
      /\ chan'[c].events # {}
      /\ \A d \in Channels \ {c} : chan'[d] = chan[d]
      /\ ChannelMap_' = [ChannelMap_ EXCEPT ![fd] = c]
      /\ Live' = Live
      /\ \A d \in Channels : InMap(d)' <=> InMap(d) \/ d = c
  BY <1>0, UpdateEventsEffect
<1>2. /\ pollfds_ \in Seq([fd : Int, events : SUBSET Interest])
      /\ idx \in [Channels -> Nat \cup {-1}] /\ idx[c] = -1
      /\ c \notin muted /\ muted' = muted
  BY <1>1 DEF TableInv, PollTypeOK
<1>3. entry \in [fd : Int, events : SUBSET Interest]
  <2>1. fd \in Fds /\ chan'[c] \in ChannelType(Fds)
    BY <1>1
  <2>2. fd \in Int
    BY <2>1, FdIsInteger
  <2>3. chan'[c].events \in SUBSET Interest
    BY <2>1 DEF ChannelType
  <2> QED
    BY <2>2, <2>3
<1>4. /\ pollfds_' = Append(pollfds_, entry)
      /\ idx' = [idx EXCEPT ![c] = Len(pollfds_)]
      /\ channels_' = [channels_ EXCEPT ![fd] = c]
  BY DEF PollAdd
<1> HIDE DEF entry
<1>5. /\ pollfds_' \in Seq([fd : Int, events : SUBSET Interest])
      /\ Len(pollfds_') = Len(pollfds_) + 1
      /\ Len(pollfds_) \in Nat
      /\ pollfds_'[Len(pollfds_) + 1] = entry
      /\ \A i \in 1 .. Len(pollfds_) : pollfds_'[i] = pollfds_[i]
      /\ DOMAIN pollfds_ = 1 .. Len(pollfds_)
      /\ DOMAIN pollfds_' = 1 .. Len(pollfds_) + 1
  BY <1>2, <1>3, <1>4
<1>6. /\ idx' \in [Channels -> Nat \cup {-1}] /\ idx'[c] = Len(pollfds_)
      /\ \A d \in Channels \ {c} : idx'[d] = idx[d]
  BY <1>2, <1>4, <1>5
<1>7. PollTypeOK' /\ channels_' = ChannelMap_'
  BY <1>1, <1>2, <1>4, <1>5, <1>6 DEF TableInv, PollTypeOK
<1>8. \A d \in Live' : idx'[d] = -1 => d \notin muted'
  BY <1>1, <1>2, <1>6 DEF TableInv, Live
<1>9. ASSUME NEW d \in Channels, InMap(d)' PROVE Indexed(d)'
  <2>1. CASE d = c
    <3>1. idx'[c] + 1 = Len(pollfds_) + 1 /\ idx'[c] \in 0 .. Len(pollfds_') - 1
      BY <1>5, <1>6
    <3>2. pollfds_'[idx'[c] + 1] = entry
      BY <1>5, <3>1
    <3> QED
      BY <1>1, <1>2, <2>1, <3>1, <3>2
         DEF Indexed, InTable, Pollfd, Entry, entry
  <2>2. CASE d # c
    <3>1. InMap(d) /\ Indexed(d) /\ chan'[d] = chan[d] /\ idx'[d] = idx[d]
      BY <1>1, <1>6, <1>9, <2>2 DEF TableInv
    <3>2. /\ idx'[d] \in 0 .. Len(pollfds_') - 1
          /\ idx[d] + 1 \in 1 .. Len(pollfds_)
      BY <1>5, <3>1 DEF Indexed, InTable
    <3>3. pollfds_'[idx'[d] + 1] = pollfds_[idx[d] + 1]
      BY <1>5, <3>1, <3>2
    <3> QED
      BY <1>2, <3>1, <3>2, <3>3
         DEF Indexed, InTable, Pollfd, Entry, Ignored
  <2> QED
    BY <2>1, <2>2
<1>10. ASSUME NEW d \in Channels, NEW e \in Channels,
              InMap(d)', InMap(e)', idx'[d] = idx'[e]
       PROVE  d = e
  <2>1. \A x \in Channels \ {c} : InMap(x)' => InMap(x) /\ idx'[x] # idx'[c]
    <3> SUFFICES ASSUME NEW x \in Channels \ {c}, InMap(x)'
                 PROVE  InMap(x) /\ idx'[x] # idx'[c]
      OBVIOUS
    <3>1. InMap(x) /\ InTable(x)
      BY <1>1 DEF TableInv, Indexed
    <3> QED
      BY <1>5, <1>6, <3>1 DEF InTable
  <2> QED
    BY <1>6, <1>10, <2>1 DEF TableInv
<1>11. ASSUME NEW i \in DOMAIN pollfds_'
       PROVE  \E d \in Channels : InMap(d)' /\ idx'[d] = i - 1
  <2>1. CASE i = Len(pollfds_) + 1
    BY <1>1, <1>5, <1>6, <2>1
  <2>2. CASE i # Len(pollfds_) + 1
    <3>1. i \in DOMAIN pollfds_
      BY <1>5, <2>2
    <3>2. PICK d \in Channels : InMap(d) /\ idx[d] = i - 1
      BY <3>1 DEF TableInv
    <3>3. d # c
      BY <3>2
    <3> QED
      BY <1>1, <1>6, <3>2, <3>3
  <2> QED
    BY <2>1, <2>2
<1> QED
  BY <1>7, <1>8, <1>9, <1>10, <1>11 DEF TableInv

\* A channel in the map keeps its entry; without interest it is ignored from
\* now on.
LEMMA PollModifyStep ==
    ASSUME EpollInv, IdleOutside, TableInv, NEW c \in Channels,
           UpdateEvents(c), InMap(c),
           PollModify(c, chan[c].fd, chan'[c].events),
           muted' = IF chan'[c].events = {} THEN muted \cup {c} ELSE muted
    PROVE  TableInv'
<1> DEFINE fd == chan[c].fd
           events == chan'[c].events
           n == idx[c] + 1
           entry == [fd |-> IF events = {} THEN Ignored(fd)
                            ELSE pollfds_[n].fd, events |-> events]
<1>1. /\ c \in Live /\ fd \in Fds
      /\ chan'[c] \in ChannelType(Fds) /\ chan'[c].fd = fd
      /\ \A d \in Channels \ {c} : chan'[d] = chan[d]
      /\ ChannelMap_' = [ChannelMap_ EXCEPT ![fd] = c]
      /\ Live' = Live
      /\ \A d \in Channels : InMap(d)' <=> InMap(d) \/ d = c
  BY UpdateEventsEffect
<1>2. \A d \in Channels : InMap(d)' <=> InMap(d)
  BY <1>1
<1>3. ChannelMap_' = ChannelMap_
  <2>1. ChannelMap_[fd] = c /\ ChannelMap_ \in [Fds -> Channels \cup {NoChannel}]
    BY <1>1 DEF InMap, EpollInv, MapAgrees, TypeOK
  <2> QED
    BY <1>1, <2>1
<1>4. /\ pollfds_ \in Seq([fd : Int, events : SUBSET Interest])
      /\ DOMAIN pollfds_ = 1 .. Len(pollfds_) /\ Len(pollfds_) \in Nat
      /\ idx \in [Channels -> Nat \cup {-1}]
      /\ idx[c] \in 0 .. Len(pollfds_) - 1
      /\ n \in 1 .. Len(pollfds_)
      /\ pollfds_[n] \in [fd : Int, events : SUBSET Interest]
  BY TableTypes, FindsEntry
<1>5. entry \in [fd : Int, events : SUBSET Interest]
  <2>1. fd \in Int
    BY <1>1, FdIsInteger
  <2>2. Ignored(fd) \in Int
    BY <2>1 DEF Ignored
  <2>3. events \in SUBSET Interest
    BY <1>1 DEF ChannelType
  <2> HIDE DEF fd, events, n
  <2> QED
    BY <1>4, <2>2, <2>3
<1>6. pollfds_' = [pollfds_ EXCEPT ![n] = entry] /\ UNCHANGED <<idx, channels_>>
  BY DEF PollModify
<1>7. entry = Entry(c)'
  <2>1. pollfds_[n].fd = IF c \in muted THEN Ignored(fd) ELSE fd
    <3>1. pollfds_[n] = Entry(c)
      BY FindsEntry
    <3> QED
      BY <3>1 DEF Entry
  <2>2. c \in muted' <=> c \in muted \/ events = {}
    OBVIOUS
  <2> QED
    BY <1>1, <2>1, <2>2 DEF Entry, Ignored
<1> HIDE DEF entry
<1>8. /\ pollfds_' \in Seq([fd : Int, events : SUBSET Interest])
      /\ Len(pollfds_') = Len(pollfds_) /\ DOMAIN pollfds_' = DOMAIN pollfds_
      /\ pollfds_'[n] = entry
      /\ \A i \in DOMAIN pollfds_ \ {n} : pollfds_'[i] = pollfds_[i]
  <2> HIDE DEF n
  <2> QED
    BY <1>4, <1>5, <1>6
<1>9. PollTypeOK' /\ channels_' = ChannelMap_'
  BY <1>3, <1>6, <1>8 DEF TableInv, PollTypeOK
<1>10. \A d \in Live' : idx'[d] = -1 => d \notin muted'
  <2>1. idx[c] # -1
    BY <1>4
  <2> QED
    BY <1>1, <1>6, <2>1 DEF TableInv
<1>11. ASSUME NEW d \in Channels, InMap(d)' PROVE Indexed(d)'
  <2>1. CASE d = c
    <3>1. Pollfd(c)' = Entry(c)' /\ InTable(c)'
      BY <1>4, <1>6, <1>7, <1>8 DEF Pollfd, InTable
    <3> QED
      BY <2>1, <3>1 DEF Indexed
  <2>2. CASE d # c
    <3>1. InMap(d) /\ Indexed(d) /\ chan'[d] = chan[d]
      BY <1>1, <1>2, <1>11, <2>2 DEF TableInv
    <3>2. idx[d] \in Int /\ idx[c] \in Int /\ idx[d] # idx[c]
      BY <1>4, <2>2, <3>1 DEF TableInv
    <3>3. idx[d] + 1 \in DOMAIN pollfds_ \ {n}
      BY <1>4, <3>1, <3>2 DEF Indexed, InTable
    <3>4. pollfds_'[idx[d] + 1] = pollfds_[idx[d] + 1]
      BY <1>8, <3>3
    <3> QED
      BY <1>6, <1>8, <2>2, <3>1, <3>4
         DEF Indexed, InTable, Pollfd, Entry, Ignored
  <2> QED
    BY <2>1, <2>2
<1>12. \A d, e \in Channels : InMap(d)' /\ InMap(e)' /\ idx'[d] = idx'[e] => d = e
  BY <1>2, <1>6 DEF TableInv
<1>13. \A i \in DOMAIN pollfds_' :
           \E d \in Channels : InMap(d)' /\ idx'[d] = i - 1
  BY <1>2, <1>6, <1>8 DEF TableInv
<1> QED
  BY <1>9, <1>10, <1>11, <1>12, <1>13 DEF TableInv

\* updateChannel: the table stays in order, or the assert fails that misses a
\* removed channel.
LEMMA PollUpdateStep ==
    ASSUME EpollInv, IdleOutside, failedAt = 0, TableInv, NEW c \in Channels,
           UpdateEvents(c), PollUpdate(c)
    PROVE  failedAt' \in {0, 71} /\ (failedAt' = 0 => TableInv')
<1> DEFINE fd == chan[c].fd
           events == chan'[c].events
           line == UpdateAssert(c, fd)
<1>1. c \in Live
  BY DEF UpdateEvents
<1>2. line \in {0, 71} /\ (line = 0 => (idx[c] < 0 <=> ~InMap(c)))
  BY <1>1, UpdateAsserts
<1>3. \/ line # 0 /\ PollAborts(line)
      \/ /\ line = 0 /\ UNCHANGED failedAt
         /\ IF idx[c] < 0 THEN PollAdd(c, fd, events)
                          ELSE PollModify(c, fd, events)
         /\ muted' = IF events = {} THEN muted \cup {c} ELSE muted
  BY DEF PollUpdate
<1>4. CASE line # 0 /\ PollAborts(line)
  BY <1>2, <1>4 DEF PollAborts
<1>5. CASE line = 0 /\ idx[c] < 0
  <2>1. TableInv'
    BY <1>2, <1>3, <1>5, PollAddStep
  <2> QED
    BY <1>3, <1>5, <2>1
<1>6. CASE line = 0 /\ ~(idx[c] < 0)
  <2>1. TableInv'
    BY <1>2, <1>3, <1>6, PollModifyStep
  <2> QED
    BY <1>3, <1>6, <2>1
<1> QED
  BY <1>3, <1>4, <1>5, <1>6

\* What the beginning of a sequence is.
LEMMA PrefixOf ==
    ASSUME NEW T, NEW seq \in Seq(T), NEW m \in Int, 0 <= m, m <= Len(seq)
    PROVE  /\ SubSeq(seq, 1, m) \in Seq(T) /\ Len(SubSeq(seq, 1, m)) = m
           /\ \A i \in 1 .. m : SubSeq(seq, 1, m)[i] = seq[i]
<1> DEFINE new == SubSeq(seq, 1, m)
<1>1. \A i \in 1 .. m : seq[i] \in T
  <2>1. \A i \in 1 .. m : i \in 1 .. Len(seq)
    BY LenProperties
  <2> QED
    BY <2>1, ElementOfSeq
<1>2. new \in Seq(T) /\ Len(new) = IF 1 <= m THEN m - 1 + 1 ELSE 0
  BY <1>1, SubSeqProperties
<1>3. \A i \in 1 .. m - 1 + 1 : new[i] = seq[1 + i - 1]
  BY <1>1, SubSeqProperties
<1> HIDE DEF new
<1>4. Len(new) = m
  BY <1>2
<1>5. \A i \in 1 .. m : new[i] = seq[i]
  BY <1>3
<1> QED
  BY <1>2, <1>4, <1>5 DEF new

\* The last element of a sequence moved to place n, and the end cut off.
WithLastMoved(seq, n) == Seqs!Front([seq EXCEPT ![n] = Seqs!Last(seq)])

LEMMA LastMoved ==
    ASSUME NEW T, NEW seq \in Seq(T), NEW n \in 1 .. Len(seq)
    PROVE  /\ WithLastMoved(seq, n) \in Seq(T)
           /\ Len(WithLastMoved(seq, n)) = Len(seq) - 1
           /\ \A i \in 1 .. Len(seq) - 1 :
                 WithLastMoved(seq, n)[i] = IF i = n THEN seq[Len(seq)] ELSE seq[i]
<1> DEFINE mid == [seq EXCEPT ![n] = seq[Len(seq)]]
<1> PICK new : new = WithLastMoved(seq, n)
  OBVIOUS
<1>1. Len(seq) \in Nat /\ Len(seq) \in 1 .. Len(seq) /\ Len(seq) - 1 \in Nat
  BY LenProperties
<1>2. seq[Len(seq)] \in T
  BY <1>1, ElementOfSeq
<1>3. /\ mid \in Seq(T) /\ Len(mid) = Len(seq)
      /\ \A i \in 1 .. Len(seq) :
            mid[i] = IF i = n THEN seq[Len(seq)] ELSE seq[i]
  BY <1>2, ExceptSeq
<1>4. new = SubSeq(mid, 1, Len(seq) - 1)
  <2>1. new = SubSeq(mid, 1, Len(mid) - 1)
    BY DEF WithLastMoved, Seqs!Front, Seqs!Last
  <2> HIDE DEF mid
  <2> QED
    BY <1>3, <2>1
<1> HIDE DEF mid
<1>5. /\ new \in Seq(T) /\ Len(new) = Len(seq) - 1
      /\ \A i \in 1 .. Len(seq) - 1 : new[i] = mid[i]
  <2>1. PICK m : m = Len(seq) - 1
    OBVIOUS
  <2>2. m \in Int /\ 0 <= m /\ m <= Len(mid)
    BY <1>1, <1>3, <2>1
  <2>3. new = SubSeq(mid, 1, m)
    BY <1>4, <2>1
  <2>4. new \in Seq(T) /\ Len(new) = m /\ \A i \in 1 .. m : new[i] = mid[i]
    BY <1>3, <2>2, <2>3, PrefixOf
  <2> QED
    BY <2>1, <2>4
<1>6. \A i \in 1 .. Len(seq) - 1 : i \in 1 .. Len(seq)
  BY <1>1
<1> QED
  BY <1>3, <1>5, <1>6

\* removeChannel's asserts hold: a channel it may be called for was ignored
\* when it lost its interest.
LEMMA RemoveAsserts ==
    ASSUME EpollInv, TableInv, NEW c \in Channels, Remove(c)
    PROVE  InMap(c) /\ RemoveAssert(c, chan[c].fd) = 0
<1> DEFINE fd == chan[c].fd
<1>1. InMap(c) /\ chan[c].events = {} /\ fd \in Fds /\ ChannelMap_[fd] = c
  BY RemoveEffect DEF InMap
<1>2. channels_[fd] = c /\ c # NoChannel
  BY <1>1, TableTypes, NoChannelIsNone
<1>3. InTable(c) /\ Pollfd(c) = Entry(c) /\ c \in muted
  BY <1>1, FindsEntry DEF Indexed
<1>4. Pollfd(c) = [fd |-> Ignored(fd), events |-> chan[c].events]
  BY <1>3 DEF Entry
<1> QED
  BY <1>1, <1>2, <1>3, <1>4 DEF RemoveAssert

\* The descriptor in an entry, ignored or not, is that of its channel.
LEMMA EntryFd ==
    ASSUME NEW c \in Channels, chan[c].fd \in Fds,
           NEW last, last = Entry(c).fd
    PROVE  (IF last < 0 THEN Ignored(last) ELSE last) = chan[c].fd
<1> PICK fd : fd = chan[c].fd
  OBVIOUS
<1>1. fd \in Nat
  BY FdsAreNumbers
<1>2. last = IF c \in muted THEN -fd - 1 ELSE fd
  BY DEF Entry, Ignored
<1>3. (IF last < 0 THEN -last - 1 ELSE last) = fd
  BY <1>1, <1>2
<1> QED
  BY <1>3 DEF Ignored

\* removeChannel, from the end or from the middle: the channel whose entry is
\* moved is the one that is told.
LEMMA PollTakeStep ==
    ASSUME EpollInv, TableInv, NEW c \in Channels, Remove(c),
           PollTake(c, chan[c].fd), muted' = muted
    PROVE  TableInv'
<1> DEFINE fd == chan[c].fd
           size == Len(pollfds_)
           n == idx[c] + 1
<1>1. /\ InMap(c) /\ c \in Live /\ fd \in Fds
      /\ \A d \in Channels \ {c} : chan'[d] = chan[d]
      /\ ChannelMap_' = [ChannelMap_ EXCEPT ![fd] = NoChannel]
      /\ Live' = Live
  <2>1. /\ InMap(c) /\ c \in Live /\ fd \in Fds
        /\ chan[c] \in ChannelType(Fds) /\ InStep(chan[c])
        /\ chan' = [chan EXCEPT ![c] = RemoveChannel(chan[c])]
        /\ ChannelMap_' = [ChannelMap_ EXCEPT ![fd] = NoChannel]
    BY RemoveEffect DEF InMap, EpollInv
  <2>2. RemoveChannel(chan[c]) # NoChannel
    BY <2>1, RemoveChannelInStep, NoChannelIsNone
  <2>3. /\ chan'[c] = RemoveChannel(chan[c])
        /\ \A d \in Channels \ {c} : chan'[d] = chan[d]
    BY <2>1 DEF EpollInv, TypeOK
  <2>4. Live' = Live
    BY <2>1, <2>2, <2>3 DEF Live
  <2> QED
    BY <2>1, <2>3, <2>4
<1>2. chan'[c].index = -1
  <2>1. chan' = [chan EXCEPT ![c] = RemoveChannel(chan[c])]
    BY RemoveEffect
  <2>2. RemoveChannel(chan[c]).index = -1
    BY RemoveEffect, RemoveChannelInStep DEF EpollInv
  <2> QED
    BY <2>1, <2>2 DEF EpollInv, TypeOK
<1>3. \A d \in Channels : InMap(d)' <=> InMap(d) /\ d # c
  BY <1>1, <1>2 DEF InMap, Live
<1>4. /\ pollfds_ \in Seq([fd : Int, events : SUBSET Interest])
      /\ size \in Nat /\ DOMAIN pollfds_ = 1 .. size
      /\ idx \in [Channels -> Nat \cup {-1}]
      /\ idx[c] \in Nat /\ n \in 1 .. size /\ size \in 1 .. size
  <2>1. n \in 1 .. size /\ idx[c] \in Nat
    BY <1>1, FindsEntry
  <2> QED
    BY <2>1, TableTypes
\* The channel at the end.
<1>5. PICK e \in Channels : InMap(e) /\ idx[e] = size - 1
  BY <1>4 DEF TableInv
<1>6. pollfds_[size] = Entry(e) /\ chan[e].fd \in Fds /\ e \in Live
  <2>1. pollfds_[idx[e] + 1] = Entry(e)
    BY <1>5, FindsEntry
  <2>2. e \in Live /\ chan[e] \in ChannelType(Fds)
    BY <1>5 DEF InMap, Live, EpollInv, TypeOK
  <2> QED
    BY <1>4, <1>5, <2>1, <2>2 DEF ChannelType
<1>7. e = c <=> idx[c] = size - 1
  BY <1>1, <1>5 DEF TableInv
<1>8. /\ channels_' = [channels_ EXCEPT ![fd] = NoChannel]
      /\ pollfds_' = Seqs!Front([pollfds_ EXCEPT ![n] = Seqs!Last(pollfds_)])
      /\ idx' = IF idx[c] = size - 1 THEN idx
                ELSE [idx EXCEPT ![channels_'[chan[e].fd]] = idx[c]]
  <2> DEFINE last == Seqs!Last(pollfds_).fd
  <2>1. last = Entry(e).fd
    BY <1>6 DEF Seqs!Last
  <2>2. (IF last < 0 THEN Ignored(last) ELSE last) = chan[e].fd
    BY <1>6, <2>1, EntryFd
  <2> HIDE DEF last
  <2>3. idx' = IF idx[c] = Len(pollfds_) - 1 THEN idx
               ELSE [idx EXCEPT ![channels_'[IF last < 0 THEN Ignored(last)
                                             ELSE last]] = idx[c]]
    BY DEF PollTake, last
  <2> QED
    BY <2>2, <2>3 DEF PollTake
<1>9. channels_' = ChannelMap_'
  BY <1>1, <1>8, TableTypes
<1>10. e # c => channels_'[chan[e].fd] = e
  <2> SUFFICES ASSUME e # c PROVE channels_'[chan[e].fd] = e
    OBVIOUS
  <2>1. chan[e].fd # fd
    BY <1>1, <1>6 DEF EpollInv, OneChannelPerFd
  <2>2. ChannelMap_[chan[e].fd] = e
    BY <1>5, <1>6 DEF EpollInv, MapAgrees, InMap
  <2> QED
    BY <1>1, <1>6, <1>9, <2>1, <2>2 DEF EpollInv, TypeOK
<1>11. /\ idx' \in [Channels -> Nat \cup {-1}]
       /\ e # c => idx'[e] = idx[c]
       /\ \A d \in Channels : d # e \/ e = c => idx'[d] = idx[d]
  BY <1>4, <1>7, <1>8, <1>10
<1>12. /\ pollfds_' \in Seq([fd : Int, events : SUBSET Interest])
       /\ Len(pollfds_') = size - 1
       /\ \A i \in 1 .. size - 1 :
             pollfds_'[i] = IF i = n THEN pollfds_[size] ELSE pollfds_[i]
  <2>1. PICK new, m, T : /\ new = pollfds_' /\ m = n
                         /\ T = [fd : Int, events : SUBSET Interest]
    OBVIOUS
  <2>2. /\ pollfds_ \in Seq(T) /\ m \in 1 .. Len(pollfds_)
        /\ new = WithLastMoved(pollfds_, m)
    BY <1>4, <1>8, <2>1 DEF WithLastMoved
  <2>3. /\ new \in Seq(T) /\ Len(new) = Len(pollfds_) - 1
        /\ \A i \in 1 .. Len(pollfds_) - 1 :
              new[i] = IF i = m THEN pollfds_[Len(pollfds_)] ELSE pollfds_[i]
    BY <2>2, LastMoved
  <2> QED
    BY <2>1, <2>3
<1>13. DOMAIN pollfds_' = 1 .. size - 1
  BY <1>12
<1>14. PollTypeOK'
  BY <1>11, <1>12, TableTypes DEF PollTypeOK
<1>15. \A d \in Live' : idx'[d] = -1 => d \notin muted'
  <2>1. \A d \in Live : idx'[d] = -1 => idx[d] = -1
    BY <1>4, <1>11 DEF Live
  <2> QED
    BY <1>1, <2>1 DEF TableInv
\* Where the others are: at most one has moved.
<1>16. ASSUME NEW d \in Channels, InMap(d)'
       PROVE  /\ InMap(d) /\ d # c /\ chan'[d] = chan[d]
              /\ IF d = e THEN idx'[d] = idx[c] /\ idx[c] # size - 1
                 ELSE idx'[d] = idx[d] /\ idx[d] # idx[c] /\ idx[d] # size - 1
              /\ idx'[d] \in 0 .. size - 2
  <2>1. InMap(d) /\ d # c /\ chan'[d] = chan[d]
    BY <1>1, <1>3, <1>16
  <2>2. IF d = e THEN idx'[d] = idx[c] /\ idx[c] # size - 1
        ELSE idx'[d] = idx[d] /\ idx[d] # idx[c] /\ idx[d] # size - 1
    BY <1>1, <1>5, <1>7, <1>11, <2>1 DEF TableInv
  <2>3. idx[d] \in 0 .. size - 1 /\ idx[c] \in 0 .. size - 1
    BY <1>1, <2>1, FindsEntry
  <2>4. idx'[d] \in 0 .. size - 2
    BY <1>4, <2>2, <2>3
  <2> QED
    BY <2>1, <2>2, <2>4
<1>17. ASSUME NEW d \in Channels, InMap(d)' PROVE Indexed(d)'
  <2>1. InTable(d)'
    <3>1. idx'[d] \in 0 .. Len(pollfds_') - 1
      BY <1>4, <1>12, <1>16, <1>17
    <3> QED
      BY <3>1 DEF InTable
  <2>2. pollfds_'[idx'[d] + 1] = Entry(d)
    <3>1. idx'[d] + 1 \in 1 .. size - 1
      BY <1>4, <1>16, <1>17
    <3>2. CASE d = e
      <4>1. idx'[d] + 1 = n
        BY <1>16, <1>17, <3>2
      <4> QED
        BY <1>6, <1>12, <3>1, <3>2, <4>1
    <3>3. CASE d # e
      <4>1. idx'[d] = idx[d] /\ idx[d] # idx[c] /\ InMap(d)
        BY <1>16, <1>17, <3>3
      <4>2. idx[d] \in Nat /\ pollfds_[idx[d] + 1] = Entry(d)
        BY <4>1, FindsEntry
      <4>3. idx'[d] + 1 # n
        BY <1>4, <4>1, <4>2
      <4> QED
        BY <1>12, <3>1, <4>1, <4>2, <4>3
    <3> QED
      BY <3>2, <3>3
  <2>3. chan[d].events = {} => d \in muted
    BY <1>16, <1>17, FindsEntry
  <2>4. Entry(d)' = Entry(d) /\ chan'[d].events = chan[d].events
    BY <1>16, <1>17 DEF Entry, Ignored
  <2> QED
    BY <2>1, <2>2, <2>3, <2>4 DEF Indexed, Pollfd
<1>18. \A d, f \in Channels : InMap(d)' /\ InMap(f)' /\ idx'[d] = idx'[f] => d = f
  <2> SUFFICES ASSUME NEW d \in Channels, NEW f \in Channels,
                      InMap(d)', InMap(f)', idx'[d] = idx'[f]
               PROVE  d = f
    OBVIOUS
  <2>1. InMap(d) /\ InMap(f) /\ (d = e <=> f = e)
    BY <1>16
  <2>2. d # e => idx[d] = idx[f]
    BY <1>16, <2>1
  <2> QED
    BY <2>1, <2>2 DEF TableInv
<1>19. ASSUME NEW i \in DOMAIN pollfds_'
       PROVE  \E d \in Channels : InMap(d)' /\ idx'[d] = i - 1
  <2>1. i \in 1 .. size - 1 /\ i \in 1 .. size /\ i - 1 # size - 1
    BY <1>4, <1>13
  <2>2. CASE i = n
    <3>1. idx[c] # size - 1 /\ idx[c] = i - 1
      BY <1>4, <2>1, <2>2
    <3> QED
      BY <1>3, <1>5, <1>7, <1>11, <3>1
  <2>3. CASE i # n
    <3>1. PICK d \in Channels : InMap(d) /\ idx[d] = i - 1
      BY <1>4, <2>1 DEF TableInv
    <3>2. d # c /\ d # e
      BY <1>4, <1>5, <2>1, <2>3, <3>1
    <3> QED
      BY <1>3, <1>11, <3>1, <3>2
  <2> QED
    BY <2>2, <2>3
<1> QED
  BY <1>9, <1>14, <1>15, <1>17, <1>18, <1>19 DEF TableInv

\* A channel that has lost its interest, or never had any, is not watched.
LEMMA IdleStep ==
    ASSUME EpollInv, IdleOutside, BothNext
    PROVE  IdleOutside'
<1>1. ASSUME NEW c \in Channels, NEW fd \in Fds, Create(c, fd)
      PROVE  IdleOutside'
  <2>1. PICK room \in BOOLEAN :
            /\ chan' = [chan EXCEPT ![c] = NewChannel(fd, room)]
            /\ NewChannel(fd, room).events = {}
    BY <1>1, NewChannelInStep DEF Create
  <2>2. /\ chan'[c] = NewChannel(fd, room)
        /\ \A d \in Channels \ {c} : chan'[d] = chan[d]
    BY <2>1 DEF EpollInv, TypeOK
  <2> QED
    BY <2>1, <2>2 DEF IdleOutside, Live
<1>2. ASSUME NEW c \in Channels, UpdateEvents(c)
      PROVE  IdleOutside'
  <2>1. /\ chan'[c].index # 1 => chan'[c].events = {}
        /\ \A d \in Channels \ {c} : chan'[d] = chan[d]
        /\ Live' = Live
    BY <1>2, UpdateEventsEffect
  <2>2. \A d \in Live : d \in Channels
    BY DEF Live
  <2> QED
    BY <2>1, <2>2 DEF IdleOutside
<1>3. ASSUME NEW c \in Channels, Remove(c)
      PROVE  IdleOutside'
  <2>1. /\ chan' = [chan EXCEPT ![c] = RemoveChannel(chan[c])]
        /\ RemoveChannel(chan[c]).events = {}
    BY <1>3, RemoveEffect, RemoveChannelInStep DEF EpollInv
  <2>2. /\ chan'[c] = RemoveChannel(chan[c])
        /\ \A d \in Channels \ {c} : chan'[d] = chan[d]
    BY <2>1 DEF EpollInv, TypeOK
  <2> QED
    BY <2>1, <2>2 DEF IdleOutside, Live
<1>4. ASSUME NEW c \in Channels, Destroy(c)
      PROVE  IdleOutside'
  <2>1. /\ chan'[c] = NoChannel
        /\ \A d \in Channels \ {c} : chan'[d] = chan[d]
    BY <1>4 DEF Destroy, EpollInv, TypeOK
  <2> QED
    BY <2>1 DEF IdleOutside, Live
<1>5. ASSUME NEW c \in Channels, RoomChanges(c)
      PROVE  IdleOutside'
  BY <1>5, RoomEffect DEF IdleOutside, Live
<1> QED
  BY <1>1, <1>2, <1>3, <1>4, <1>5 DEF BothNext

\* The two pollers begin with nothing.
LEMMA BothInitHolds == BothInit => BothInv
<1> SUFFICES ASSUME BothInit PROVE BothInv
  OBVIOUS
<1>1. Init /\ PollInit
  BY DEF BothInit
<1>2. EpollInv
  BY <1>1, EpollInit
<1>3. Live = {}
  BY <1>1 DEF Init, Live
<1>4. IdleOutside /\ failedAt = 0
  BY <1>1, <1>3 DEF IdleOutside, PollInit
<1>5. \A c \in Channels : ~InMap(c)
  BY <1>3 DEF InMap
<1>6. PollTypeOK /\ channels_ = ChannelMap_ /\ DOMAIN pollfds_ = {}
  BY <1>1 DEF PollInit, Init, PollTypeOK
<1>7. TableInv
  BY <1>3, <1>5, <1>6 DEF TableInv
<1> QED
  BY <1>2, <1>4, <1>7 DEF BothInv

\* One call to both pollers, while no assert of Poller has failed.
LEMMA TableStep ==
    ASSUME EpollInv, IdleOutside, failedAt = 0, TableInv, BothNext
    PROVE  failedAt' \in {0, 71} /\ (failedAt' = 0 => TableInv')
<1>1. PICK c \in Channels :
          \/ \E fd \in Fds : Create(c, fd) /\ PollCreate(c)
          \/ RoomChanges(c) /\ UNCHANGED pollVars
          \/ UpdateEvents(c) /\ PollUpdate(c)
          \/ Remove(c) /\ PollRemove(c)
          \/ Destroy(c) /\ UNCHANGED pollVars
  BY DEF BothNext, PollGoesOn
<1>2. ASSUME NEW fd \in Fds, Create(c, fd), PollCreate(c)
      PROVE  failedAt' = 0 /\ TableInv'
  BY <1>2, PollCreateStep DEF PollCreate
<1>3. CASE UpdateEvents(c) /\ PollUpdate(c)
  BY <1>3, PollUpdateStep
<1>4. CASE Remove(c) /\ PollRemove(c)
  <2>1. RemoveAssert(c, chan[c].fd) = 0
    BY <1>4, RemoveAsserts
  <2>2. PollTake(c, chan[c].fd) /\ muted' = muted /\ failedAt' = failedAt
    BY <1>4, <2>1 DEF PollRemove
  <2> QED
    BY <1>4, <2>2, PollTakeStep
<1>5. CASE Destroy(c) /\ UNCHANGED pollVars
  <2>1. TableInv'
    BY <1>5, PollDestroyStep
  <2> QED
    BY <1>5, <2>1 DEF pollVars
<1>6. CASE RoomChanges(c) /\ UNCHANGED pollVars
  <2>1. TableInv'
    BY <1>6, PollRoomStep
  <2> QED
    BY <1>6, <2>1 DEF pollVars
<1> QED
  BY <1>1, <1>2, <1>3, <1>4, <1>5, <1>6

\* Every step of the two preserves the invariant.
LEMMA BothStep == BothInv /\ [BothNext]_<<vars, pollVars>> => BothInv'
<1> SUFFICES ASSUME BothInv, [BothNext]_<<vars, pollVars>> PROVE BothInv'
  OBVIOUS
<1>1. EpollInv /\ IdleOutside /\ failedAt \in {0, 71}
  BY DEF BothInv
<1>2. CASE BothNext
  <2>1. EpollInv'
    <3>1. Next
      BY <1>2 DEF BothNext, Next
    <3> QED
      BY <1>1, <3>1, EpollStep
  <2>2. IdleOutside'
    BY <1>1, <1>2, IdleStep
  <2>3. CASE failedAt = 0
    BY <1>1, <1>2, <2>1, <2>2, <2>3, TableStep DEF BothInv
  <2>4. CASE failedAt # 0
    <3>1. failedAt' = failedAt
      BY <1>2, <2>4 DEF BothNext, PollGoesOn, pollVars
    <3> QED
      BY <1>1, <2>1, <2>2, <2>4, <3>1 DEF BothInv
  <2> QED
    BY <2>3, <2>4
<1>3. CASE UNCHANGED <<vars, pollVars>>
  <2>1. EpollInv'
    BY <1>1, <1>3, EpollStep
  <2>2. UNCHANGED <<chan, ChannelMap_, pollfds_, channels_, idx, muted, failedAt>>
    BY <1>3 DEF vars, pollVars
  <2>3. IdleOutside' /\ (failedAt' = 0 => TableInv')
    BY <1>1, <2>2 DEF BothInv, IdleOutside, TableInv, PollTypeOK, Live, InMap,
                      Indexed, InTable, Pollfd, Entry, Ignored
  <2> QED
    BY <1>1, <2>1, <2>2, <2>3 DEF BothInv
<1> QED
  BY <1>2, <1>3

\* The invariant of the two pollers side by side, which the next two follow
\* from.
THEOREM BothInvariant == BothSpec => []BothInv
BY BothInitHolds, BothStep, PTL DEF BothSpec

\* Poller.cc:54-112: every channel in the map finds its own pollfd at its
\* index and no pollfd is left over, for any number of channels removed from
\* any place; the only assert that can fail is the one at 71.
THEOREM EveryPollfdIsIndexed == BothSpec => []PollfdsIndexed
<1>1. BothInv => PollfdsIndexed
  <2> SUFFICES ASSUME BothInv PROVE PollfdsIndexed
    OBVIOUS
  <2>1. EpollInv /\ failedAt \in {0, 71}
    BY DEF BothInv
  <2> SUFFICES ASSUME failedAt = 0
               PROVE  /\ \A c \in Range(channels_) \ {NoChannel} : HasPollfd(c)
                      /\ \A i \in DOMAIN pollfds_ :
                            \E c \in Range(channels_) \ {NoChannel} :
                                idx[c] = i - 1
    BY <2>1 DEF PollfdsIndexed
  <2>2. TableInv
    BY DEF BothInv
  <2>3. \A c : c \in Range(channels_) \ {NoChannel}
                 <=> c \in Channels /\ InMap(c)
    <3>1. Range(channels_) = {ChannelMap_[fd] : fd \in Fds}
      BY <2>1, <2>2, TableTypes DEF Range, EpollInv, TypeOK
    <3>2. ASSUME NEW fd \in Fds, ChannelMap_[fd] # NoChannel
          PROVE  ChannelMap_[fd] \in Channels /\ InMap(ChannelMap_[fd])
      BY <2>1, <3>2 DEF EpollInv, TypeOK, MapAgrees, InMap
    <3>3. ASSUME NEW c \in Channels, InMap(c)
          PROVE  /\ chan[c].fd \in Fds /\ ChannelMap_[chan[c].fd] = c
                 /\ c # NoChannel
      <4>1. c \in Live /\ chan[c] \in ChannelType(Fds)
        BY <2>1, <3>3 DEF InMap, Live, EpollInv, TypeOK
      <4>2. chan[c].fd \in Fds
        BY <4>1 DEF ChannelType
      <4> QED
        BY <2>1, <3>3, <4>1, <4>2, NoChannelIsNone
           DEF InMap, EpollInv, MapAgrees
    <3> QED
      BY <3>1, <3>2, <3>3
  <2>4. ASSUME NEW c \in Channels, InMap(c) PROVE HasPollfd(c)
    <3>1. c \in Live /\ chan[c] \in ChannelType(Fds) /\ chan[c].index # -1
      BY <2>1, <2>4 DEF InMap, Live, EpollInv, TypeOK
    <3>2. chan[c].fd \in Fds
      BY <3>1 DEF ChannelType
    <3>3. channels_[chan[c].fd] = c
      BY <2>1, <2>2, <2>4, <3>1, <3>2, TableTypes DEF EpollInv, MapAgrees
    <3>4. InTable(c) /\ Pollfd(c) = Entry(c)
      BY <2>2, <2>4, FindsEntry DEF Indexed
    <3> QED
      BY <3>1, <3>3, <3>4 DEF HasPollfd, Entry
  <2>5. \A i \in DOMAIN pollfds_ :
            \E c \in Channels : InMap(c) /\ idx[c] = i - 1
    BY <2>2 DEF TableInv
  <2> QED
    BY <2>3, <2>4, <2>5
<1> QED
  BY <1>1, BothInvariant, PTL

\* Poller.cc:79-82 against Epoller.cc:72-85: the two watch the same channels
\* for the same events, but for those that were once without interest and
\* those the kernel had no room for.
THEOREM PollersWatchTheSame == BothSpec => []PollersAgree
<1>1. BothInv => PollersAgree
  <2> SUFFICES ASSUME BothInv, failedAt = 0
               PROVE  {w \in PollWatches : w[1] \notin Refused}
                          = {w \in EpollWatches : w[1] \notin muted}
    BY DEF PollersAgree
  <2>1. EpollInv /\ IdleOutside /\ TableInv
    BY DEF BothInv
  \* A channel in the map, on either side.
  <2>2. ASSUME NEW c \in Channels, InMap(c)
        PROVE  /\ c \in Live /\ channels_[chan[c].fd] = c
               /\ Entry(c).fd >= 0 <=> c \notin muted
               /\ c \notin muted => Entry(c).fd = chan[c].fd
               /\ c \notin muted /\ c \notin Refused
                    => chan[c].reg = {chan[c].events}
               /\ Entry(c).events = chan[c].events
    <3>1. /\ c \in Live /\ chan[c] \in ChannelType(Fds)
          /\ chan[c].index # -1 /\ InStep(chan[c])
      BY <2>1, <2>2 DEF InMap, Live, EpollInv, TypeOK
    <3>2. chan[c].fd \in Fds
      BY <3>1 DEF ChannelType
    <3>3. channels_[chan[c].fd] = c
      BY <2>1, <3>1, <3>2, TableTypes DEF EpollInv, MapAgrees
    <3>4. Entry(c).fd >= 0 <=> c \notin muted
      <4>1. chan[c].fd >= 0 /\ ~(Ignored(chan[c].fd) >= 0)
        BY <3>2, IgnoredIsNegative
      <4>2. Entry(c).fd = IF c \in muted THEN Ignored(chan[c].fd)
                                         ELSE chan[c].fd
        BY DEF Entry
      <4> QED
        BY <4>1, <4>2
    <3>5. c \notin muted => chan[c].events # {}
      BY <2>1, <2>2, FindsEntry
    <3>6. c \notin muted /\ c \notin Refused => chan[c].reg = {chan[c].events}
      BY <2>1, <3>1, <3>5 DEF IdleOutside, InStep, Refused
    <3> QED
      BY <3>1, <3>3, <3>4, <3>6 DEF Entry
  <2>3. ASSUME NEW i \in DOMAIN pollfds_, pollfds_[i].fd >= 0,
               channels_[pollfds_[i].fd] \notin Refused
        PROVE  <<channels_[pollfds_[i].fd], pollfds_[i].events>>
                 \in {w \in EpollWatches : w[1] \notin muted}
    <3>1. PICK c \in Channels : InMap(c) /\ idx[c] = i - 1
      BY <2>1 DEF TableInv
    <3>2. pollfds_[i] = Entry(c)
      <4>1. idx[c] + 1 = i
        BY <2>1, <3>1, TableTypes
      <4> QED
        BY <2>1, <3>1, <4>1, FindsEntry
    <3>3. /\ c \in Live /\ c \notin muted
          /\ channels_[pollfds_[i].fd] = c
          /\ pollfds_[i].events \in chan[c].reg
      BY <2>2, <2>3, <3>1, <3>2
    <3> QED
      BY <3>3 DEF EpollWatches
  <2>4. ASSUME NEW c \in Live, NEW mask \in chan[c].reg, c \notin muted
        PROVE  \E i \in DOMAIN pollfds_ :
                  /\ pollfds_[i].fd >= 0
                  /\ <<channels_[pollfds_[i].fd], pollfds_[i].events>>
                       = <<c, mask>>
                  /\ c \notin Refused
    <3>1. c \in Channels /\ InMap(c) /\ c \notin Refused
      <4>1. c \in Channels /\ InStep(chan[c])
        BY <2>1, <2>4 DEF Live, EpollInv
      <4>2. chan[c].index = 1 /\ c \notin Refused
        BY <2>4, <4>1 DEF InStep, Refused
      <4> QED
        BY <2>4, <4>1, <4>2 DEF InMap
    <3>2. idx[c] + 1 \in DOMAIN pollfds_ /\ pollfds_[idx[c] + 1] = Entry(c)
      BY <2>1, <3>1, FindsEntry, TableTypes
    <3>3. /\ Entry(c).fd >= 0 /\ channels_[Entry(c).fd] = c
          /\ Entry(c).events = mask
      BY <2>2, <2>4, <3>1
    <3> QED
      BY <3>1, <3>2, <3>3
  <2>5. \A w : w \in PollWatches
                 <=> \E i \in DOMAIN pollfds_ :
                        /\ pollfds_[i].fd >= 0
                        /\ w = <<channels_[pollfds_[i].fd], pollfds_[i].events>>
    BY DEF PollWatches
  <2>6. \A w : w \in EpollWatches
                 <=> \E c \in Live : \E mask \in chan[c].reg : w = <<c, mask>>
    BY DEF EpollWatches
  <2> QED
    BY <2>3, <2>4, <2>5, <2>6
<1> QED
  BY <1>1, BothInvariant, PTL
=============================================================================
