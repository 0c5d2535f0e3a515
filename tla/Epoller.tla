------------------------------ MODULE Epoller ------------------------------
(***************************************************************************)
(* net/Epoller.cc with several channels: ChannelMap_ and the kernel's      *)
(* interest list against what the channels ask for, over descriptors that  *)
(* are closed and given out again.                                         *)
(*                                                                         *)
(* The owners of channels may call enableReading, enableWriting,           *)
(* disableWriting and disableAll in any order and any number of times, the *)
(* last two on a channel they enabled.  They promise only what the asserts *)
(* of removeChannel ask, and to remove a channel they ever enabled before  *)
(* it is destroyed; TcpServer checks that connections keep that promise.   *)
(***************************************************************************)
EXTENDS Channel

CONSTANTS Channels,     \* Channel objects; one is created again after it is freed
          Fds,          \* descriptors
          NoChannel     \* ChannelMap_ has no entry; no object

ASSUME NoChannelIsNone ==
    NoChannel \notin Channels /\ NoChannel \notin ChannelType(Fds)

VARIABLES chan,         \* the objects: a record of ChannelType, or NoChannel
          ChannelMap_,  \* fd -> Channel
          assertFailed  \* one of the asserts at Epoller.cc:69, 92, 93, 97

vars == <<chan, ChannelMap_, assertFailed>>

Live == {c \in Channels : chan[c] # NoChannel}

Init ==
    /\ chan = [c \in Channels |-> NoChannel]
    /\ ChannelMap_ = [fd \in Fds |-> NoChannel]
    /\ assertFailed = FALSE

\* An owner opens a descriptor nothing has open and makes a Channel for it.
Create(c, fd) ==
    /\ c \notin Live
    /\ \A d \in Live : chan[d].fd # fd
    /\ \E room \in BOOLEAN :
          chan' = [chan EXCEPT ![c] = NewChannel(fd, room)]
    /\ UNCHANGED <<ChannelMap_, assertFailed>>

\* The kernel runs out of memory or watches for c's descriptor, or finds some.
RoomChanges(c) ==
    /\ c \in Live
    /\ chan' = [chan EXCEPT ![c].room = ~@]
    /\ UNCHANGED <<ChannelMap_, assertFailed>>

\* Slip: the map entry forgotten for a new channel.
UpdateWithoutMap(c, ch) ==
    /\ chan' = [chan EXCEPT ![c] = ch]
    /\ UNCHANGED <<ChannelMap_, assertFailed>>

\* Channel::update: c becomes ch, and enters the map if it was not there.
Update(c, ch) ==
    LET fd == ch.fd IN
    IF chan[c].index = -1 /\ ChannelMap_[fd] # NoChannel
    THEN assertFailed' = TRUE /\ UNCHANGED <<chan, ChannelMap_>>
    ELSE /\ chan' = [chan EXCEPT ![c] = ch]
         /\ ChannelMap_' = IF chan[c].index = -1
                           THEN [ChannelMap_ EXCEPT ![fd] = c]
                           ELSE ChannelMap_
         /\ UNCHANGED assertFailed

UpdateEvents(c) ==
    /\ c \in Live
    /\ \/ Update(c, EnableReading(chan[c]))
       \/ Update(c, EnableWriting(chan[c]))
       \/ IsWriting(chan[c]) /\ Update(c, DisableWriting(chan[c]))
       \/ chan[c].index # -1 /\ Update(c, DisableAll(chan[c]))

\* Slip: the map entry left behind.
RemoveKeepsMap(c) ==
    /\ c \in Live /\ chan[c].index # -1 /\ IsNothingFocus(chan[c])
    /\ chan' = [chan EXCEPT ![c] = RemoveChannel(chan[c])]
    /\ UNCHANGED <<ChannelMap_, assertFailed>>

\* EventLoop::removeChannel on a channel that is in the map and has no
\* interest left.
Remove(c) ==
    /\ c \in Live /\ chan[c].index # -1 /\ IsNothingFocus(chan[c])
    /\ IF ChannelMap_[chan[c].fd] # c
       THEN assertFailed' = TRUE /\ UNCHANGED <<chan, ChannelMap_>>
       ELSE /\ chan' = [chan EXCEPT ![c] = RemoveChannel(chan[c])]
            /\ ChannelMap_' = [ChannelMap_ EXCEPT ![chan[c].fd] = NoChannel]
            /\ UNCHANGED assertFailed

\* The owner frees the Channel and closes its descriptor.
Destroy(c) ==
    /\ c \in Live /\ chan[c].index = -1
    /\ chan' = [chan EXCEPT ![c] = NoChannel]
    /\ UNCHANGED <<ChannelMap_, assertFailed>>

Next ==
    /\ ~assertFailed        \* a failed assert aborts the process
    /\ \E c \in Channels :
          \/ \E fd \in Fds : Create(c, fd)
          \/ RoomChanges(c)
          \/ UpdateEvents(c)
          \/ Remove(c)
          \/ Destroy(c)

Spec == Init /\ [][Next]_vars

-----------------------------------------------------------------------------
(* Properties.                                                             *)

TypeOK ==
    /\ chan \in [Channels -> ChannelType(Fds) \cup {NoChannel}]
    /\ ChannelMap_ \in [Fds -> Channels \cup {NoChannel}]
    /\ assertFailed \in BOOLEAN

\* Epoller.cc:60-104.  ChannelMap_ holds a live channel exactly while its
\* index says so; in particular no entry outlives its Channel, so a new
\* channel on a reused descriptor never meets an old entry.
MapAgrees ==
    \A fd \in Fds, c \in Channels :
        ChannelMap_[fd] = c
            <=> c \in Live /\ chan[c].fd = fd /\ chan[c].index # -1

\* The asserts of Epoller.cc:69, 92, 93 and 97 hold.
AssertsHold == ~assertFailed

\* Epoller.cc:72-85, 95-118.  After any sequence of enables, disables and
\* removes the kernel watches the descriptors of the channels with index 1,
\* for exactly their events, and no other, but for a channel whose ADD found
\* no room: that one is not watched, as wrongly as the code believes it is,
\* until an ADD succeeds.  No other epoll_ctl fails for what came before it.
KernelAgrees ==
    \A c \in Live :
        /\ chan[c].reg = IF chan[c].index = 1 /\ ~chan[c].refused
                         THEN {chan[c].events} ELSE {}
        /\ ~chan[c].ctlError
=============================================================================
