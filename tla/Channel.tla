------------------------------ MODULE Channel ------------------------------
(***************************************************************************)
(* A Channel and what Epoller and the kernel keep for it (net/Channel.h,   *)
(* net/Epoller.cc), as a record and the operators that change it:          *)
(*   fd        the descriptor it watches                                   *)
(*   events    events_, a set of poll's flags                              *)
(*   index     index_: -1 not in ChannelMap_, 1 or 2 in it                 *)
(*   reg       the kernel's registration: {} or {the mask it was given}    *)
(*   room      the kernel would register it: memory and watches are left   *)
(*   refused   its ADD found no room (ENOMEM, ENOSPC), and the code has    *)
(*             not deleted or added it since                               *)
(*   ctlError  an epoll_ctl has failed that no refused ADD accounts for    *)
(* The code logs every failed epoll_ctl alike and goes on.                 *)
(* The registration belongs to the open file, so it goes when the file is  *)
(* closed; ChannelMap_ is kept by the modules that use this one.           *)
(***************************************************************************)
EXTENDS Integers

\* POLLIN | POLLPRI: ordinary data or the end of it, and urgent data.
readEvent_  == {"IN", "PRI"}
writeEvent_ == {"OUT"}

Interest == readEvent_ \cup writeEvent_

ChannelType(Fds) ==
    [fd : Fds, events : SUBSET Interest, index : {-1, 1, 2},
     reg : {{}} \cup {{m} : m \in SUBSET Interest}, room : BOOLEAN,
     refused : BOOLEAN, ctlError : BOOLEAN]

NewChannel(fd, room) ==
    [fd |-> fd, events |-> {}, index |-> -1, reg |-> {}, room |-> room,
     refused |-> FALSE, ctlError |-> FALSE]

-----------------------------------------------------------------------------
\* epoll_ctl: ENOENT for MOD and DEL without a registration, EEXIST for a
\* second ADD, ENOMEM or ENOSPC for an ADD without room.
CtlFails(op, ch) ==
    IF op = "ADD" THEN ch.reg # {} \/ ~ch.room ELSE ch.reg = {}

\* Epoller::update.
EpollCtl(op, ch) ==
    LET fails  == CtlFails(op, ch)
        noRoom == op = "ADD" /\ ch.reg = {} /\ ~ch.room
    IN  [ch EXCEPT !.reg = IF fails THEN @ ELSE IF op = "DEL" THEN {}
                           ELSE {ch.events},
                   !.refused = IF op = "MOD" THEN @ ELSE noRoom,
                   !.ctlError = @ \/ (fails /\ ~noRoom /\ ~ch.refused)]

\* Epoller::updateChannel, ChannelMap_ aside.
UpdateChannel(ch) ==
    IF ch.index = 1
    THEN IF ch.events = {}
         THEN [EpollCtl("DEL", ch) EXCEPT !.index = 2]
         ELSE EpollCtl("MOD", ch)
    ELSE [EpollCtl("ADD", ch) EXCEPT !.index = 1]

SetEvents(ch, mask) == UpdateChannel([ch EXCEPT !.events = mask])

EnableReading(ch)  == SetEvents(ch, ch.events \cup readEvent_)
EnableWriting(ch)  == SetEvents(ch, ch.events \cup writeEvent_)
DisableWriting(ch) == SetEvents(ch, ch.events \ writeEvent_)
DisableAll(ch)     == SetEvents(ch, {})

IsWriting(ch)      == ch.events \cap writeEvent_ # {}
IsNothingFocus(ch) == ch.events = {}

\* Slip: removeChannel that trusts isNothingFocus and leaves the kernel alone.
RemoveChannelForgetsKernel(ch) == [ch EXCEPT !.index = -1]

\* Epoller::removeChannel, ChannelMap_ aside.  Its own disableAll is what
\* takes back the ADD that a second disableAll by the caller amounts to.
RemoveChannel(ch) ==
    LET off == DisableAll(ch)
    IN  [IF off.index = 1 THEN EpollCtl("DEL", off) ELSE off
            EXCEPT !.index = -1]
=============================================================================
