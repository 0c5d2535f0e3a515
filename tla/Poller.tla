------------------------------- MODULE Poller -------------------------------
(***************************************************************************)
(* net/Poller.cc, the poll(2) variant with Epoller's interface, side by    *)
(* side with Epoller: the owners of Epoller make each call to both, and    *)
(* what the two watch is compared.  EventLoop only ever builds an Epoller; *)
(* the question is what a loop built on Poller would see.                  *)
(*                                                                         *)
(* A Poller keeps its own index_ for each channel, a position in pollfds_  *)
(* counted from 0.  It never marks a removed channel as new again, so an   *)
(* owner that uses one once more meets a failed assert here and not in     *)
(* Epoller; from then on only Epoller goes on.                             *)
(***************************************************************************)
EXTENDS Epoller, Sequences, Functions

Seqs == INSTANCE SequencesExt

\* A descriptor is never negative, an ignored one always is.
ASSUME FdsAreNumbers == Fds \subseteq Nat

VARIABLES
    pollfds_,       \* records: fd, or -fd-1 to be ignored, and events
    channels_,      \* fd -> Channel
    idx,            \* index_ of each channel, as a Poller sets it
    muted,          \* history: channels that have been without interest
    failedAt        \* the line of the assert of Poller.cc that failed, or 0

pollVars == <<pollfds_, channels_, idx, muted, failedAt>>

PollInit ==
    /\ pollfds_ = <<>>
    /\ channels_ = [fd \in Fds |-> NoChannel]
    /\ idx = [c \in Channels |-> -1]
    /\ muted = {}
    /\ failedAt = 0

Ignored(fd) == -fd - 1

InTable(c) == idx[c] \in 0 .. Len(pollfds_) - 1
Pollfd(c)  == pollfds_[idx[c] + 1]

\* The constructor of a Channel sets index_ to -1.
PollCreate(c) ==
    /\ idx' = [idx EXCEPT ![c] = -1]
    /\ muted' = muted \ {c}
    /\ UNCHANGED <<pollfds_, channels_, failedAt>>

\* A failed assert ends the process and everything the Poller kept.
PollAborts(line) ==
    /\ failedAt' = line
    /\ pollfds_' = <<>> /\ muted' = {}
    /\ channels_' = [fd \in Fds |-> NoChannel]
    /\ idx' = [c \in Channels |-> -1]

\* updateChannel, a new channel: it goes to the end of pollfds_.
PollAdd(c, fd, events) ==
    /\ pollfds_' = Append(pollfds_, [fd |-> fd, events |-> events])
    /\ idx' = [idx EXCEPT ![c] = Len(pollfds_)]
    /\ channels_' = [channels_ EXCEPT ![fd] = c]

\* Slip: a pollfd that is only ignored, its events left as they were.
PollModifyKeepsEvents(c, fd, events) ==
    /\ pollfds_' = [pollfds_ EXCEPT ![idx[c] + 1] =
                       IF events = {} THEN [@ EXCEPT !.fd = Ignored(fd)]
                       ELSE @]
    /\ UNCHANGED <<idx, channels_>>

\* updateChannel, an old one: without interest its descriptor is ignored;
\* when interest comes back the descriptor does not.
PollModify(c, fd, events) ==
    /\ pollfds_' = [pollfds_ EXCEPT ![idx[c] + 1] =
                       [fd |-> IF events = {} THEN Ignored(fd) ELSE @.fd,
                        events |-> events]]
    /\ UNCHANGED <<idx, channels_>>

\* The first assert of updateChannel that fails.
UpdateAssert(c, fd) ==
    IF idx[c] < 0
    THEN IF channels_[fd] # NoChannel THEN 60 ELSE 0
    ELSE IF channels_[fd] = NoChannel THEN 71
    ELSE IF channels_[fd] # c         THEN 72
    ELSE IF ~InTable(c)               THEN 74
    ELSE IF Pollfd(c).fd \notin {fd, Ignored(fd)} THEN 76
    ELSE 0

PollUpdate(c) ==
    LET fd == chan[c].fd  events == chan'[c].events  line == UpdateAssert(c, fd)
    IN  \/ line # 0 /\ PollAborts(line)
        \/ /\ line = 0
           /\ IF idx[c] < 0 THEN PollAdd(c, fd, events)
                            ELSE PollModify(c, fd, events)
           /\ muted' = IF events = {} THEN muted \cup {c} ELSE muted
           /\ UNCHANGED failedAt

\* The first assert of removeChannel that fails.
RemoveAssert(c, fd) ==
    IF channels_[fd] = NoChannel THEN 90
    ELSE IF channels_[fd] # c    THEN 91
    ELSE IF ~InTable(c)          THEN 93
    ELSE IF Pollfd(c) # [fd |-> Ignored(fd), events |-> chan[c].events] THEN 95
    ELSE 0

\* Slip: the last pollfd moved, its channel not told.
PollTakeForgetsIndex(c, fd) ==
    /\ channels_' = [channels_ EXCEPT ![fd] = NoChannel]
    /\ pollfds_' = Seqs!Front([pollfds_ EXCEPT ![idx[c] + 1] = Seqs!Last(pollfds_)])
    /\ UNCHANGED idx

\* The last pollfd takes the place of the one that is removed, and the
\* channel it belongs to, ignored or not, is told.
PollTake(c, fd) ==
    LET last    == Seqs!Last(pollfds_).fd
        atEnd   == IF last < 0 THEN Ignored(last) ELSE last
    IN  /\ channels_' = [channels_ EXCEPT ![fd] = NoChannel]
        /\ pollfds_' = Seqs!Front([pollfds_ EXCEPT ![idx[c] + 1] = Seqs!Last(pollfds_)])
        /\ idx' = IF idx[c] = Len(pollfds_) - 1 THEN idx
                  ELSE [idx EXCEPT ![channels_'[atEnd]] = idx[c]]

PollRemove(c) ==
    LET fd == chan[c].fd  line == RemoveAssert(c, fd)
    IN  \/ line # 0 /\ PollAborts(line)
        \/ line = 0 /\ PollTake(c, fd) /\ UNCHANGED <<muted, failedAt>>

-----------------------------------------------------------------------------
BothInit == Init /\ PollInit

PollGoesOn(A) == IF failedAt = 0 THEN A ELSE UNCHANGED pollVars

BothNext ==
    /\ ~assertFailed
    /\ \E c \in Channels :
          \/ \E fd \in Fds : Create(c, fd) /\ PollGoesOn(PollCreate(c))
          \/ RoomChanges(c) /\ UNCHANGED pollVars
          \/ UpdateEvents(c) /\ PollGoesOn(PollUpdate(c))
          \/ Remove(c) /\ PollGoesOn(PollRemove(c))
          \/ Destroy(c) /\ UNCHANGED pollVars

BothSpec == BothInit /\ [][BothNext]_<<vars, pollVars>>

-----------------------------------------------------------------------------
(* Properties.                                                             *)

HasPollfd(c) ==
    LET fd == chan[c].fd
    IN  /\ c \in Live /\ channels_[fd] = c
        /\ InTable(c) /\ Pollfd(c).fd \in {fd, Ignored(fd)}

\* Poller.cc:54-112.  channels_, index_ and pollfds_ say the same whatever is
\* added, ignored, and removed from the middle or the end: each channel in the
\* map finds its own pollfd at its index, and no pollfd is left over.  The
\* only assert an owner can meet is 71, with a channel it has removed.
PollfdsIndexed ==
    /\ failedAt \in {0, 71}
    /\ failedAt = 0 => /\ \A c \in Range(channels_) \ {NoChannel} : HasPollfd(c)
                       /\ \A i \in DOMAIN pollfds_ :
                             \E c \in Range(channels_) \ {NoChannel} : idx[c] = i - 1

\* What poll(2) reports on, through fillActiveChannels: ignored entries never.
PollWatches ==
    {<<channels_[p.fd], p.events>> :
        p \in {pollfds_[i] : i \in {j \in DOMAIN pollfds_ : pollfds_[j].fd >= 0}}}

EpollWatches ==
    UNION {{<<c, mask>> : mask \in chan[c].reg} : c \in Live}

\* Channels the kernel had no room for: poll(2) registers nothing.
Refused == {c \in Live : chan[c].refused}

\* Poller.cc:79-82 against Epoller.cc:72-85.  The two watch the same channels
\* for the same events, but for those that were once without interest: Epoller
\* takes them up again, and to a Poller they are lost until they are removed.
\* What Epoller's kernel refused for want of room only a Poller watches.
PollersAgree ==
    failedAt = 0 =>
        {w \in PollWatches : w[1] \notin Refused}
            = {w \in EpollWatches : w[1] \notin muted}
=============================================================================
