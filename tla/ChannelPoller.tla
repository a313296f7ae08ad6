---------------------------- MODULE ChannelPoller ----------------------------
(***************************************************************************)
(* Channel (src_epoll/net/Channel.cpp) and its registration with           *)
(* EpollPoller (src_epoll/net/EpollPoller.cpp), as functions of a channel  *)
(* record: what updateChannel and removeChannel do to the index, the map   *)
(* of channels and the epoll set, and what they assert.                    *)
(*                                                                         *)
(* index: "new" is -1, "added" 1, "deleted" 2.  mapped: channels_[fd] is   *)
(* this channel.  registered: epoll watches the fd.  added: addedToLoop_.  *)
(***************************************************************************)

ChannelRecord ==
  [reading : BOOLEAN, writing : BOOLEAN, index : {"new", "added", "deleted"},
   mapped : BOOLEAN, registered : BOOLEAN, added : BOOLEAN]

NewChannel ==
  [reading |-> FALSE, writing |-> FALSE, index |-> "new",
   mapped |-> FALSE, registered |-> FALSE, added |-> FALSE]

IsNoneEvent(ch) == ~ch.reading /\ ~ch.writing

\* A bug this code once had (docs/06-problems.md:89-104): a channel that left
\* epoll is added again although it wants no event.
UpdateChannelReadding(ch) ==
  LET c == [ch EXCEPT !.added = TRUE]
  IN  IF c.index = "added"
        THEN IF IsNoneEvent(c) THEN [c EXCEPT !.registered = FALSE, !.index = "deleted"] ELSE c
        ELSE [c EXCEPT !.mapped = TRUE, !.index = "added", !.registered = TRUE]

\* EpollPoller::updateChannel after Channel::update set addedToLoop_.
UpdateChannel(ch) ==
  LET c == [ch EXCEPT !.added = TRUE]
  IN  IF c.index = "added"
        THEN IF IsNoneEvent(c) THEN [c EXCEPT !.registered = FALSE, !.index = "deleted"] ELSE c
        ELSE IF IsNoneEvent(c) THEN c
             ELSE [c EXCEPT !.mapped = TRUE, !.index = "added", !.registered = TRUE]

EnableReading(ch)  == UpdateChannel([ch EXCEPT !.reading = TRUE])
DisableReading(ch) == UpdateChannel([ch EXCEPT !.reading = FALSE])
EnableWriting(ch)  == UpdateChannel([ch EXCEPT !.writing = TRUE])
WritingStays(ch)   == ch   \* a bug: write events are never turned off
DisableWriting(ch) == UpdateChannel([ch EXCEPT !.writing = FALSE])
DisableAll(ch)     == UpdateChannel([ch EXCEPT !.reading = FALSE, !.writing = FALSE])

\* The assertions of Channel::remove and EpollPoller::removeChannel.
MayRemove(ch) == IsNoneEvent(ch) /\ ch.mapped /\ ch.index \in {"added", "deleted"}

RemoveChannel(ch) ==
  [ch EXCEPT !.added = FALSE, !.mapped = FALSE, !.registered = FALSE, !.index = "new"]

\* The three views of one registration agree: the poller's index, its map and
\* the kernel's epoll set; and epoll watches exactly the channels that want
\* an event.
Consistent(ch) ==
  /\ ch.mapped <=> ch.index # "new"
  /\ ch.registered <=> ch.index = "added"
  /\ ch.registered <=> ~IsNoneEvent(ch)
=============================================================================
