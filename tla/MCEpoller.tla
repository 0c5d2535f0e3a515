---------------------------- MODULE MCEpoller ----------------------------
(* Three Channel objects over three descriptors: a descriptor is closed    *)
(* and given to another object while others are being watched, and a       *)
(* pollfd is removed before others or from the end.  Channels are not told *)
(* apart; descriptors are, by Poller's Ignored.                            *)
EXTENDS Poller, TLC

ChannelSymmetry == Permutations(Channels)
=============================================================================
