---------------------------- MODULE WriteChannel ----------------------------
(***************************************************************************)
(* What a device may rely on for its writes: they reach the server in the  *)
(* order in which they were made, each of them at least once.  When the    *)
(* connection is lost, the writes without an acknowledgement are delivered *)
(* again from the oldest on.  RoundStore (puts, applied) and Lobby         *)
(* (unacked, outbox) are written against this channel.                     *)
(***************************************************************************)
EXTENDS Naturals, Sequences

VARIABLES
    issued,        \* the writes made so far are 1..issued
    queue,         \* those without an acknowledgement, oldest first
    delivered,     \* how many of them this connection has delivered
    written        \* the writes in the order in which they reached the server

channelVars == <<issued, queue, delivered, written>>

ChannelInit ==
    /\ issued = 0 /\ delivered = 0
    /\ queue = <<>> /\ written = <<>>

Issue ==
    /\ issued' = issued + 1
    /\ queue' = Append(queue, issued + 1)
    /\ UNCHANGED <<delivered, written>>

Deliver ==
    /\ delivered < Len(queue)
    /\ written' = Append(written, queue[delivered + 1])
    /\ delivered' = delivered + 1
    /\ UNCHANGED <<issued, queue>>

Acknowledge ==
    /\ delivered > 0
    /\ queue' = Tail(queue)
    /\ delivered' = delivered - 1
    /\ UNCHANGED <<issued, written>>

Rewind ==
    /\ delivered' = 0
    /\ UNCHANGED <<issued, queue, written>>

ChannelNext == Issue \/ Deliver \/ Acknowledge \/ Rewind

ChannelSpec == ChannelInit /\ [][ChannelNext]_channelVars

=============================================================================
