--------------------------- MODULE MCChannelAdmin ---------------------------
(***************************************************************************)
(* A small instance of ChannelAdmin for TLC.                               *)
(***************************************************************************)
EXTENDS ChannelAdmin

\* All the handles are spellings of the same channel.
MCChannelOf == [h \in Handle |-> CHOOSE c \in Channel : TRUE]

=============================================================================
