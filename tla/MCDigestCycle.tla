--------------------------- MODULE MCDigestCycle ---------------------------
(***************************************************************************)
(* Small instances of DigestCycle for TLC.                                 *)
(***************************************************************************)
EXTENDS DigestCycle

CONSTANTS c1, c2, k1, k2

\* The first messages of both channels are forwards of the same content.
SharedKey == [p \in Post |-> IF p[2] = 1 THEN k1 ELSE k2]

\* All messages have the same content.
OneKey == [p \in Post |-> k1]

\* The summarizer accepts every post, or rejects the first one of c1.
NoneRejected == {}
FirstRejected == {<<c1, 1>>}

============================================================================
