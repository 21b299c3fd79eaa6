---------------------------- MODULE ReliableLink ----------------------------
(***************************************************************************)
(* What a reliable stop-and-wait channel promises its two ends: messages   *)
(* are delivered once and in the order sent, and a sender that takes its   *)
(* last message as acknowledged is right about it.                         *)
(***************************************************************************)
EXTENDS Naturals, Sequences

VARIABLES
    sent,   \* the messages sent
    got,    \* the messages delivered
    busy    \* the sender waits for an acknowledgement

Init == sent = << >> /\ got = << >> /\ busy = FALSE

Send ==
    /\ ~busy /\ busy' = TRUE
    /\ Len(sent') > 0 /\ sent' = Append(sent, sent'[Len(sent')])
    /\ UNCHANGED got
Deliver == busy /\ got # sent /\ got' = sent /\ UNCHANGED <<sent, busy>>
Acknowledged == busy /\ got = sent /\ busy' = FALSE /\ UNCHANGED <<sent, got>>

Next == Send \/ Deliver \/ Acknowledged
Spec == Init /\ [][Next]_<<sent, got, busy>>
=============================================================================
