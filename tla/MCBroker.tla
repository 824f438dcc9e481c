------------------------------ MODULE MCBroker ------------------------------
(***************************************************************************)
(* Small brokers.                                                          *)
(***************************************************************************)
EXTENDS Broker

CONSTANTS a, b, d,     \* groups; d takes the dead letters
          a1, a2, b1, d1,
          c1, w1, l1

(* Two messages in one group.                                              *)
OneGroup == [m \in Msgs |-> a]
NoLetters == [m \in Msgs |-> NoMsg]

(* One group each.                                                         *)
TwoGroups == [m \in Msgs |-> IF m = b1 THEN b ELSE a]

(* Group a with dead letters in group d.                                   *)
WithDLQ == [m \in Msgs |-> IF m = d1 THEN d ELSE a]
Letters == [m \in Msgs |-> IF m = a1 THEN d1 ELSE NoMsg]

AllGroups == [c \in Conns |-> Groups]
OneLane == [g \in Groups |-> l1]
=============================================================================
