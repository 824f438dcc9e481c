-------------------------- MODULE MessageLifecycle --------------------------
(***************************************************************************)
(* What a consumer group promises about each message, in the terms of      *)
(* MessageState (internal/queue/message.go): once accepted a message is    *)
(* pending or processing until a consumer's ACK or its last NACK ends it,  *)
(* and it only ends while it is processing.  One operation ends at most    *)
(* one message, and nothing brings back a message that has ended.          *)
(***************************************************************************)
EXTENDS FiniteSets

CONSTANT Ids

VARIABLE state   \* state[m]: Message.State, or "new" before m is published

(* StateFailed and StateDLQ are both "dead": the group drops the message.  *)
States == {"new", "pending", "processing", "done", "dead"}

Legal == {<<s, s>> : s \in States}
           \cup {<<"new", "pending">>, <<"pending", "processing">>,
                 <<"processing", "pending">>, <<"processing", "done">>,
                 <<"processing", "dead">>}

Init == state = [m \in Ids |-> "new"]

Ends(m) == state[m] = "processing" /\ state'[m] \in {"done", "dead"}

Next == /\ state' \in [Ids -> States]
        /\ \A m \in Ids : <<state[m], state'[m]>> \in Legal
        /\ \A m \in Ids : Ends(m) => \A n \in Ids \ {m} : ~Ends(n)

Spec == Init /\ [][Next]_state
=============================================================================
