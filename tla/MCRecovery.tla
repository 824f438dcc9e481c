----------------------------- MODULE MCRecovery -----------------------------
(***************************************************************************)
(* What is left after crashes and restarts: messages (Recovery), in five   *)
(* instances that differ in what may happen between the crashes, and       *)
(* credentials and tokens (Startup).  Each behaviour is one of them, while *)
(* the variables of the others keep their first values.                    *)
(***************************************************************************)
EXTENDS Startup

VARIABLES part, up, mem, chan, disk, snaps, segmentID, seq, provider, snapper,
          pub, unlogged, held, delivered, consumed, dropped, crashes

messageVars == <<up, mem, chan, disk, snaps, segmentID, seq, provider, snapper,
                 pub, unlogged, held, delivered, consumed, dropped, crashes>>
allVars == <<part, messageVars, startupVars>>

(* Rejections and late answers, and a log that is one segment.             *)
Plain == INSTANCE Recovery
  WITH Msgs <- {"m1"}, Kinds <- {"nack", "late", "full", "snapshot"},
       Provided <- FALSE, MaxAttempts <- 2, ChanCap <- 2, MaxSegment <- 0,
       MaxDeliveries <- 2, MaxCrashes <- 2

(* One attempt only.                                                       *)
Single == INSTANCE Recovery
  WITH Msgs <- {"m1"}, Kinds <- {"nack", "late"},
       Provided <- FALSE, MaxAttempts <- 1, ChanCap <- 2, MaxSegment <- 0,
       MaxDeliveries <- 2, MaxCrashes <- 2

(* Leases that expire, torn records, and segments that are removed.        *)
Segments == INSTANCE Recovery
  WITH Msgs <- {"m1"}, Kinds <- {"late", "expire", "rotate", "tear"},
       Provided <- FALSE, MaxAttempts <- 2, ChanCap <- 2, MaxSegment <- 2,
       MaxDeliveries <- 2, MaxCrashes <- 2

(* Snapshots that have the queue's state.                                  *)
Snapped == INSTANCE Recovery
  WITH Msgs <- {"m1"}, Kinds <- {"nack", "late", "expire", "rotate"},
       Provided <- TRUE, MaxAttempts <- 2, ChanCap <- 2, MaxSegment <- 1,
       MaxDeliveries <- 2, MaxCrashes <- 1

(* A record behind another one that is torn.                               *)
Two == INSTANCE Recovery
  WITH Msgs <- {"m1", "m2"}, Kinds <- {"rotate", "tear"},
       Provided <- TRUE, MaxAttempts <- 2, ChanCap <- 2, MaxSegment <- 1,
       MaxDeliveries <- 1, MaxCrashes <- 2

(* In Startup four processes, any of which may fail to write its files.    *)
MCInit == /\ \/ part \in {"plain", "startup"} /\ Plain!Init
             \/ part = "single" /\ Single!Init
             \/ part = "segments" /\ Segments!Init
             \/ part = "snapped" /\ Snapped!Init
             \/ part = "two" /\ Two!Init
          /\ StartupInit

Message == \/ part = "plain" /\ Plain!Next
           \/ part = "single" /\ Single!Next
           \/ part = "segments" /\ Segments!Next
           \/ part = "snapped" /\ Snapped!Next
           \/ part = "two" /\ Two!Next

MCNext == \/ Message /\ UNCHANGED <<part, startupVars>>
          \/ part = "startup" /\ StartupNext /\ UNCHANGED <<part, messageVars>>

MCSpec == MCInit /\ [][MCNext]_allVars

(* See Recovery: a confirmed message is lost for one of three reasons.     *)
LossExplained ==
  [][CASE part = "two"    -> Two!LossIsExplained
       [] part = "single" -> Single!LossIsExplained
       [] OTHER           -> Plain!LossIsExplained]_allVars

(* See Recovery: a consumed message whose ACK can be read stays consumed.  *)
ConsumedStaysConsumed ==
  [][part = "segments" => Segments!ConsumedAreGone]_allVars

(* See Recovery: no second copy.                                           *)
OneCopy == part \in {"plain", "single", "segments"} => Plain!OneCopy
=============================================================================
