----------------------------- MODULE MCControl ------------------------------
(***************************************************************************)
(* What clients and administrators hand to the broker and get back: frames *)
(* (Codec), the group configurations of a queue (GroupConfigs), its        *)
(* declaration and deletion (QueueAdmin), accounts and permissions         *)
(* (Accounts), listings (Paging).  Each behaviour is one of them at work   *)
(* while the variables of the others keep their first values.              *)
(***************************************************************************)
EXTENDS Accounts, Sequences, TLC

VARIABLES part,
          exact, wildcards, inForce, rows, caller, changes,
          space, queueSpaceSeq, queueEnforced, queueRows, registered, override, wal,
          files, admin, publish, declares, deleted,
          mu, encoders, stream, sent, read, broken,
          groups, keys, adding, pagedExact, pagedWildcards, edits,
          list, cursor, pages, page, seen, began, removed

configVars == <<exact, wildcards, inForce, rows, caller, changes>>
adminVars  == <<space, queueSpaceSeq, queueEnforced, queueRows, registered, override, wal,
                files, admin, publish, declares, deleted>>
codecVars  == <<mu, encoders, stream, sent, read, broken>>
pagingVars == <<groups, keys, adding, pagedExact, pagedWildcards, edits,
                list, cursor, pages, page, seen, began, removed>>
allVars == <<part, configVars, adminVars, vars, codecVars, pagingVars>>

(* A pattern for the groups a and b, and an exact key x beside it; one     *)
(* request at a time, cut off by a restart anywhere.                       *)
Put == INSTANCE GroupConfigs
  WITH Groups <- {"a", "b", "x"}, Patterns <- {"p"}, Match <- [p |-> {"a", "b"}],
       Declarable <- {"p", "x"}, Names <- <<"p", "a", "b", "x">>, Callers <- {"c1"},
       Values <- {"v1", "v2"}, Kinds <- {"restart"}, MaxChanges <- 4,
       Default <- "default"

(* The same with deletions.                                                *)
Del == INSTANCE GroupConfigs
  WITH Groups <- {"a", "b", "x"}, Patterns <- {"p"}, Match <- [p |-> {"a", "b"}],
       Declarable <- {"p", "x"}, Names <- <<"p", "a", "b", "x">>, Callers <- {"c1"},
       Values <- {"v1", "v2"}, Kinds <- {"delete", "restart"}, MaxChanges <- 4,
       Default <- "default"

(* One administrator, two publishes, and a restart anywhere.               *)
Q == INSTANCE QueueAdmin
  WITH Admins <- {"a1"}, Publishes <- {"p1", "p2"}, MaxDeclares <- 3,
       MaxSpaces <- 2, Default <- TRUE, Kinds <- {"restart", "namespace"},
       rows <- queueRows, spaceSeq <- queueSpaceSeq, enforced <- queueEnforced

(* Three groups and four configurations, pages of one or two; the key the  *)
(* cursor stands at is not deleted.                                        *)
P == INSTANCE Paging
  WITH GroupKeys <- {1, 2, 3}, ExactKeys <- {1, 3}, PatternKeys <- {2, 4},
       Limits <- {1, 2}, MaxChanges <- 4, MaxPages <- 4, Deletions <- {"other"},
       exact <- pagedExact, wildcards <- pagedWildcards, changes <- edits

(* With bytes of three values a two-byte length is at most 8 and a         *)
(* four-byte one at most 80; the strings are the shortest and the longest  *)
(* a length can announce.                                                  *)
F == INSTANCE Codec
  WITH Base <- 3, MaxPayloadSize <- 40, MaxIdent <- 8, IdentBytes <- {1, 2},
       Writers <- {"w1", "w2"}, Strings <- {<<>>, <<1, 2, 1, 2, 1, 2, 1, 2>>},
       Blobs <- {<<>>, <<0, 2, 1>>}, MessageID <- <<1, 2, 1>>, MaxFrames <- 2,
       writer <- encoders

(* In Accounts two requests at a time, two names, one of them free at      *)
(* first.                                                                  *)
MCInit == /\ part \in {"put", "delete", "admin", "accounts", "codec", "paging"}
          /\ Put!Init /\ Q!Init /\ Init /\ F!Init /\ P!Init
          (* Only the part at work makes a choice. *)
          /\ part # "admin" => queueEnforced
          /\ part # "accounts" => enforced

MCNext ==
  \/ /\ part = "put" /\ Put!Next
     /\ UNCHANGED <<part, adminVars, vars, codecVars, pagingVars>>
  \/ /\ part = "delete" /\ Del!Next
     /\ UNCHANGED <<part, adminVars, vars, codecVars, pagingVars>>
  \/ /\ part = "admin" /\ Q!Next
     /\ UNCHANGED <<part, configVars, vars, codecVars, pagingVars>>
  \/ /\ part = "accounts" /\ Next
     /\ UNCHANGED <<part, configVars, adminVars, codecVars, pagingVars>>
  \/ /\ part = "codec" /\ F!Next
     /\ UNCHANGED <<part, configVars, adminVars, vars, pagingVars>>
  \/ /\ part = "paging" /\ P!Next
     /\ UNCHANGED <<part, configVars, adminVars, vars, codecVars>>

MCSpec == MCInit /\ [][MCNext]_allVars

(* Requests and user names are interchangeable.                            *)
Symmetry == Permutations(Requests) \cup Permutations(Users)

(* See GroupConfigs: as long as nothing is deleted, every active group     *)
(* works by the configuration that its key resolves to.                    *)
InForceIsResolved == part = "put" => Put!InForceIsResolved

(* See GroupConfigs: a restart between requests changes no configuration,  *)
(* deletions included.                                                     *)
RestartKeepsConfig == Del!RestartKeepsConfig

(* See QueueAdmin: between requests every queue with a row is served.      *)
DeclaredIsServed == Q!DeclaredIsServed

(* See QueueAdmin: an acknowledged publish stays in the log until its      *)
(* queue is deleted.                                                       *)
AckedKept == Q!AckedKept

(* See Codec: frames do not interleave and come out as they went in.       *)
FramesArriveWhole == F!FramesArriveWhole

(* See Paging: the pages show every key that was there at the beginning    *)
(* and has stayed.                                                         *)
NothingSkipped == P!NothingSkipped
=============================================================================
