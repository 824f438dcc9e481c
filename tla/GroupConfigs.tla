---------------------------- MODULE GroupConfigs ----------------------------
(***************************************************************************)
(* The group configurations of one queue: configIdx, the configurations    *)
(* in force in the groups, and the rows of the database that a restart     *)
(* builds the index from (internal/queue/queue.go, internal/api/v1/        *)
(* queues.go, internal/db/queues.go, internal/broker/recovery.go).         *)
(***************************************************************************)
EXTENDS Naturals, Sequences, SequencesExt, FiniteSets

CONSTANTS Groups, Patterns,
          Match,      \* pattern -> the groups whose keys it matches
          Declarable, \* the keys that requests name
          Names,      \* all keys in the order of the database's ORDER BY key
          Callers,    \* requests to the API that run at the same time
          Values,     \* configurations, but for their keys
          Kinds,      \* what may happen, some of: "delete", "restart"
          MaxChanges, \* bound on the changes
          None, Default

Keys == Groups \cup Patterns

VARIABLES exact,      \* cfgIdx.exact
          wildcards,  \* cfgIdx.wildcards, as keys with their values
          inForce,    \* group -> its cfg; None until its first message
          rows,       \* the table groups: key -> config
          caller,     \* request -> its progress
          changes     \* changes so far

vars == <<exact, wildcards, inForce, rows, caller, changes>>

Idle == [pc |-> "idle", key |-> None, val |-> None, left |-> {}]

Become(c, r) == caller' = [caller EXCEPT ![c] = r]

-----------------------------------------------------------------------------
(* configIdx.                                                              *)

(* set, for a pattern: in its old place or at the end.                     *)
WithPattern(w, k, v) ==
  IF \E i \in DOMAIN w : w[i].key = k
  THEN [i \in DOMAIN w |-> IF w[i].key = k THEN [key |-> k, val |-> v] ELSE w[i]]
  ELSE Append(w, [key |-> k, val |-> v])

(* resolve: the exact key, or the first pattern, or the default.           *)
ResolveIn(e, w, g) ==
  LET fits == {i \in DOMAIN w : g \in Match[w[i].key]}
  IN  IF e[g] # None THEN e[g]
      ELSE IF fits = {} THEN Default
      ELSE w[CHOOSE i \in fits : \A j \in fits : i <= j].val

Resolve(g) == ResolveIn(exact, wildcards, g)

\* Mutant of Targets: a pattern only concerns groups that come later.
TargetsExact(k) == IF k \in Groups THEN {k} ELSE {}

(* The active groups that SetGroupConfig visits.                           *)
Targets(k) == IF k \in Groups THEN {k} ELSE Match[k]

-----------------------------------------------------------------------------
(* A PUT: the index under configMu, ...                                    *)
SetGroupConfig(c, k, v) ==
  /\ caller[c] = Idle /\ changes < MaxChanges
  /\ changes' = changes + 1
  /\ IF k \in Groups
     THEN exact' = [exact EXCEPT ![k] = v] /\ UNCHANGED wildcards
     ELSE wildcards' = WithPattern(wildcards, k, v) /\ UNCHANGED exact
  /\ Become(c, [pc |-> "walk", key |-> k, val |-> v, left |-> Targets(k)])
  /\ UNCHANGED <<inForce, rows>>

(* ... then each active group under its shard's lock, ...                  *)
Propagate(c) ==
  LET r == caller[c]
  IN  /\ r.pc = "walk"
      /\ \E g \in r.left :
           /\ inForce' = IF inForce[g] = None THEN inForce ELSE [inForce EXCEPT ![g] = r.val]
           /\ Become(c, [r EXCEPT !.left = @ \ {g}])
      /\ UNCHANGED <<exact, wildcards, rows, changes>>

\* Mutant of Persist: the row is inserted, and never updated.
PersistOnce(c) ==
  LET r == caller[c]
  IN  /\ r.pc = "walk" /\ r.left = {}
      /\ rows' = IF rows[r.key] = None THEN [rows EXCEPT ![r.key] = r.val] ELSE rows
      /\ Become(c, Idle)
      /\ UNCHANGED <<exact, wildcards, inForce, changes>>

(* ... and the row at last.                                                *)
Persist(c) ==
  LET r == caller[c]
  IN  /\ r.pc = "walk" /\ r.left = {}
      /\ rows' = [rows EXCEPT ![r.key] = r.val]
      /\ Become(c, Idle)
      /\ UNCHANGED <<exact, wildcards, inForce, changes>>

Declared(k) == IF k \in Groups THEN exact[k] # None
               ELSE \E i \in DOMAIN wildcards : wildcards[i].key = k

(* A DELETE: the index, which is all that DeleteGroupConfig changes, ...   *)
DeleteGroupConfig(c, k) ==
  /\ "delete" \in Kinds
  /\ caller[c] = Idle /\ changes < MaxChanges /\ Declared(k)
  /\ changes' = changes + 1
  /\ IF k \in Groups
     THEN exact' = [exact EXCEPT ![k] = None] /\ UNCHANGED wildcards
     ELSE /\ wildcards' = SelectSeq(wildcards, LAMBDA x : x.key # k)
          /\ UNCHANGED exact
  /\ Become(c, [Idle EXCEPT !.pc = "unrow", !.key = k])
  /\ UNCHANGED <<inForce, rows>>

(* ... and the row.                                                        *)
DeleteRow(c) ==
  /\ caller[c].pc = "unrow"
  /\ rows' = [rows EXCEPT ![caller[c].key] = None]
  /\ Become(c, Idle)
  /\ UNCHANGED <<exact, wildcards, inForce, changes>>

(* The first message of a group creates it, with its shard locked.         *)
Create(g) ==
  /\ inForce[g] = None
  /\ inForce' = [inForce EXCEPT ![g] = Resolve(g)]
  /\ UNCHANGED <<exact, wildcards, rows, caller, changes>>

-----------------------------------------------------------------------------
(* restoreFromDB declares the rows in the order of their keys.             *)
RestoredExact == [g \in Groups |-> rows[g]]

RestoredWildcards ==
  FoldLeft(LAMBDA w, k : WithPattern(w, k, rows[k]), <<>>,
           SelectSeq(Names, LAMBDA k : k \in Patterns /\ rows[k] # None))

(* The broker stops and starts again: requests are cut off wherever they   *)
(* are, and the replay creates the groups that have messages.              *)
Restart ==
  /\ "restart" \in Kinds
  /\ exact' = RestoredExact
  /\ wildcards' = RestoredWildcards
  /\ \E live \in SUBSET {g \in Groups : inForce[g] # None} :
       inForce' = [g \in Groups |->
                     IF g \in live THEN ResolveIn(exact', wildcards', g) ELSE None]
  /\ caller' = [c \in Callers |-> Idle]
  /\ UNCHANGED <<rows, changes>>

Init ==
  /\ exact = [g \in Groups |-> None] /\ wildcards = <<>>
  /\ inForce = [g \in Groups |-> None]
  /\ rows = [k \in Keys |-> None]
  /\ caller = [c \in Callers |-> Idle] /\ changes = 0

Next ==
  \/ \E c \in Callers :
       \/ \E k \in Declarable : \/ DeleteGroupConfig(c, k)
                                \/ \E v \in Values : SetGroupConfig(c, k, v)
       \/ Propagate(c) \/ Persist(c) \/ DeleteRow(c)
  \/ \E g \in Groups : Create(g)
  \/ Restart

Spec == Init /\ [][Next]_vars

-----------------------------------------------------------------------------
(* Types; no pattern is declared twice.                                    *)
TypeOK ==
  /\ exact \in [Groups -> Values \cup {None}]
  /\ \A i \in DOMAIN wildcards : wildcards[i].key \in Patterns /\ wildcards[i].val \in Values
  /\ \A i, j \in DOMAIN wildcards : wildcards[i].key = wildcards[j].key => i = j
  /\ inForce \in [Groups -> Values \cup {None, Default}]
  /\ rows \in [Keys -> Values \cup {None}]
  /\ changes \in 0..MaxChanges

Settled == \A c \in Callers : caller[c] = Idle

(* When no request is under way, every active group works by the           *)
(* configuration its key resolves to, also one that was created while the  *)
(* request was between the index and the shards ("All consumers matching   *)
(* the pattern inherit this config").                                      *)
InForceIsResolved ==
  Settled => \A g \in Groups : inForce[g] \in {None, Resolve(g)}

(* A restart after all requests have been answered does not change what    *)
(* any key resolves to.                                                    *)
RestartKeepsConfig ==
  [][Settled /\ Restart =>
       \A g \in Groups : ResolveIn(exact', wildcards', g) = Resolve(g)]_vars
=============================================================================
