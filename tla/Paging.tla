------------------------------- MODULE Paging -------------------------------
(***************************************************************************)
(* The two listings of a queue that are read page by page, each page with  *)
(* the cursor of the one before, while groups and configurations come and  *)
(* go: the active groups, in groupKeyIndex, and the declared               *)
(* configurations, in configIdx (internal/queue/queue.go).  Keys are       *)
(* numbers in the order of their strings; 0 is the empty cursor.           *)
(***************************************************************************)
EXTENDS Naturals, Sequences, SequencesExt, FiniteSets

CONSTANTS GroupKeys, ExactKeys, PatternKeys,
          Limits,      \* page sizes the reader may ask for
          MaxChanges,  \* bound on the changes to the configurations
          MaxPages,    \* bound on the pages of a listing
          Deletions    \* which are deleted, some of: "cursor", "other"

VARIABLES groups,    \* keys in the shards' maps
          keys,      \* groupKeyIndex.keys
          adding,    \* publishers between the shard and the index, by key
          exact, wildcards, \* configIdx
          changes,
          list,      \* what the reader lists: "none", "groups" or "configs"
          cursor, pages, \* its cursor, and the number of pages it has read
          page,      \* keys of the page whose statistics it still collects
          seen,      \* history: the keys it was shown
          began,     \* history: what was listed when it began
          removed    \* history: configurations deleted since

vars == <<groups, keys, adding, exact, wildcards, changes, list, cursor, pages,
          page, seen, began, removed>>

reader == <<list, cursor, pages, page, seen, began>>

Increasing(s) == \A i \in 1..Len(s) - 1 : s[i] < s[i + 1]

Sorted(S) == SetToSortSeq(S, <)

-----------------------------------------------------------------------------
(* Publishes.  The first message makes the group, with its shard locked;   *)
(* the key enters the index afterwards.                                    *)
Create(k) ==
  /\ k \notin groups
  /\ groups' = groups \cup {k} /\ adding' = adding \cup {k}
  /\ UNCHANGED <<keys, exact, wildcards, changes, reader, removed>>

(* add: at the place that SearchStrings finds.                             *)
Inserted(s, k) ==
  LET i == Cardinality({j \in DOMAIN s : s[j] < k})
  IN  SubSeq(s, 1, i) \o <<k>> \o SubSeq(s, i + 1, Len(s))

AddKey(k) ==
  /\ k \in adding /\ adding' = adding \ {k}
  /\ keys' = Inserted(keys, k)
  /\ UNCHANGED <<groups, exact, wildcards, changes, reader, removed>>

-----------------------------------------------------------------------------
(* configIdx.set and del, for keys only.                                   *)
Declare(k) ==
  /\ changes < MaxChanges /\ changes' = changes + 1
  /\ IF k \in ExactKeys
     THEN exact' = exact \cup {k} /\ UNCHANGED wildcards
     ELSE /\ wildcards' =
               IF k \in Range(wildcards) THEN wildcards ELSE Append(wildcards, k)
          /\ UNCHANGED exact
  /\ UNCHANGED <<groups, keys, adding, reader, removed>>

DeleteConfig(k) ==
  /\ (IF k = cursor THEN "cursor" ELSE "other") \in Deletions
  /\ changes < MaxChanges /\ changes' = changes + 1
  /\ k \in exact \cup Range(wildcards)
  /\ exact' = exact \ {k} /\ wildcards' = SelectSeq(wildcards, LAMBDA x : x # k)
  /\ removed' = removed \cup {k}
  /\ UNCHANGED <<groups, keys, adding, reader>>

(* configIdx.list.                                                         *)
Configs == Sorted(exact) \o wildcards

-----------------------------------------------------------------------------
(* A client begins a listing, which it reads to its end.                   *)
Begin ==
  /\ list = "none"
  /\ \/ list' = "groups" /\ began' = Range(keys)
     \/ list' = "configs" /\ began' = exact \cup Range(wildcards)
  /\ removed' = {}
  /\ cursor' = 0 /\ pages' = 0 /\ page' = <<>> /\ seen' = <<>>
  /\ UNCHANGED <<groups, keys, adding, exact, wildcards, changes>>

Cut(s, start, limit) ==
  SubSeq(s, start + 1, IF start + limit > Len(s) THEN Len(s) ELSE start + limit)

NextCursor(s, start, limit) == IF start + limit < Len(s) THEN s[start + limit] ELSE 0

(* groupKeyIndex.page: behind the cursor, or where it would be.            *)
StartInKeys(after) == Cardinality({j \in DOMAIN keys : keys[j] <= after})

\* Mutant of StartInConfigs: by the order of the keys, as for groups.
StartByOrder(after) == Cardinality({j \in DOMAIN Configs : Configs[j] <= after})

(* PageGroupConfigs: behind the cursor, or at the beginning.               *)
StartInConfigs(after) ==
  LET at == {i \in DOMAIN Configs : Configs[i] = after}
  IN  IF at = {} THEN 0 ELSE CHOOSE i \in at : TRUE

(* The end of a listing is an empty cursor.                                *)
Turn(next) ==
  /\ cursor' = next /\ pages' = pages + 1

(* PageGroupStats, first step: a page of keys; an empty one ends it.       *)
PageKeys(limit) ==
  LET start == StartInKeys(cursor)
  IN  /\ list = "groups" /\ page = <<>> /\ pages < MaxPages
      /\ pages = 0 \/ cursor # 0
      /\ page' = Cut(keys, start, limit)
      /\ Turn(NextCursor(keys, start, limit))
      /\ UNCHANGED <<groups, keys, adding, exact, wildcards, changes, list, seen, began, removed>>

(* PageGroupStats, second step: one shard after the other.                 *)
ReadStats ==
  /\ list = "groups" /\ page # <<>>
  /\ page' = Tail(page)
  /\ seen' = IF Head(page) \in groups THEN Append(seen, Head(page)) ELSE seen
  /\ UNCHANGED <<groups, keys, adding, exact, wildcards, changes, list, cursor, pages, began,
                 removed>>

(* PageGroupConfigs: from one copy of the index.                           *)
PageGroupConfigs(limit) ==
  LET start == StartInConfigs(cursor)
  IN  /\ list = "configs" /\ pages < MaxPages
      /\ pages = 0 \/ cursor # 0
      /\ seen' = seen \o Cut(Configs, start, limit)
      /\ Turn(NextCursor(Configs, start, limit))
      /\ UNCHANGED <<groups, keys, adding, exact, wildcards, changes, list, page, began, removed>>

Init ==
  /\ groups = {} /\ keys = <<>> /\ adding = {}
  /\ exact = {} /\ wildcards = <<>> /\ changes = 0
  /\ list = "none" /\ cursor = 0 /\ pages = 0 /\ page = <<>> /\ seen = <<>>
  /\ began = {} /\ removed = {}

Next ==
  \/ \E k \in GroupKeys : Create(k) \/ AddKey(k)
  \/ \E k \in ExactKeys \cup PatternKeys : Declare(k) \/ DeleteConfig(k)
  \/ Begin \/ ReadStats
  \/ \E limit \in Limits : PageKeys(limit) \/ PageGroupConfigs(limit)

Spec == Init /\ [][Next]_vars

-----------------------------------------------------------------------------
(* Types; the index is sorted, and holds groups that exist.                *)
TypeOK ==
  /\ groups \subseteq GroupKeys /\ adding \subseteq groups
  /\ Increasing(keys) /\ Range(keys) = groups \ adding
  /\ exact \subseteq ExactKeys
  /\ IsInjective(wildcards) /\ Range(wildcards) \subseteq PatternKeys

Finished == pages > 0 /\ cursor = 0 /\ page = <<>>

(* Whatever is published or declared meanwhile, the pages of a listing     *)
(* together show nothing twice that was not deleted in between ...         *)
ShownOnce == \A i, j \in DOMAIN seen :
               seen[i] = seen[j] /\ i # j => list = "configs" /\ seen[i] \in removed

(* ... and show every key that was there when it began and has stayed.     *)
NothingSkipped ==
  Finished => began \ (IF list = "configs" THEN removed ELSE {}) \subseteq Range(seen)

(* The pages of active groups are sorted by key, across pages.             *)
GroupsInOrder == list = "groups" => Increasing(seen)
=============================================================================
