------------------------------ MODULE Registry ------------------------------
(***************************************************************************)
(* The subscriber registry (internal/broker/registry.go), for one queue    *)
(* and one group: the exact key of the group and the patterns that match   *)
(* it.  A key leads to a subList object through a sync.Map; connection     *)
(* handlers add and remove concurrently, each step below being atomic      *)
(* under the map, a list's mutex or connMu, while dispatch calls next.     *)
(***************************************************************************)
EXTENDS Naturals, Sequences, FiniteSets, SequencesExt

CONSTANTS Conns, Exact, Patterns,
          Lists,     \* subList objects that can be allocated
          MaxSubs,   \* bound on the SUBSCRIBE frames of a connection
          MaxCalls,  \* bound on the calls of next that are remembered
          NoList, NoConn, NoKey

Keys == {Exact} \cup Patterns

VARIABLES listAt,   \* key -> its list in the sync.Map, or NoList
          members,  \* list -> its connections
          cursor,   \* list -> calls of next on it
          used,     \* lists allocated so far
          entries,  \* connection -> connSubs: the keys it is known to hold
          proc,     \* connection -> the progress of its handler
          arrived,  \* history: the keys in the order in which they were
                    \* last stored in the map
          calls,    \* history: what next returned since a list last changed
          wrong     \* history: next has passed over an older pattern

vars == <<listAt, members, cursor, used, entries, proc, arrived, calls, wrong>>

-----------------------------------------------------------------------------

Idle == [pc |-> "idle", key |-> NoKey, list |-> NoList, left |-> <<>>]

Become(c, r) == proc' = [proc EXCEPT ![c] = r]

Init == /\ listAt = [k \in Keys |-> NoList]
        /\ members = [l \in Lists |-> <<>>] /\ cursor = [l \in Lists |-> 0]
        /\ used = {}
        /\ entries = [c \in Conns |-> <<>>]
        /\ proc = [c \in Conns |-> Idle]
        /\ arrived = <<>> /\ calls = <<>> /\ wrong = FALSE

(* add: LoadOrStore.                                                       *)
LoadOrStore(c, k) ==
  /\ proc[c].pc = "idle" /\ Len(entries[c]) < MaxSubs
  /\ listAt[k] # NoList \/ Lists # used
  /\ LET l == IF listAt[k] # NoList THEN listAt[k] ELSE CHOOSE x \in Lists \ used : TRUE
     IN  /\ listAt' = [listAt EXCEPT ![k] = l]
         /\ used' = used \cup {l}
         /\ Become(c, [pc |-> "add", key |-> k, list |-> l, left |-> <<>>])
  /\ arrived' = IF listAt[k] # NoList THEN arrived
                ELSE Append(SelectSeq(arrived, LAMBDA x : x # k), k)
  /\ UNCHANGED <<members, cursor, entries, calls, wrong>>

(* subList.add, a copy and an atomic store under the list's mutex.         *)
AddToList(c) ==
  /\ proc[c].pc = "add"
  /\ members' = [members EXCEPT ![proc[c].list] = Append(@, c)]
  /\ calls' = <<>>
  /\ Become(c, [proc[c] EXCEPT !.pc = "record"])
  /\ UNCHANGED <<listAt, cursor, used, entries, arrived, wrong>>

(* add: connSubs, under connMu.                                            *)
Record(c) ==
  /\ proc[c].pc = "record"
  /\ entries' = [entries EXCEPT ![c] = Append(@, proc[c].key)]
  /\ Become(c, Idle)
  /\ UNCHANGED <<listAt, members, cursor, used, arrived, calls, wrong>>

(* remove, when the handler ends: the entries are taken out first.         *)
TakeEntries(c) ==
  /\ proc[c].pc = "idle"
  /\ Become(c, [Idle EXCEPT !.pc = "remove", !.left = entries[c]])
  /\ entries' = [entries EXCEPT ![c] = <<>>]
  /\ UNCHANGED <<listAt, members, cursor, used, arrived, calls, wrong>>

(* remove, the next entry: Load.                                           *)
LoadEntry(c) ==
  LET r == proc[c]
      k == Head(r.left)
  IN  /\ r.pc = "remove" /\ r.left # <<>>
      /\ Become(c, IF listAt[k] = NoList THEN [r EXCEPT !.left = Tail(@)]
                   ELSE [pc |-> "unlist", key |-> k, list |-> listAt[k],
                         left |-> Tail(r.left)])
      /\ UNCHANGED <<listAt, members, cursor, used, entries, arrived, calls, wrong>>

\* Mutant of WithoutFirst: the wrong half is copied.
WithoutLast(s, c) == IF s = <<>> THEN s ELSE Front(s)

WithoutFirst(s, c) ==
  IF \E i \in DOMAIN s : s[i] = c
  THEN RemoveAt(s, CHOOSE i \in DOMAIN s : s[i] = c /\ \A j \in 1..(i - 1) : s[j] # c)
  ELSE s

(* subList.remove, under the list's mutex; it reports whether the list is  *)
(* empty now.                                                              *)
RemoveFromList(c) ==
  LET r == proc[c]
      s == WithoutFirst(members[r.list], c)
  IN  /\ r.pc = "unlist"
      /\ members' = [members EXCEPT ![r.list] = s]
      /\ calls' = <<>>
      /\ Become(c, [r EXCEPT !.pc = IF s = <<>> THEN "delete" ELSE "remove"])
      /\ UNCHANGED <<listAt, cursor, used, entries, arrived, wrong>>

(* remove: Delete(key), whatever list the key leads to by now.             *)
Delete(c) ==
  LET r == proc[c]
  IN  /\ r.pc = "delete"
      /\ listAt' = [listAt EXCEPT ![r.key] = NoList]
      /\ Become(c, [r EXCEPT !.pc = "remove"])
      /\ UNCHANGED <<members, cursor, used, entries, arrived, calls, wrong>>

Gone(c) == proc[c].pc = "remove" /\ proc[c].left = <<>>

-----------------------------------------------------------------------------

Found(k) == listAt[k] # NoList /\ members[listAt[k]] # <<>>

Has == \E k \in Keys : Found(k)

\* Mutant of Chosen: the index is read before the cursor moves, twice.
ChosenStuck(l) == members[l][1 + ((cursor[l] \div 2) % Len(members[l]))]

(* subList.next.                                                           *)
Chosen(l) == members[l][1 + (cursor[l] % Len(members[l]))]

(* The keys next may answer from: the exact one, or any pattern that has   *)
(* subscribers, in the order in which sync.Map.Range happens to visit them.*)
Candidates == IF Found(Exact) THEN {Exact} ELSE {k \in Patterns : Found(k)}

Older(j, k) == \E x, y \in DOMAIN arrived : x < y /\ arrived[x] = j /\ arrived[y] = k

(* registry.next finds a connection.                                       *)
NextConn ==
  /\ Len(calls) < MaxCalls /\ Has
  /\ \E k \in Candidates :
       LET l == listAt[k]
       IN  /\ cursor' = [cursor EXCEPT ![l] = @ + 1]
           /\ calls' = Append(calls, [key |-> k, conn |-> Chosen(l)])
           /\ wrong' = (wrong \/ (k \in Patterns
                                  /\ \E j \in Candidates : Older(j, k)))
  /\ UNCHANGED <<listAt, members, used, entries, proc, arrived>>

Next == \/ \E c \in Conns : \/ \E k \in Keys : LoadOrStore(c, k)
                            \/ AddToList(c) \/ Record(c) \/ TakeEntries(c)
                            \/ LoadEntry(c) \/ RemoveFromList(c) \/ Delete(c)
        \/ NextConn

Spec == Init /\ [][Next]_vars

-----------------------------------------------------------------------------

(* The shapes of the variables.                                            *)
TypeOK == /\ listAt \in [Keys -> Lists \cup {NoList}]
          /\ \A l \in Lists : members[l] \in Seq(Conns)
          /\ used \subseteq Lists
          /\ \A k \in Keys : listAt[k] # NoList => listAt[k] \in used
          /\ \A c \in Conns : entries[c] \in Seq(Keys)

(* A connection whose handler has ended is never offered a message again:  *)
(* however adds and removes of others interleave with its own, no key      *)
(* leads to a list with the connection in it.                              *)
NoGhosts ==
  \A c \in Conns, k \in Keys :
    Gone(c) /\ listAt[k] # NoList =>
      \A i \in DOMAIN members[listAt[k]] : members[listAt[k]][i] # c

(* "using round-robin within each matching subscriber set" (registry.go:   *)
(* 241): while no list changes, the calls answered from one key serve      *)
(* every member once before one of them is served again.                   *)
RoundRobin ==
  \A k \in Keys : Found(k) =>
    LET mine == SelectSeq(calls, LAMBDA x : x.key = k)
        n    == Len(members[listAt[k]])
    IN  \A i \in 0..(Len(mine) - n), c \in Conns :
          Cardinality({j \in 1..n : mine[i + j].conn = c})
            = Cardinality({j \in 1..n : members[listAt[k]][j] = c})

(* "specific group subscribers always take precedence" (registry.go:244):  *)
(* no call is answered from a pattern while the group has its own          *)
(* subscribers.                                                            *)
ExactFirst ==
  Found(Exact) => \A i \in DOMAIN calls : calls[i].key = Exact

(* has: "there is at least one active subscriber that would receive a      *)
(* message" (registry.go:189).  A connection that has subscribed and has   *)
(* not begun to leave is such a subscriber.                                *)
SubscribersReachable ==
  \A c \in Conns :
    entries[c] # <<>> /\ proc[c].pc = "idle" => Has

(* "first-registered pattern wins" (registry.go:245).                      *)
FirstPatternWins == ~wrong
=============================================================================
