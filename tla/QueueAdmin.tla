----------------------------- MODULE QueueAdmin -----------------------------
(***************************************************************************)
(* How one queue is declared and deleted through the API: its row in the   *)
(* database, its entry in the scheduler, its write-ahead log and the       *)
(* log's files, with publishes, restarts and changes of its namespace in   *)
(* between (internal/api/v1/queues.go, namespaces.go, db/queues.go,        *)
(* db/namespaces.go, storage/wal.go, broker/recovery.go).                  *)
(***************************************************************************)
EXTENDS Naturals, Sequences, FiniteSets

CONSTANTS Admins,      \* requests to the API that may run at the same time
          Publishes,   \* each is made at most once
          MaxDeclares, \* bound on the declarations
          Default,     \* the WAL's own Durable setting
          MaxSpaces,   \* bound on the namespace rows ever inserted
          Kinds,       \* what may happen, some of: "restart", "overlap", "namespace"
          None

VARIABLES space,      \* the id of the namespace's row, or None
          spaceSeq,   \* the ids that AUTOINCREMENT has given out
          enforced,   \* the driver enforces foreign keys
          rows,       \* the queue's rows: their namespace's id and their durable setting
          registered, \* the scheduler knows the queue
          override,   \* WAL.queueDurable
          wal,        \* the QueueWAL: open, durable, and whether its files are linked
          files,      \* publishes in the log's directory, or None
          admin,      \* request -> its next step, its namespace's id and its durable setting
          publish,    \* publish -> its progress, and the declaration it is for
          declares,   \* history: declarations so far
          deleted     \* history: deleted, with an answer, and not declared since

vars == <<space, spaceSeq, enforced, rows, registered, override, wal, files, admin,
          publish, declares, deleted>>

spaceVars == <<space, spaceSeq, enforced>>

Closed == [open |-> FALSE, durable |-> Default, linked |-> FALSE]

Quiet == [step |-> "none", ns |-> None, durable |-> Default]

(* The row that a query by the namespace's name finds, if any.             *)
Row == {r \in rows : r.ns = space}

Settled == \A a \in Admins : admin[a] = Quiet

Go(a, step) == admin' = [admin EXCEPT ![a].step = step]

Done(a) == admin' = [admin EXCEPT ![a] = Quiet]

-----------------------------------------------------------------------------
(* POST /queues: the scheduler must not know the queue, ...                *)
CheckFree(a, d) ==
  /\ admin[a] = Quiet /\ ~registered /\ declares < MaxDeclares
  /\ admin' = [admin EXCEPT ![a].step = "lookup", ![a].durable = d]
  /\ UNCHANGED <<spaceVars, rows, registered, override, wal, files, publish, declares, deleted>>

(* ... its namespace must exist, ...                                       *)
GetNamespace(a) ==
  /\ admin[a].step = "lookup"
  /\ IF space = None THEN Done(a)
     ELSE admin' = [admin EXCEPT ![a].step = "insert", ![a].ns = space]
  /\ UNCHANGED <<spaceVars, rows, registered, override, wal, files, publish, declares, deleted>>

(* ... and CreateQueue inserts the row, or meets a conflict, or (with      *)
(* foreign keys) a namespace that has gone since.                          *)
CreateQueue(a) ==
  /\ admin[a].step = "insert"
  /\ IF (\E r \in rows : r.ns = admin[a].ns) \/ (enforced /\ space # admin[a].ns)
     THEN Done(a) /\ UNCHANGED <<rows, declares, deleted>>
     ELSE /\ rows' = rows \cup {[ns |-> admin[a].ns, durable |-> admin[a].durable]}
          /\ declares' = declares + 1 /\ deleted' = FALSE
          /\ Go(a, "register")
  /\ UNCHANGED <<spaceVars, registered, override, wal, files, publish>>

RegisterQueue(a) ==
  /\ admin[a].step = "register"
  /\ registered' = TRUE /\ Go(a, "durable")
  /\ UNCHANGED <<spaceVars, rows, override, wal, files, publish, declares, deleted>>

(* SetQueueDurable: for a log to come, and for one that is open.           *)
SetQueueDurable(a) ==
  /\ admin[a].step = "durable"
  /\ override' = admin[a].durable
  /\ wal' = IF wal.open THEN [wal EXCEPT !.durable = admin[a].durable] ELSE wal
  /\ Done(a)
  /\ UNCHANGED <<spaceVars, rows, registered, files, publish, declares, deleted>>

-----------------------------------------------------------------------------
\* Mutant of DeleteSteps: the files go first.
DeleteStepsFilesFirst == <<"take", "remove", "find", "drop", "unregister">>

(* DELETE /queues/{namespace}/{name}: its steps after the first test.      *)
DeleteSteps == <<"find", "drop", "unregister", "take", "remove">>

After(step) ==
  LET i == CHOOSE i \in DOMAIN DeleteSteps : DeleteSteps[i] = step
  IN  IF i < Len(DeleteSteps) THEN DeleteSteps[i + 1] ELSE "none"

Step(a) == IF After(admin[a].step) = "none"
           THEN Done(a) /\ deleted' = TRUE
           ELSE Go(a, After(admin[a].step)) /\ UNCHANGED deleted

CheckThere(a) ==
  /\ admin[a] = Quiet /\ registered
  /\ "overlap" \in Kinds \/ \A p \in Publishes : publish[p].pc # "picked"
  /\ Go(a, DeleteSteps[1])
  /\ UNCHANGED <<spaceVars, rows, registered, override, wal, files, publish, declares, deleted>>

(* Without a namespace there is no row to delete, and the request goes on; *)
FindNamespace(a) ==
  /\ admin[a].step = "find"
  /\ admin' = [admin EXCEPT ![a].ns = space,
                            ![a].step = IF space = None THEN After("drop") ELSE After("find")]
  /\ UNCHANGED <<spaceVars, rows, registered, override, wal, files, publish, declares, deleted>>

(* with one, DeleteQueue of the store must find the row, or else the       *)
(* request is over.                                                        *)
DropRow(a) ==
  /\ admin[a].step = "drop"
  /\ rows' = {r \in rows : r.ns # admin[a].ns}
  /\ IF rows' = rows THEN Done(a) /\ UNCHANGED deleted ELSE Step(a)
  /\ UNCHANGED <<spaceVars, registered, override, wal, files, publish, declares>>

UnregisterQueue(a) ==
  /\ admin[a].step = "unregister"
  /\ registered' = FALSE /\ Step(a)
  /\ UNCHANGED <<spaceVars, rows, override, wal, files, publish, declares>>

(* DestroyQueue: the writer is taken out of the map, if it is there; ...   *)
TakeWAL(a) ==
  /\ admin[a].step = "take"
  /\ IF wal.open THEN wal' = Closed /\ Step(a)
     ELSE Done(a) /\ deleted' = TRUE /\ UNCHANGED wal
  /\ UNCHANGED <<spaceVars, rows, registered, override, files, publish, declares>>

(* ... and without the lock it is stopped, and the directory removed, also *)
(* from under a writer that has been opened since.                         *)
RemoveAll(a) ==
  /\ admin[a].step = "remove"
  /\ files' = None /\ Step(a)
  /\ wal' = [wal EXCEPT !.linked = FALSE]
  /\ UNCHANGED <<spaceVars, rows, registered, override, publish, declares>>

-----------------------------------------------------------------------------
(* POST and DELETE /namespaces: one statement each. The queues of a        *)
(* namespace lose their rows if foreign keys are enforced, and the         *)
(* scheduler and the log hear nothing of it.                               *)
CreateNamespace ==
  /\ "namespace" \in Kinds /\ space = None /\ spaceSeq < MaxSpaces
  /\ space' = spaceSeq + 1 /\ spaceSeq' = spaceSeq + 1
  /\ UNCHANGED <<enforced, rows, registered, override, wal, files, admin, publish,
                 declares, deleted>>

DeleteNamespace ==
  /\ "namespace" \in Kinds /\ space # None
  /\ rows' = IF enforced THEN rows \ Row ELSE rows
  /\ space' = None
  /\ UNCHANGED <<spaceSeq, enforced, registered, override, wal, files, admin, publish,
                 declares, deleted>>

-----------------------------------------------------------------------------
(* onPublish finds the queue, ...                                          *)
GetQueue(p) ==
  /\ publish[p].pc = "new" /\ registered
  /\ "overlap" \in Kinds \/ Settled
  /\ publish' = [publish EXCEPT ![p] = [pc |-> "picked", for |-> declares]]
  /\ UNCHANGED <<spaceVars, rows, registered, override, wal, files, admin, declares, deleted>>

(* The log that AppendSync writes to: opened, with its files, if need be.  *)
Opened ==
  IF wal.open THEN wal
  ELSE [open |-> TRUE, linked |-> TRUE,
        durable |-> IF override = None THEN Default ELSE override]

(* ... writes it to the log, and acknowledges it.                          *)
AppendSync(p) ==
  /\ publish[p].pc = "picked"
  /\ wal' = Opened
  /\ files' = IF ~Opened.linked THEN files
              ELSE IF files = None THEN {p} ELSE files \cup {p}
  /\ publish' = [publish EXCEPT ![p].pc = "acked"]
  /\ UNCHANGED <<spaceVars, rows, registered, override, admin, declares, deleted>>

\* Mutant of Restored: queues come back from their logs only.
RestoredFromLogs == files # None

(* restoreFromDB registers the rows, replayWAL the directories.            *)
Restored == Row # {} \/ files # None

(* The process ends at any point, and starts again.                        *)
Restart ==
  /\ "restart" \in Kinds
  /\ registered' = Restored
  /\ override' = None /\ wal' = Closed
  /\ admin' = [a \in Admins |-> Quiet]
  /\ publish' = [p \in Publishes |->
                   IF publish[p].pc = "picked" THEN [publish[p] EXCEPT !.pc = "failed"]
                   ELSE publish[p]]
  /\ UNCHANGED <<spaceVars, rows, files, declares, deleted>>

Init ==
  /\ space = 1 /\ spaceSeq = 1 /\ enforced \in BOOLEAN
  /\ rows = {} /\ registered = FALSE /\ override = None
  /\ wal = Closed /\ files = None
  /\ admin = [a \in Admins |-> Quiet]
  /\ publish = [p \in Publishes |-> [pc |-> "new", for |-> 0]]
  /\ declares = 0 /\ deleted = FALSE

Next ==
  \/ \E a \in Admins :
       \/ \E d \in BOOLEAN : CheckFree(a, d)
       \/ GetNamespace(a) \/ CreateQueue(a) \/ RegisterQueue(a) \/ SetQueueDurable(a)
       \/ CheckThere(a) \/ FindNamespace(a) \/ DropRow(a)
       \/ UnregisterQueue(a) \/ TakeWAL(a) \/ RemoveAll(a)
  \/ CreateNamespace \/ DeleteNamespace
  \/ \E p \in Publishes : GetQueue(p) \/ AppendSync(p)
  \/ Restart

Spec == Init /\ [][Next]_vars

-----------------------------------------------------------------------------
(* Types; a writer that believes to write to the directory does so.        *)
TypeOK ==
  /\ space \in 1..spaceSeq \cup {None} /\ rows \subseteq [ns : 1..spaceSeq, durable : BOOLEAN]
  /\ override \in BOOLEAN \cup {None} /\ registered \in BOOLEAN
  /\ files = None \/ files \subseteq Publishes
  /\ wal.open /\ wal.linked => files # None
  /\ ~wal.open => wal = Closed
  /\ declares \in 0..MaxDeclares

(* Between requests every queue that has a row is served, wherever an      *)
(* earlier process stopped in the middle of a request.                     *)
DeclaredIsServed == Settled /\ Row # {} => registered

(* An acknowledged publish stays in the log for as long as the queue that  *)
(* it was made to has not been deleted: "if the broker sent ACK to the     *)
(* publisher, the message must survive a crash".                           *)
AckedKept ==
  \A p \in Publishes :
    publish[p].pc = "acked" /\ Row # {} /\ publish[p].for = declares
      => files # None /\ p \in files

(* "Each queue can override the global durable setting declared at queue   *)
(* creation": an open log works by what was declared.                      *)
DurableAsDeclared ==
  Settled /\ wal.open => \A r \in Row : wal.durable = r.durable

(* A queue whose deletion was answered stays away until it is declared     *)
(* again: DestroyQueue "removes all .log/.idx/.snap files".                *)
DeletedStaysDeleted == Settled /\ deleted => ~registered

(* "Permanently deletes a namespace and all queues within it".             *)
QueuesGoWithNamespace == space = None => ~registered

(* A queue that is served can be deleted: DELETE finds its row.            *)
ServedIsDeclared == Settled /\ registered /\ space # None => Row # {}
=============================================================================
