------------------------------ MODULE EventStore ------------------------------
(***************************************************************************)
(* The store of risk events: DatabaseManager::InsertEvent and the queries, *)
(* DatabaseHelper, Database, and the one SQLite connection of the process  *)
(* (SqliteHelper, SgSqliteHelper).  Inserts are serialized by delMutex_;   *)
(* each SQL statement takes the connection's lock on its own, so that a    *)
(* query may read between any two statements of a batch, and sees what the *)
(* batch has written and not committed.                                    *)
(*                                                                         *)
(* disk is the image SQLite would show after a restart, view the one the   *)
(* connection shows now; they differ only inside a transaction.            *)
(***************************************************************************)
EXTENDS Integers, FiniteSets, Sequences

CONSTANTS Events,       \* event ids
          Kind,         \* Kind[e]: "unknown" (no configuration), "foreign" (another source),
                        \*   "listen" (no table), "stored", or a collector queried on demand
          Rom,          \* Rom[e]: storageRomNums of the configuration
          Faults,       \* what may fail: "open", "begin", "create", "count", "read", "delete", "insert", "commit"
          Plans         \* bounds of a behaviour: user_version found in the file (0 for a new one, 1
                        \*   DB_VERSION, 3 of another module), the events reported with their dates,
                        \*   events of a batch, rows ever inserted, statements that fail, starts

ASSUME StoreAssumption ==
    /\ Rom \in [Events -> Nat]
    /\ \A p \in Plans : /\ p.version \in {0, 1, 3} /\ p.feed \subseteq [e : Events, d : Nat \ {0}]
                        /\ {p.batch, p.rows, p.faults, p.starts} \subseteq Nat

VARIABLES plan,
          conn,     \* "none": no process, "failed": Open failed, "ready"
          disk, view, tx,
          batch,    \* the InsertEvent under delMutex_
          kept,     \* history: rows whose transaction was committed
          nextId, faults, starts

storeVars == <<plan, conn, disk, view, tx, batch, kept, nextId, faults, starts>>

Idle == [at |-> "idle", todo |-> <<>>, mine |-> {}, ret |-> "SUCCESS"]

RowsOf(im, e) == {r \in im.rows : r.e = e}
Ids(rows) == {r.id : r \in rows}
AtLeastOne(n) == IF n = 0 THEN 1 ELSE n

StoreInit == /\ plan \in Plans
             /\ conn = "none" /\ tx = FALSE /\ batch = Idle
             /\ disk = [made |-> plan.version = 1, ver |-> plan.version, rows |-> {}, late |-> {}, gone |-> {}]
             /\ view = disk
             /\ kept = {} /\ nextId = 1 /\ faults = 0 /\ starts = 0

(* A statement may fail for a reason of its own. *)
Fault(f) == f \in Faults /\ faults < plan.faults
Blame(failed) == faults' = IF failed THEN faults + 1 ELSE faults

(* IsExistStore: the connection was opened; no operation reopens it. *)
Ready == conn = "ready"

(* A statement that writes: at once on disk outside a transaction. *)
Write(im) == view' = im /\ disk' = IF tx THEN disk ELSE im

(* BEGIN, or ROLLBACK and BEGIN when the first one fails, as it does when a failed COMMIT  *)
(* has left the transaction open: the rows of that batch go, although it returned SUCCESS. *)
RollBack == IF tx THEN disk ELSE view
BeginTransaction == \/ tx' = TRUE /\ UNCHANGED faults
                    \/ Fault("begin") /\ tx' = FALSE /\ Blame(TRUE)
BeginTransactionEvent == view' = RollBack /\ BeginTransaction /\ UNCHANGED disk

(* Mutant: A batch of which one event failed is rolled back. *)
CommitTransaction_OnSuccess(ok, ret) == IF ok /\ ret = "SUCCESS" THEN view ELSE disk

(* COMMIT; its result is dropped, and so is that of a COMMIT outside a transaction. *)
CommitTransaction(ok, ret) == IF ok THEN view ELSE disk

(* The rows DeleteOldEventByEventId finds: the n oldest, ties in any order. *)
Oldest(rows, n) == {S \in SUBSET rows : /\ Cardinality(S) = n
                                        /\ \A r \in S, s \in rows \ S : r.d <= s.d}

(* Open: a file of another version is created, or only numbered, in a transaction; then the *)
(* table and the index are made again if missing.  A COMMIT that fails here leaves the      *)
(* transaction open, and the first batch rolls the table back.                              *)
OldVersion == disk.ver # 1
SetVersion(im) == [im EXCEPT !.ver = 1]
CreateTable(im, creates) == [im EXCEPT !.made = @ \/ creates]
OnCreate(im, creates) == IF im.ver = 0 THEN CreateTable(im, creates) ELSE im

OpenStore(begins, creates, commits) ==
    LET opened == IF OldVersion THEN SetVersion(OnCreate(disk, creates)) ELSE disk
        made   == CreateTable(opened, creates)
        open   == OldVersion /\ begins /\ ~commits
    IN /\ conn' = "ready" /\ view' = made /\ tx' = open
       /\ disk' = IF open THEN disk ELSE made

Start == /\ conn = "none" /\ starts < plan.starts
         /\ starts' = starts + 1
         /\ \/ Fault("open") /\ conn' = "failed" /\ Blame(TRUE) /\ UNCHANGED <<disk, view, tx>>
            \/ \E begins, creates, commits \in BOOLEAN :
                 /\ begins \/ Fault("begin")
                 /\ creates \/ Fault("create")
                 /\ commits \/ Fault("commit")
                 /\ Blame(~(begins /\ creates /\ commits))
                 /\ OpenStore(begins, creates, commits)
         /\ UNCHANGED <<plan, batch, kept, nextId>>

(* The process ends with a batch under way or not; the write-ahead log keeps what was committed. *)
CrashStore == /\ conn # "none"
              /\ conn' = "none" /\ view' = disk /\ tx' = FALSE /\ batch' = Idle
              /\ UNCHANGED <<plan, disk, kept, nextId, faults, starts>>

StoredIn(b) == {i \in DOMAIN b : Kind[b[i].e] = "stored"}

BeginBatch == /\ conn # "none" /\ batch.at = "idle"
              /\ \E n \in 1 .. plan.batch : \E b \in [1 .. n -> plan.feed] :
                   /\ nextId + Cardinality(StoredIn(b)) <= plan.rows + 1
                   /\ batch' = [Idle EXCEPT !.at = "next", !.todo = b]
              /\ IF Ready THEN BeginTransactionEvent ELSE UNCHANGED <<view, tx, disk, faults>>
              /\ UNCHANGED <<plan, conn, kept, nextId, starts>>

(* The listeners of the event are told first (DbChanged); only an event of this source and *)
(* of the risk table is then stored.                                                       *)
NextEvent == /\ batch.at = "next" /\ batch.todo # <<>>
             /\ LET k == Kind[Head(batch.todo).e]
                IN batch' = IF k = "stored" THEN [batch EXCEPT !.at = "count"]
                            ELSE [batch EXCEPT !.todo = Tail(@), !.ret = IF k = "unknown" THEN "NOT_FOUND" ELSE @]
             /\ UNCHANGED <<plan, conn, disk, view, tx, kept, nextId, faults, starts>>

(* Mutant: Room is made one row late. *)
Excess_OffByOne(e, count) == IF count > Rom[e] THEN count + 1 - Rom[e] ELSE 0

CountEventByEventId(e) == Cardinality(RowsOf(view, e))

(* CountEventByEventId (0 when it fails), then DeleteOldEventByEventId, whose query ends as *)
(* if complete at an error, whose result is not read.                                       *)
Excess(e, count) == IF count >= Rom[e] THEN count + 1 - Rom[e] ELSE 0
Removed(im, e, S, late) == [im EXCEPT !.rows = @ \ S, !.gone = @ \cup Ids(S), !.late = late]

Evict == /\ batch.at = "count"
         /\ batch' = [batch EXCEPT !.at = "insert"]
         /\ LET e == Head(batch.todo).e
                n == Excess(e, CountEventByEventId(e))
                rows == RowsOf(view, e)
            IN IF ~Ready \/ ~view.made THEN UNCHANGED <<disk, view, faults>>
               ELSE \/ \E S \in Oldest(rows, IF n > Cardinality(rows) THEN Cardinality(rows) ELSE n) :
                         Write(Removed(view, e, S, view.late \ {e})) /\ UNCHANGED faults
                    \/ \E m \in 1 .. n - 1 : \E S \in Oldest(rows, m) :
                         Fault("read") /\ Write(Removed(view, e, S, view.late \cup {e})) /\ Blame(TRUE)
                    \/ /\ \/ Fault("count")
                          \/ Fault("delete")
                       /\ n > 0 /\ Write(Removed(view, e, {}, view.late \cup {e})) /\ Blame(TRUE)
         /\ UNCHANGED <<plan, conn, tx, kept, nextId, starts>>

SetValuesBucket(ev) == [id |-> nextId, e |-> ev.e, d |-> ev.d]
Inserted(im, row) == [im EXCEPT !.rows = @ \cup {row}]

InsertEvent ==
    /\ batch.at = "insert"
    /\ LET done(b) == [b EXCEPT !.at = "next", !.todo = Tail(@)]
       IN \/ /\ Ready /\ view.made
             /\ Write(Inserted(view, SetValuesBucket(Head(batch.todo))))
             /\ nextId' = nextId + 1
             /\ batch' = [done(batch) EXCEPT !.mine = @ \cup {nextId}, !.ret = "SUCCESS"]
             /\ UNCHANGED faults
          \/ /\ \/ ~Ready
                \/ ~view.made
                \/ Fault("insert")
             /\ batch' = [done(batch) EXCEPT !.ret = "FAILED"]
             /\ Blame(Ready /\ view.made) /\ UNCHANGED <<disk, view, nextId>>
    /\ UNCHANGED <<plan, conn, tx, kept, starts>>

CommitEvent ==
    /\ batch.at = "next" /\ batch.todo = <<>>
    /\ batch' = Idle
    /\ \E ok \in BOOLEAN :
         /\ ok \/ (tx /\ Fault("commit"))
         /\ tx' = (tx /\ ~ok)
         /\ disk' = IF tx THEN CommitTransaction(ok, batch.ret) ELSE disk
         /\ kept' = IF ok THEN kept \cup batch.mine ELSE kept
         /\ Blame(~ok)
    /\ UNCHANGED <<plan, conn, view, nextId, starts>>

(* QueryEventByEventId and QueryEventByEventIdAndDate: a bound of 0 is an empty string. *)
WhereClause(r, ids, begin, end) == r.e \in ids /\ (begin = 0 \/ r.d >= begin) /\ (end = 0 \/ r.d < end)
Matching(ids, begin, end) == {r \in view.rows : WhereClause(r, ids, begin, end)}

(* The rows read until the statement reports anything but a row: an error, which ends the    *)
(* loop of Query with SUCCESS, is taken for the last one.  A store that is not open or has   *)
(* no table gives none, and the callers do not read the result.                              *)
ReadRows(rows) == IF Fault("read") THEN SUBSET rows ELSE {rows}
QueryEventBase(ids, begin, end) == IF Ready /\ view.made THEN ReadRows(Matching(ids, begin, end)) ELSE {{}}

-------------------------------------------------------------------------------
(* The number of rows of an event stays within storageRomNums (one when it is 0), on disk and *)
(* on the connection, through batches, rollbacks and crashes, as long as its last eviction     *)
(* found and deleted what it had to: a count or a deletion that failed is made good by the     *)
(* next one (DatabaseManager::InsertEvent).                                                    *)
WithinQuota == \A im \in {disk, view} : \A e \in Events \ im.late :
                  Cardinality(RowsOf(im, e)) <= AtLeastOne(Rom[e])

(* What a batch has committed, in whole or after some of its events failed, survives every     *)
(* crash and every rollback of a later batch until it is evicted (BeginTransactionEvent rolls  *)
(* back whatever transaction it finds).                                                        *)
Durable == kept \ disk.gone \subseteq Ids(disk.rows)

===============================================================================
