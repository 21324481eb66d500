------------------------------ MODULE StoreProofs ------------------------------
(***************************************************************************)
(* That the event store keeps what it committed and keeps to its quota,    *)
(* and that a query announced as complete has brought its caller all that  *)
(* its rulers gave, once: for any events, any quota, any batches, any      *)
(* queries and environments, any number of failing statements, crashes and *)
(* restarts (EventStore in the composition QueryPath).                     *)
(***************************************************************************)
EXTENDS QueryPath, FiniteSetTheorems, TLAPS

Reports == [e : Events, d : Nat]   \* the events of a batch
Rows   == [id : Nat, e : Events, d : Nat]
Images == [made : BOOLEAN, ver : Nat, rows : SUBSET Rows, late : SUBSET Events, gone : SUBSET Nat]
Batches == [at : {"idle", "next", "count", "insert"}, todo : Seq(Reports),
            mine : SUBSET Nat, ret : {"SUCCESS", "FAILED", "NOT_FOUND"}]

(* What the proof needs to know of the types; the images stay finite.      *)
StoreTyped ==
    /\ plan \in Plans
    /\ conn \in {"none", "failed", "ready"}
    /\ disk \in Images /\ IsFiniteSet(disk.rows)
    /\ view \in Images /\ IsFiniteSet(view.rows)
    /\ tx \in BOOLEAN
    /\ batch \in Batches
    /\ kept \in SUBSET Nat /\ nextId \in Nat

(* An event is taken up only while one is left, and nothing is under way   *)
(* in a process that is not there.                                         *)
BatchPlaces ==
    /\ batch.at \in {"count", "insert"} => batch.todo # <<>>
    /\ conn = "none" => batch.at = "idle"

(* Outside a transaction the connection shows what the disk holds.         *)
ImagesAgree ==
    /\ ~tx => disk = view
    /\ conn = "none" => ~tx

(* What was committed, and what the batch under way has written, is there  *)
(* or was evicted, in the image that a rollback or a crash falls back to   *)
(* and in the one that a COMMIT makes the other.                           *)
Kept(im, ids) == ids \ im.gone \subseteq Ids(im.rows)
NothingForgotten == Kept(disk, kept) /\ Kept(view, kept) /\ Kept(view, batch.mine)

(* Between the eviction and the insertion the connection has room for one  *)
(* row more of the event, unless the eviction failed.                      *)
Quota(im) == \A e \in Events \ im.late : Cardinality(RowsOf(im, e)) <= AtLeastOne(Rom[e])
RoomMade ==
    batch.at = "insert" /\ Ready /\ view.made =>
        LET e == Head(batch.todo).e
        IN e \notin view.late => Cardinality(RowsOf(view, e)) + 1 <= AtLeastOne(Rom[e])

Inv == StoreTyped /\ BatchPlaces /\ ImagesAgree /\ NothingForgotten /\ Quota(disk) /\ Quota(view) /\ RoomMade

--------------------------------------------------------------------------------
(* The operators on images                                                 *)

(* What the statements do to an image: an eviction takes the rows it names *)
(* and says so, an insertion adds one, opening changes neither.            *)
LEMMA RemovedImage ==
    ASSUME NEW im \in Images, IsFiniteSet(im.rows), NEW e, NEW S \in SUBSET im.rows,
           NEW late \in SUBSET Events
    PROVE  /\ Removed(im, e, S, late) \in Images
           /\ IsFiniteSet(Removed(im, e, S, late).rows)
           /\ Removed(im, e, S, late).rows = im.rows \ S
           /\ Removed(im, e, S, late).late = late
<1>1. im.rows \ S \in SUBSET Rows /\ im.gone \cup Ids(S) \in SUBSET Nat
  BY DEF Images, Ids, Rows
<1>2. IsFiniteSet(im.rows \ S)
  BY FS_Difference
<1> QED
  BY <1>1, <1>2 DEF Removed, Images

LEMMA InsertedImage ==
    ASSUME NEW im \in Images, IsFiniteSet(im.rows), NEW row \in Rows
    PROVE  /\ Inserted(im, row) \in Images
           /\ IsFiniteSet(Inserted(im, row).rows)
           /\ Inserted(im, row).rows = im.rows \cup {row}
           /\ Inserted(im, row).late = im.late
           /\ Inserted(im, row).gone = im.gone
<1>1. IsFiniteSet(im.rows \cup {row})
  BY FS_AddElement
<1> QED
  BY <1>1 DEF Inserted, Images

(* An eviction forgets nothing, and an insertion neither.                  *)
LEMMA RemovedKept ==
    ASSUME NEW im \in Images, IsFiniteSet(im.rows), NEW e, NEW S \in SUBSET im.rows,
           NEW late \in SUBSET Events, NEW ids, Kept(im, ids)
    PROVE  Kept(Removed(im, e, S, late), ids)
<1> SUFFICES ASSUME NEW i \in ids, i \notin im.gone, i \notin Ids(S)
             PROVE  i \in Ids(im.rows \ S)
  <2>1. /\ Removed(im, e, S, late).rows = im.rows \ S
        /\ Removed(im, e, S, late).gone = im.gone \cup Ids(S)
    BY DEF Removed, Images
  <2> QED
    BY <2>1 DEF Kept
<1> PICK r \in im.rows : r.id = i
  BY DEF Kept, Ids
<1> QED
  BY DEF Ids

LEMMA InsertedKept ==
    ASSUME NEW im \in Images, IsFiniteSet(im.rows), NEW row \in Rows, NEW ids, Kept(im, ids)
    PROVE  Kept(Inserted(im, row), ids) /\ Kept(Inserted(im, row), ids \cup {row.id})
  BY InsertedImage DEF Kept, Ids

(* The rows of another event are not touched by either.                    *)
LEMMA OtherRows ==
    ASSUME NEW im \in Images, IsFiniteSet(im.rows), NEW e, NEW f, e # f
    PROVE  /\ \A S \in SUBSET RowsOf(im, e), late \in SUBSET Events :
                RowsOf(Removed(im, e, S, late), f) = RowsOf(im, f)
           /\ \A row \in Rows : row.e = e => RowsOf(Inserted(im, row), f) = RowsOf(im, f)
<1>1. ASSUME NEW S \in SUBSET RowsOf(im, e), NEW late \in SUBSET Events
      PROVE  RowsOf(Removed(im, e, S, late), f) = RowsOf(im, f)
  <2>1. S \in SUBSET im.rows
    BY DEF RowsOf
  <2>2. Removed(im, e, S, late).rows = im.rows \ S
    BY <2>1, RemovedImage
  <2> QED
    BY <2>2 DEF RowsOf
<1>2. ASSUME NEW row \in Rows, row.e = e
      PROVE  RowsOf(Inserted(im, row), f) = RowsOf(im, f)
  BY <1>2, InsertedImage DEF RowsOf
<1> QED
  BY <1>1, <1>2

LEMMA RowsFinite ==
    ASSUME NEW im, IsFiniteSet(im.rows), NEW e
    PROVE  IsFiniteSet(RowsOf(im, e)) /\ Cardinality(RowsOf(im, e)) \in Nat
<1>1. RowsOf(im, e) \in SUBSET im.rows
  BY DEF RowsOf
<1> QED
  BY <1>1, FS_Subset, FS_CardinalityType

(* An eviction that removes the excess leaves room for one row: the quota  *)
(* of an event with storageRomNums 0 is one row, and there all of them go. *)
LEMMA RoomAfterEviction ==
    ASSUME NEW im \in Images, IsFiniteSet(im.rows), NEW e \in Events,
           NEW late \in SUBSET Events, NEW n, n = Excess(e, Cardinality(RowsOf(im, e))),
           NEW S \in Oldest(RowsOf(im, e), IF n > Cardinality(RowsOf(im, e))
                                           THEN Cardinality(RowsOf(im, e)) ELSE n)
    PROVE  /\ S \in SUBSET RowsOf(im, e)
           /\ Cardinality(RowsOf(Removed(im, e, S, late), e)) + 1 <= AtLeastOne(Rom[e])
<1> DEFINE rows == RowsOf(im, e)
           count == Cardinality(rows)
<1>1. IsFiniteSet(rows) /\ count \in Nat
  BY RowsFinite
<1>2. S \in SUBSET rows /\ Cardinality(S) = IF n > count THEN count ELSE n
  BY DEF Oldest
<1>3. S \in SUBSET im.rows
  BY <1>2 DEF RowsOf
<1>4. Removed(im, e, S, late).rows = im.rows \ S
  BY <1>3, RemovedImage
<1>4a. RowsOf(Removed(im, e, S, late), e) = rows \ S
  BY <1>2, <1>4 DEF RowsOf
<1>5. rows \cap S = S
  BY <1>2
<1>6. Cardinality(rows \ S) = count - Cardinality(S)
  BY <1>1, <1>5, FS_Difference
<1>7. Rom[e] \in Nat
  BY StoreAssumption
<1>8. n = IF count >= Rom[e] THEN count + 1 - Rom[e] ELSE 0
  BY DEF Excess
<1>9. count - Cardinality(S) + 1 <= AtLeastOne(Rom[e])
  <2> HIDE DEF count
  <2> QED
    BY <1>1, <1>2, <1>7, <1>8 DEF AtLeastOne
<1> QED
  BY <1>2, <1>4a, <1>6, <1>9

(* A statement writes both images or, in a transaction, the one that shows. *)
LEMMA WriteImages ==
    ASSUME ImagesAgree, NEW im, Write(im), UNCHANGED <<conn, tx>>
    PROVE  ImagesAgree' /\ view' = im /\ disk' \in {disk, im}
  BY DEF ImagesAgree, Write

--------------------------------------------------------------------------------
(* The steps                                                               *)

(* A new process has an empty store or the one the file holds.             *)
LEMMA InitInv == QueryInit => Inv
<1> SUFFICES ASSUME StoreInit PROVE Inv
  BY DEF QueryInit
<1>1. plan \in Plans /\ plan.version \in {0, 1, 3}
  BY StoreAssumption DEF StoreInit
<1>2. disk \in Images /\ disk.rows = {} /\ view = disk /\ kept = {} /\ batch = Idle
  BY <1>1 DEF StoreInit, Images
<1>3. IsFiniteSet(disk.rows)
  BY <1>2, FS_EmptySet
<1>4. <<>> \in Seq(Reports)
  OBVIOUS
<1>5. StoreTyped
  <2>1. batch \in Batches
    BY <1>2, <1>4 DEF Batches, Idle
  <2> QED
    BY <1>1, <1>2, <1>3, <2>1 DEF StoreInit, StoreTyped
<1>6. BatchPlaces /\ ImagesAgree /\ RoomMade /\ NothingForgotten
  BY <1>2 DEF StoreInit, BatchPlaces, ImagesAgree, RoomMade, NothingForgotten, Kept, Idle
<1>7. \A e \in Events : RowsOf(disk, e) = {} /\ Cardinality(RowsOf(disk, e)) = 0
  BY <1>2, FS_EmptySet DEF RowsOf
<1>8. Quota(disk) /\ Quota(view)
  BY <1>2, <1>7, StoreAssumption DEF Quota, AtLeastOne
<1> QED
  BY <1>5, <1>6, <1>8 DEF Inv

(* A step that leaves the images, the batch and the process alone.         *)
LEMMA SameStore ==
    ASSUME Inv, UNCHANGED <<plan, conn, disk, view, tx, batch, kept, nextId>>
    PROVE  Inv'
  BY DEF Inv, StoreTyped, BatchPlaces, ImagesAgree, NothingForgotten, Kept, Quota, RoomMade, Ready, RowsOf, Ids

(* Open: the images that are opened have the rows that the file had.       *)
LEMMA StartInv == ASSUME Inv, Start PROVE Inv'
<1> USE DEF Inv
<1>1. conn = "none" /\ disk = view /\ ~tx /\ batch.at = "idle" /\ disk \in Images
  BY DEF Start, ImagesAgree, BatchPlaces, StoreTyped
<1>2. /\ conn' \in {"failed", "ready"} /\ tx' \in BOOLEAN
      /\ disk' \in Images /\ view' \in Images /\ (~tx' => disk' = view')
      /\ disk'.rows = disk.rows /\ disk'.gone = disk.gone /\ disk'.late = disk.late
      /\ view'.rows = disk.rows /\ view'.gone = disk.gone /\ view'.late = disk.late
      /\ UNCHANGED <<plan, batch, kept, nextId>>
  <2>1. CASE conn' = "failed" /\ UNCHANGED <<disk, view, tx>>
    BY <2>1, <1>1 DEF Start, StoreTyped
  <2>2. ASSUME NEW begins \in BOOLEAN, NEW creates \in BOOLEAN, NEW commits \in BOOLEAN,
               OpenStore(begins, creates, commits)
        PROVE  /\ conn' = "ready" /\ tx' \in BOOLEAN
               /\ disk' \in Images /\ view' \in Images /\ (~tx' => disk' = view')
               /\ disk'.rows = disk.rows /\ disk'.gone = disk.gone /\ disk'.late = disk.late
               /\ view'.rows = disk.rows /\ view'.gone = disk.gone /\ view'.late = disk.late
    <3>1. ASSUME NEW im \in Images
          PROVE  /\ CreateTable(im, creates) \in Images /\ SetVersion(im) \in Images
                 /\ OnCreate(im, creates) \in Images
                 /\ CreateTable(im, creates).rows = im.rows /\ SetVersion(im).rows = im.rows
                 /\ CreateTable(im, creates).gone = im.gone /\ SetVersion(im).gone = im.gone
                 /\ CreateTable(im, creates).late = im.late /\ SetVersion(im).late = im.late
                 /\ OnCreate(im, creates).rows = im.rows /\ OnCreate(im, creates).gone = im.gone
                 /\ OnCreate(im, creates).late = im.late
      BY DEF CreateTable, SetVersion, OnCreate, Images
    <3> DEFINE opened == IF OldVersion THEN SetVersion(OnCreate(disk, creates)) ELSE disk
    <3>2. opened \in Images /\ opened.rows = disk.rows /\ opened.gone = disk.gone /\ opened.late = disk.late
      BY <3>1, <1>1
    <3>3. /\ conn' = "ready" /\ view' = CreateTable(opened, creates)
          /\ tx' = (OldVersion /\ begins /\ ~commits)
          /\ disk' = IF tx' THEN disk ELSE view'
      BY <2>2 DEF OpenStore
    <3>4. tx' \in BOOLEAN
      BY <3>3
    <3> QED
      BY <3>1, <3>2, <3>3, <3>4, <1>1
  <2> QED
    BY <2>1, <2>2 DEF Start
<1>3. StoreTyped' /\ BatchPlaces' /\ ImagesAgree'
  BY <1>1, <1>2 DEF StoreTyped, BatchPlaces, ImagesAgree
<1>4. NothingForgotten'
  BY <1>1, <1>2 DEF NothingForgotten, Kept
<1>5. Quota(disk)' /\ Quota(view)'
  BY <1>1, <1>2 DEF Quota, RowsOf
<1>6. RoomMade'
  BY <1>1, <1>2 DEF RoomMade
<1> QED
  BY <1>3, <1>4, <1>5, <1>6

(* A batch begins with the rows the disk has, if a transaction was left    *)
(* open before it, and with those that show if not.                        *)
LEMMA BeginBatchInv == ASSUME Inv, BeginBatch PROVE Inv'
<1> USE DEF Inv
<1>1. /\ batch.at = "idle" /\ conn # "none"
      /\ UNCHANGED <<plan, conn, kept, nextId, disk>>
      /\ view' \in {disk, view} /\ tx' \in BOOLEAN /\ (~tx' => view' = disk)
  BY DEF BeginBatch, BeginTransactionEvent, BeginTransaction, RollBack, ImagesAgree, StoreTyped
<1>2. PICK n \in 1 .. plan.batch : \E b \in [1 .. n -> plan.feed] :
            batch' = [Idle EXCEPT !.at = "next", !.todo = b]
  BY DEF BeginBatch
<1>3. PICK b \in [1 .. n -> plan.feed] : batch' = [Idle EXCEPT !.at = "next", !.todo = b]
  BY <1>2
<1>4. plan \in Plans /\ plan.batch \in Nat /\ plan.feed \subseteq [e : Events, d : Nat \ {0}]
  BY StoreAssumption DEF StoreTyped
<1>5. n \in Nat
  BY <1>4
<1>6. b \in Seq(Reports)
  <2>1. \A i \in 1 .. n : b[i] \in Reports
    <3> SUFFICES ASSUME NEW i \in 1 .. n PROVE b[i] \in Reports
      OBVIOUS
    <3>1. b[i] \in [e : Events, d : Nat \ {0}]
      BY <1>4
    <3> QED
      BY <3>1 DEF Reports
  <2>2. b \in [1 .. n -> Reports]
    BY <2>1
  <2> QED
    BY <1>5, <2>2
<1>7. batch' = [at |-> "next", todo |-> b, mine |-> {}, ret |-> "SUCCESS"] /\ batch' \in Batches
  BY <1>3, <1>6 DEF Idle, Batches
<1>8. StoreTyped' /\ BatchPlaces' /\ ImagesAgree' /\ RoomMade'
  BY <1>1, <1>7 DEF StoreTyped, BatchPlaces, ImagesAgree, RoomMade
<1>9. NothingForgotten'
  BY <1>1, <1>7 DEF NothingForgotten, Kept
<1>10. Quota(disk)' /\ Quota(view)'
  BY <1>1 DEF Quota, RowsOf
<1> QED
  BY <1>8, <1>9, <1>10

(* Taking up an event touches nothing but the batch.                       *)
LEMMA NextEventInv == ASSUME Inv, NextEvent PROVE Inv'
<1> USE DEF Inv
<1>1. /\ batch.at = "next" /\ batch.todo # <<>> /\ batch \in Batches
      /\ UNCHANGED <<plan, conn, disk, view, tx, kept, nextId>>
  BY DEF NextEvent, StoreTyped
<1>2. /\ batch'.at \in {"next", "count"} /\ batch'.todo \in {batch.todo, Tail(batch.todo)}
      /\ batch'.at = "count" => batch'.todo = batch.todo
      /\ batch'.mine = batch.mine /\ batch' \in Batches
  <2>1. Tail(batch.todo) \in Seq(Reports)
    BY <1>1 DEF Batches
  <2> QED
    BY <1>1, <2>1 DEF NextEvent, Batches
<1>3. StoreTyped' /\ BatchPlaces' /\ ImagesAgree' /\ RoomMade'
  BY <1>1, <1>2 DEF StoreTyped, BatchPlaces, ImagesAgree, RoomMade
<1>4. NothingForgotten'
  BY <1>1, <1>2 DEF NothingForgotten, Kept
<1>5. Quota(disk)' /\ Quota(view)'
  BY <1>1 DEF Quota, RowsOf
<1> QED
  BY <1>3, <1>4, <1>5

(* The event that is taken up.                                             *)
LEMMA HeadEvent ==
    ASSUME Inv, batch.at \in {"count", "insert"}
    PROVE  Head(batch.todo) \in Reports /\ Tail(batch.todo) \in Seq(Reports)
<1>1. batch.todo \in Seq(Reports) /\ batch.todo # <<>>
  BY DEF Inv, StoreTyped, BatchPlaces, Batches
<1> QED
  BY <1>1

(* The eviction: it leaves room for the row, or remembers that it did not. *)
LEMMA EvictInv == ASSUME Inv, Evict PROVE Inv'
<1> USE DEF Inv
<1> DEFINE e == Head(batch.todo).e
           n == Excess(e, CountEventByEventId(e))
           rows == RowsOf(view, e)
           evicted(S) == Removed(view, e, S, view.late \ {e})
           failing(S) == Removed(view, e, S, view.late \cup {e})
<1>1. /\ batch.at = "count" /\ batch' = [batch EXCEPT !.at = "insert"]
      /\ UNCHANGED <<plan, conn, tx, kept, nextId>>
      /\ batch \in Batches /\ view \in Images /\ IsFiniteSet(view.rows)
      /\ disk \in Images /\ IsFiniteSet(disk.rows)
  BY DEF Evict, StoreTyped
<1>2. e \in Events
  BY <1>1, HeadEvent DEF Reports
<1>3. /\ batch' \in Batches /\ batch'.at = "insert" /\ batch'.todo = batch.todo
      /\ batch'.mine = batch.mine
  BY <1>1 DEF Batches
<1>4. BatchPlaces'
  BY <1>1, <1>3 DEF BatchPlaces
<1>5. \/ UNCHANGED <<disk, view>> /\ ~(Ready /\ view.made)
      \/ \E S \in Oldest(rows, IF n > Cardinality(rows) THEN Cardinality(rows) ELSE n) :
            Write(evicted(S))
      \/ \E S \in SUBSET rows : Write(failing(S))
  BY DEF Evict, Oldest
<1>6. CASE UNCHANGED <<disk, view>> /\ ~(Ready /\ view.made)
  <2>1. StoreTyped' /\ ImagesAgree' /\ RoomMade'
    BY <1>1, <1>3, <1>6 DEF StoreTyped, ImagesAgree, RoomMade, Ready
  <2>2. NothingForgotten'
    BY <1>1, <1>3, <1>6 DEF NothingForgotten, Kept
  <2>3. Quota(disk)' /\ Quota(view)'
    BY <1>6 DEF Quota, RowsOf
  <2> QED
    BY <1>4, <2>1, <2>2, <2>3
<1>7. ASSUME NEW im, Write(im),
             \/ \E S \in Oldest(rows, IF n > Cardinality(rows) THEN Cardinality(rows) ELSE n) :
                   im = evicted(S)
             \/ \E S \in SUBSET rows : im = failing(S)
      PROVE  Inv'
  <2>1. PICK S, late :
          /\ S \in SUBSET rows /\ late \in SUBSET Events /\ im = Removed(view, e, S, late)
          /\ late \in {view.late \ {e}, view.late \cup {e}}
          /\ e \notin late => Cardinality(RowsOf(im, e)) + 1 <= AtLeastOne(Rom[e])
    <3>1. view.late \ {e} \in SUBSET Events /\ view.late \cup {e} \in SUBSET Events
      BY <1>1, <1>2 DEF Images
    <3>2. CASE \E S \in Oldest(rows, IF n > Cardinality(rows) THEN Cardinality(rows) ELSE n) :
                   im = evicted(S)
      <4>1. PICK S \in Oldest(rows, IF n > Cardinality(rows) THEN Cardinality(rows) ELSE n) :
                   im = evicted(S)
        BY <3>2
      <4>2. S \in SUBSET rows /\ Cardinality(RowsOf(evicted(S), e)) + 1 <= AtLeastOne(Rom[e])
        BY <1>1, <1>2, <3>1, <4>1, RoomAfterEviction DEF CountEventByEventId
      <4> QED
        BY <3>1, <4>1, <4>2
    <3>3. CASE \E S \in SUBSET rows : im = failing(S)
      BY <3>1, <3>3
    <3> QED
      BY <1>7, <3>2, <3>3
  <2>2. S \in SUBSET view.rows
    BY <2>1 DEF RowsOf
  <2>3. ImagesAgree' /\ view' = im /\ disk' \in {disk, im}
    BY <1>1, <1>7, WriteImages
  <2>4. im \in Images /\ IsFiniteSet(im.rows) /\ im.late = late
    <3>1. late \in SUBSET Events
      BY <2>1
    <3>2. view \in Images /\ IsFiniteSet(view.rows)
      BY <1>1
    <3>3. /\ Removed(view, e, S, late) \in Images /\ IsFiniteSet(Removed(view, e, S, late).rows)
          /\ Removed(view, e, S, late).late = late
      <4> HIDE DEF e, Inv
      <4> QED
        BY <2>2, <3>1, <3>2, RemovedImage
    <3> QED
      BY <2>1, <3>3
  <2>5. StoreTyped'
    BY <1>1, <1>3, <2>3, <2>4 DEF StoreTyped
  <2>6. Kept(im, kept) /\ Kept(im, batch.mine)
    BY <1>1, <2>1, <2>2, RemovedKept DEF NothingForgotten
  <2>7. NothingForgotten'
    BY <1>1, <1>3, <2>3, <2>6 DEF NothingForgotten, Kept, Ids
  <2>8. Quota(im)
    <3> SUFFICES ASSUME NEW f \in Events, f \notin late
                 PROVE  Cardinality(RowsOf(im, f)) <= AtLeastOne(Rom[f])
      BY <2>4 DEF Quota
    <3>1. CASE f = e
      <4>1. Cardinality(RowsOf(im, e)) \in Nat
        BY <2>4, RowsFinite
      <4>2. AtLeastOne(Rom[e]) \in Nat
        BY <1>2, StoreAssumption DEF AtLeastOne
      <4> QED
        BY <3>1, <2>1, <4>1, <4>2
    <3>2. CASE f # e
      <4>1. RowsOf(im, f) = RowsOf(view, f)
        BY <1>1, <2>1, <3>2, OtherRows
      <4>2. f \notin view.late
        BY <2>1, <3>2
      <4> QED
        BY <4>1, <4>2 DEF Quota
    <3> QED
      BY <3>1, <3>2
  <2>9. Quota(disk)' /\ Quota(view)'
    BY <2>3, <2>8 DEF Quota, RowsOf
  <2>10. RoomMade'
    BY <1>3, <2>1, <2>3, <2>4 DEF RoomMade, RowsOf
  <2> QED
    BY <1>4, <2>3, <2>5, <2>7, <2>9, <2>10
<1> QED
  BY <1>5, <1>6, <1>7

(* The insertion takes the room that was made.                             *)
LEMMA InsertEventInv == ASSUME Inv, InsertEvent PROVE Inv'
<1> USE DEF Inv
<1> DEFINE ev == Head(batch.todo)
           row == SetValuesBucket(ev)
<1>1. /\ batch.at = "insert" /\ UNCHANGED <<plan, conn, tx, kept>>
      /\ batch \in Batches /\ view \in Images /\ IsFiniteSet(view.rows)
      /\ disk \in Images /\ IsFiniteSet(disk.rows) /\ nextId \in Nat
  BY DEF InsertEvent, StoreTyped
<1>2. ev \in Reports /\ Tail(batch.todo) \in Seq(Reports)
  BY <1>1, HeadEvent
<1>3. row \in Rows /\ row.id = nextId /\ row.e = ev.e
  BY <1>1, <1>2 DEF Rows, SetValuesBucket, Reports
<1>4. CASE UNCHANGED <<disk, view, nextId>> /\ batch' = [batch EXCEPT !.at = "next", !.todo = Tail(@), !.ret = "FAILED"]
  <2>1. batch' \in Batches /\ batch'.at = "next" /\ batch'.mine = batch.mine
    BY <1>1, <1>2, <1>4 DEF Batches
  <2>2. StoreTyped' /\ BatchPlaces' /\ ImagesAgree' /\ RoomMade'
    BY <1>1, <1>4, <2>1 DEF StoreTyped, BatchPlaces, ImagesAgree, RoomMade
  <2>3. NothingForgotten'
    BY <1>1, <1>4, <2>1 DEF NothingForgotten, Kept
  <2>4. Quota(disk)' /\ Quota(view)'
    BY <1>4 DEF Quota, RowsOf
  <2> QED
    BY <2>2, <2>3, <2>4
<1>5. CASE /\ Ready /\ view.made /\ Write(Inserted(view, row)) /\ nextId' = nextId + 1
           /\ batch' = [batch EXCEPT !.at = "next", !.todo = Tail(@), !.mine = @ \cup {nextId}, !.ret = "SUCCESS"]
  <2> DEFINE im == Inserted(view, row)
  <2>1. /\ batch' \in Batches /\ batch'.at = "next" /\ batch'.mine = batch.mine \cup {nextId}
    BY <1>1, <1>2, <1>5 DEF Batches
  <2>2. ImagesAgree' /\ view' = im /\ disk' \in {disk, im}
    BY <1>1, <1>5, WriteImages
  <2>3. im \in Images /\ IsFiniteSet(im.rows) /\ im.late = view.late /\ im.rows = view.rows \cup {row}
    BY <1>1, <1>3, InsertedImage
  <2>4. StoreTyped' /\ BatchPlaces' /\ RoomMade'
    BY <1>1, <1>5, <2>1, <2>2, <2>3 DEF StoreTyped, BatchPlaces, RoomMade
  <2>5. Kept(im, kept) /\ Kept(im, batch.mine \cup {nextId})
    BY <1>1, <1>3, InsertedKept DEF NothingForgotten
  <2>6. NothingForgotten'
    BY <1>1, <2>1, <2>2, <2>5 DEF NothingForgotten, Kept, Ids
  <2>7. Quota(im)
    <3> SUFFICES ASSUME NEW f \in Events, f \notin view.late
                 PROVE  Cardinality(RowsOf(im, f)) <= AtLeastOne(Rom[f])
      BY <2>3 DEF Quota
    <3>1. CASE f = ev.e
      <4>1. RowsOf(im, f) = RowsOf(view, f) \cup {row}
        BY <1>3, <2>3, <3>1 DEF RowsOf
      <4>2. IsFiniteSet(RowsOf(view, f)) /\ Cardinality(RowsOf(view, f)) \in Nat
        BY <1>1, RowsFinite
      <4>3. Cardinality(RowsOf(im, f)) <= Cardinality(RowsOf(view, f)) + 1
        BY <4>1, <4>2, FS_AddElement
      <4>4. Cardinality(RowsOf(view, f)) + 1 <= AtLeastOne(Rom[f])
        BY <1>1, <1>5, <3>1 DEF RoomMade
      <4>5. AtLeastOne(Rom[f]) \in Nat /\ Cardinality(RowsOf(im, f)) \in Nat
        BY <2>3, RowsFinite, StoreAssumption DEF AtLeastOne
      <4> QED
        BY <4>2, <4>3, <4>4, <4>5
    <3>2. CASE f # ev.e
      <4>1. RowsOf(im, f) = RowsOf(view, f)
        BY <1>1, <1>3, <3>2, OtherRows
      <4> QED
        BY <4>1 DEF Quota
    <3> QED
      BY <3>1, <3>2
  <2>8. Quota(disk)' /\ Quota(view)'
    BY <2>2, <2>7 DEF Quota, RowsOf
  <2> QED
    BY <2>2, <2>4, <2>6, <2>8
<1> QED
  BY <1>4, <1>5 DEF InsertEvent

(* The commit: what the batch has written becomes what the disk holds.     *)
LEMMA CommitEventInv == ASSUME Inv, CommitEvent PROVE Inv'
<1> USE DEF Inv
<1>1. batch' = Idle /\ UNCHANGED <<plan, conn, view, nextId>>
  BY DEF CommitEvent
<1>2. PICK ok \in BOOLEAN : /\ ok \/ tx
                            /\ tx' = (tx /\ ~ok)
                            /\ disk' = IF tx THEN CommitTransaction(ok, batch.ret) ELSE disk
                            /\ kept' = IF ok THEN kept \cup batch.mine ELSE kept
  BY Zenon DEF CommitEvent
<1>3. <<>> \in Seq(Reports)
  OBVIOUS
<1>4. batch' \in Batches /\ batch'.at = "idle" /\ batch'.mine = {}
  BY <1>1, <1>3 DEF Idle, Batches
<1>5. tx \in BOOLEAN /\ kept \in SUBSET Nat /\ batch.mine \in SUBSET Nat
  BY DEF StoreTyped, Batches
<1>6. (ok => disk' = view') /\ (~ok => disk' = disk /\ tx' /\ tx) /\ (ok => ~tx')
  BY <1>1, <1>2, <1>5 DEF ImagesAgree, CommitTransaction
<1>7. StoreTyped' /\ BatchPlaces' /\ ImagesAgree' /\ RoomMade'
  BY <1>1, <1>2, <1>4, <1>5, <1>6 DEF StoreTyped, BatchPlaces, ImagesAgree, RoomMade
<1>8. NothingForgotten'
  BY <1>1, <1>2, <1>4, <1>6 DEF NothingForgotten, Kept, Ids
<1>9. Quota(disk)' /\ Quota(view)'
  BY <1>1, <1>6 DEF Quota, RowsOf
<1> QED
  BY <1>7, <1>8, <1>9

(* The end of the process: the connection will show what the disk holds.   *)
LEMMA CrashStoreInv == ASSUME Inv, CrashStore PROVE Inv'
<1> USE DEF Inv
<1>1. conn' = "none" /\ view' = disk /\ tx' = FALSE /\ batch' = Idle /\ UNCHANGED <<plan, disk, kept, nextId>>
  BY DEF CrashStore
<1>2. <<>> \in Seq(Reports)
  OBVIOUS
<1>3. batch' \in Batches /\ batch'.at = "idle" /\ batch'.mine = {}
  BY <1>1, <1>2 DEF Idle, Batches
<1>4. StoreTyped' /\ BatchPlaces' /\ ImagesAgree' /\ RoomMade'
  BY <1>1, <1>3 DEF StoreTyped, BatchPlaces, ImagesAgree, RoomMade
<1>5. NothingForgotten'
  BY <1>1, <1>3 DEF NothingForgotten, Kept
<1>6. Quota(disk)' /\ Quota(view)'
  BY <1>1 DEF Quota, RowsOf
<1> QED
  BY <1>4, <1>5, <1>6

(* A query reads the store and writes nothing, whatever it asks and        *)
(* however it fails.                                                       *)
QueryStep ==
    \/ \E q \in Queries : KitQuerySecurityEvent(q) \/ KitQuerySecurityEventById(q) \/ RequestSecurityEventInfoAsync(q)
    \/ \E q \in Queries : Service(q) \/ CallAccepted(q) \/ CallFails(q) \/ TaskStep(q)
    \/ \E v \in Envs : RunOnQuery(v) \/ RunOnComplete(v) \/ RunOnError(v)

LEMMA QueriesOnlyRead ==
    ASSUME QueryStep
    PROVE  UNCHANGED <<plan, conn, disk, view, tx, batch, kept, nextId>>
<1>1. ASSUME NEW q \in Queries,
             KitQuerySecurityEvent(q) \/ KitQuerySecurityEventById(q) \/ RequestSecurityEventInfoAsync(q)
      PROVE  UNCHANGED <<plan, conn, disk, view, tx, batch, kept, nextId>>
  BY <1>1 DEF KitQuerySecurityEvent, KitQuerySecurityEventById, RequestSecurityEventInfoAsync,
              KitRequestSecurityEventInfo, AskService, storeVars
<1>2. ASSUME NEW q \in Queries, Service(q) \/ CallAccepted(q) \/ CallFails(q)
      PROVE  UNCHANGED <<plan, conn, disk, view, tx, batch, kept, nextId>>
  BY <1>2 DEF Service, QuerySecurityEvent, QuerySecurityEventById, RequestRiskData, Answer,
              CallAccepted, CallFails, storeVars
<1>3. ASSUME NEW q \in Queries, TaskStep(q)
      PROVE  UNCHANGED <<plan, conn, disk, view, tx, batch, kept, nextId>>
  <2>1. CASE HandleQuerySecurityEvent(q) \/ HandleQuerySecurityEventById(q)
    BY <2>1 DEF HandleQuerySecurityEvent, HandleQuerySecurityEventById, storeVars
  <2>2. CASE QuerySecurityGuardBatchAndCallback(q)
    BY <2>2 DEF QuerySecurityGuardBatchAndCallback, Take
  <2>3. CASE QuerySecurityCollectorBatchAndCallback(q)
    BY <2>3 DEF QuerySecurityCollectorBatchAndCallback, Take
  <2>4. CASE QueryEventByRuler(q)
    BY <2>4 DEF QueryEventByRuler
  <2>5. CASE PushDataCollectTask(q)
    BY <2>5 DEF PushDataCollectTask
  <2>6. CASE OnQuery(q) \/ OnComplete(q) \/ OnError(q) \/ ResponseRiskData(q)
    BY <2>6 DEF OnQuery, OnComplete, OnError, ResponseRiskData, SendRequest
  <2> QED
    BY <1>3, <2>1, <2>2, <2>3, <2>4, <2>5, <2>6 DEF TaskStep
<1>4. ASSUME NEW v \in Envs, RunOnQuery(v) \/ RunOnComplete(v) \/ RunOnError(v)
      PROVE  UNCHANGED <<plan, conn, disk, view, tx, batch, kept, nextId>>
  BY <1>4 DEF RunOnQuery, RunOnComplete, RunOnError, RunEnd, storeVars
<1> QED
  BY <1>1, <1>2, <1>3, <1>4 DEF QueryStep

(* Every step of the store, of a query and of the process keeps the        *)
(* inductive invariant.                                                    *)
LEMMA NextInv == Inv /\ [Next]_vars => Inv'
<1> SUFFICES ASSUME Inv, [Next]_vars PROVE Inv'
  OBVIOUS
<1>1. CASE Start \/ BeginBatch \/ NextEvent
  BY <1>1, StartInv, BeginBatchInv, NextEventInv
<1>2. CASE Evict \/ InsertEvent \/ CommitEvent
  BY <1>2, EvictInv, InsertEventInv, CommitEventInv
<1>3. CASE ServiceDies
  BY <1>3, CrashStoreInv DEF ServiceDies
<1>4. CASE QueryStep
  BY <1>4, QueriesOnlyRead, SameStore
<1>5. CASE UNCHANGED vars
  BY <1>5, SameStore DEF vars, storeVars
<1> QED
  BY <1>1, <1>2, <1>3, <1>4, <1>5 DEF Next, QueryStep

--------------------------------------------------------------------------------
(* The queries: what the variables are.                                    *)
Things == Events \X Nat
Ats == {"none", "queued", "guard", "collector", "rulers", "ended", "dead"}
Tasks == [at : Ats, failed : SUBSET Events, todo : SUBSET Events, out : Seq(Seq(Things))]
Messages == [q : Queries, what : {"data", "complete", "error"}, items : Seq(Things)]
QueryTyped ==
    /\ call \in [Queries -> {"idle", "asking", "refused", "waiting"}]
    /\ task \in [Queries -> Tasks]
    /\ jobs \in [Envs -> Seq(Messages)]
    /\ queriers \subseteq Queries /\ live \subseteq Envs
    /\ got \in [Queries -> Seq(Things)] /\ told \in [Queries -> {"no", "complete", "error"}]
    /\ found \in [Queries -> SUBSET Things] /\ silent \in [Queries -> SUBSET Events]
    /\ cut \in [Queries -> BOOLEAN] /\ lost \in [Queries -> BOOLEAN]
JobsPlaced == \A v \in Envs : \A k \in 1 .. Len(jobs[v]) : EnvOf[jobs[v][k].q] = v

(* What the rulers gave is somewhere, once: with the caller, in the jobs   *)
(* of its environment, or in the chunks the task has left.                 *)
Inj(s) == \A i, j \in 1 .. Len(s) : s[i] = s[j] => i = j
Of(s) == {s[i] : i \in 1 .. Len(s)}
All(ss) == UNION {Of(ss[k]) : k \in 1 .. Len(ss)}
Apart(ss) == /\ \A k \in 1 .. Len(ss) : Inj(ss[k])
             /\ \A k, l \in 1 .. Len(ss) : k # l => Of(ss[k]) \cap Of(ss[l]) = {}
Flow(g, m, o, f) ==
    /\ Inj(g) /\ Apart(m) /\ Apart(o)
    /\ Of(g) \cap All(m) = {} /\ Of(g) \cap All(o) = {} /\ All(m) \cap All(o) = {}
    /\ f = Of(g) \cup All(m) \cup All(o)

(* The jobs of a query among those of its environment: what they say, in   *)
(* which order, and the chunks they carry.                                 *)
Jobs(q) == IF EnvOf[q] = Native THEN <<>> ELSE jobs[EnvOf[q]]
Owned(js, q) == [k \in 1 .. Len(js) |-> IF js[k].q = q THEN js[k].items ELSE <<>>]
Said(js, q) == {js[k].what : k \in {l \in 1 .. Len(js) : js[l].q = q}}
Orderly(js, q) ==
    \A k \in 1 .. Len(js) : js[k].q = q /\ js[k].what # "data" =>
        js[k].items = <<>> /\ \A l \in 1 .. Len(js) : k < l => js[l].q # q

Counted(q) ==
    call[q] # "refused" /\ ~cut[q] /\ ~lost[q] =>
        Flow(got[q], Owned(Jobs(q), q), task[q].out, found[q])

(* How far a query has come: nothing is told or queued before its task     *)
(* has it, the end is told last, and nothing is left behind it.            *)
Places(q) ==
    /\ call[q] = "idle" => task[q].at = "none"
    /\ task[q].at \notin {"collector", "rulers"} => task[q].out = <<>>
    /\ task[q].at \in {"none", "queued"} => found[q] = {}
    /\ told[q] # "no" => task[q].at = "ended" /\ Said(Jobs(q), q) = {}
    /\ Said(Jobs(q), q) # {} => task[q].at # "none"
    /\ task[q].at # "ended" => Said(Jobs(q), q) \subseteq {"data"}
    /\ Orderly(Jobs(q), q)
    /\ lost[q] => task[q].at \in {"ended", "dead"}

(* A caller in JavaScript that waits is registered, and its environment    *)
(* has its entry until the end of another query takes it away.             *)
Caller(q) ==
    /\ EnvOf[q] # Native /\ call[q] = "waiting" /\ told[q] = "no" => q \in queriers
    /\ q \in queriers => EnvOf[q] \in Envs /\ (cut[q] \/ EnvOf[q] \in live)

(* The rulers still to be asked have given nothing yet, and each of the    *)
(* others failed, was passed over in silence, or gave all it had.          *)
Left(q) == task[q].todo \cup (IF task[q].at = "guard" THEN OfKind(q, "guard") ELSE {})
                        \cup (IF task[q].at \in {"guard", "collector"} THEN OfKind(q, "collector") ELSE {})
Done(q, e) == \/ e \in task[q].failed \cup silent[q]
              \/ Kind[e] # "unknown" /\ (Kind[e] \in {"guard", "collector"} => Items(e) \subseteq found[q])
Asks(q) ==
    /\ \A e \in silent[q] : Kind[e] \in {"guard", "collector"}
    /\ Api[q] = "request" => task[q].todo = {}
    /\ task[q].at \in {"guard", "collector"} => Api[q] = "event" /\ task[q].todo = ClassifyRulers(q).db
    /\ task[q].at \in {"guard", "collector", "rulers"} /\ Api[q] # "request" =>
         /\ \A e \in Asked(q) \ Left(q) : Done(q, e)
         /\ \A x \in found[q] : x[1] \notin Left(q)
         /\ Left(q) \subseteq Asked(q)
         /\ Api[q] = "event" => Asked(q) \ InGroup \subseteq task[q].failed

(* A query that is announced as complete had no failure.                   *)
Announced(q) == told[q] = "complete" \/ "complete" \in Said(Jobs(q), q)
Final(q) ==
    Announced(q) =>
        /\ ~lost[q]
        /\ Api[q] # "request" => task[q].failed = {} /\ \A e \in Asked(q) : Done(q, e)
        /\ Api[q] = "event" => Asked(q) \subseteq InGroup

QueryOk(q) == Counted(q) /\ Places(q) /\ Caller(q) /\ Asks(q) /\ Final(q)
QueryInv == QueryTyped /\ JobsPlaced /\ \A q \in Queries : QueryOk(q)

--------------------------------------------------------------------------------
(* Sequences without repetitions, and pieces of them                       *)

(* Two sequences put one after the other. *)
LEMMA Joined ==
    ASSUME NEW T, NEW s \in Seq(T), NEW t \in Seq(T), Inj(s), Inj(t), Of(s) \cap Of(t) = {}
    PROVE  Inj(s \o t) /\ Of(s \o t) = Of(s) \cup Of(t)
<1>1. /\ Len(s \o t) = Len(s) + Len(t) /\ Len(s) \in Nat /\ Len(t) \in Nat
      /\ \A i \in 1 .. Len(s) : (s \o t)[i] = s[i]
      /\ \A i \in 1 .. Len(s) + Len(t) : i \notin 1 .. Len(s) =>
            i - Len(s) \in 1 .. Len(t) /\ (s \o t)[i] = t[i - Len(s)]
  OBVIOUS
<1>2. \A i \in 1 .. Len(t) : i + Len(s) \in 1 .. Len(s) + Len(t) /\ (s \o t)[i + Len(s)] = t[i]
  OBVIOUS
<1>3. \A i \in 1 .. Len(s), j \in 1 .. Len(t) : s[i] # t[j]
  BY DEF Of
<1>4. Inj(s \o t)
  <2> SUFFICES ASSUME NEW i \in 1 .. Len(s) + Len(t), NEW j \in 1 .. Len(s) + Len(t),
                      (s \o t)[i] = (s \o t)[j]
               PROVE  i = j
    BY <1>1 DEF Inj
  <2>1. CASE i \in 1 .. Len(s) /\ j \in 1 .. Len(s)
    BY <1>1, <2>1 DEF Inj
  <2>2. CASE i \notin 1 .. Len(s) /\ j \notin 1 .. Len(s)
    <3>1. i - Len(s) = j - Len(s)
      BY <1>1, <2>2 DEF Inj
    <3> QED
      BY <1>1, <3>1
  <2>3. i \in 1 .. Len(s) <=> j \in 1 .. Len(s)
    BY <1>1, <1>3
  <2> QED
    BY <2>1, <2>2, <2>3
<1>5. Of(s \o t) \subseteq Of(s) \cup Of(t)
  BY <1>1 DEF Of
<1>6. Of(s) \cup Of(t) \subseteq Of(s \o t)
  <2>1. \A i \in 1 .. Len(s) : i \in 1 .. Len(s) + Len(t)
    BY <1>1
  <2>2. Of(s) \subseteq Of(s \o t)
    BY <1>1, <2>1 DEF Of
  <2>3. Of(t) \subseteq Of(s \o t)
    BY <1>1, <1>2 DEF Of
  <2> QED
    BY <2>2, <2>3
<1> QED
  BY <1>4, <1>5, <1>6

(* The first of several sequences is taken, or one more is put behind them. *)
LEMMA Taken ==
    ASSUME NEW T, NEW ss \in Seq(Seq(T)), ss # <<>>, Apart(ss)
    PROVE  /\ Apart(Tail(ss)) /\ Inj(Head(ss)) /\ Of(Head(ss)) \cap All(Tail(ss)) = {}
           /\ All(ss) = Of(Head(ss)) \cup All(Tail(ss))
<1>1. /\ Len(Tail(ss)) = Len(ss) - 1 /\ Len(ss) \in Nat \ {0} /\ Head(ss) = ss[1]
      /\ \A k \in 1 .. Len(ss) - 1 : Tail(ss)[k] = ss[k + 1] /\ k + 1 \in 1 .. Len(ss) /\ k + 1 # 1
      /\ 1 \in 1 .. Len(ss)
  OBVIOUS
<1>2. Apart(Tail(ss)) /\ Inj(Head(ss))
  BY <1>1 DEF Apart
<1>3. Of(Head(ss)) \cap All(Tail(ss)) = {}
  <2>1. \A k \in 1 .. Len(ss) - 1 : Of(ss[1]) \cap Of(ss[k + 1]) = {}
    BY <1>1 DEF Apart
  <2> QED
    BY <1>1, <2>1 DEF All
<1>4. \A k \in 1 .. Len(ss) : k = 1 \/ (k - 1 \in 1 .. Len(ss) - 1 /\ Tail(ss)[k - 1] = ss[k])
  BY <1>1
<1>5. All(ss) \subseteq Of(Head(ss)) \cup All(Tail(ss))
  <2> SUFFICES ASSUME NEW k \in 1 .. Len(ss) PROVE Of(ss[k]) \subseteq Of(Head(ss)) \cup All(Tail(ss))
    BY DEF All
  <2> QED
    BY <1>1, <1>4 DEF All
<1>6. Of(Head(ss)) \cup All(Tail(ss)) \subseteq All(ss)
  <2>1. Of(Head(ss)) \subseteq All(ss)
    BY <1>1 DEF All
  <2>2. ASSUME NEW k \in 1 .. Len(ss) - 1 PROVE Of(Tail(ss)[k]) \subseteq All(ss)
    BY <1>1, <2>2 DEF All
  <2> QED
    BY <1>1, <2>1, <2>2 DEF All
<1> QED
  BY <1>2, <1>3, <1>5, <1>6

LEMMA Put ==
    ASSUME NEW T, NEW ss \in Seq(Seq(T)), NEW s \in Seq(T), Apart(ss), Inj(s), Of(s) \cap All(ss) = {}
    PROVE  Apart(Append(ss, s)) /\ All(Append(ss, s)) = All(ss) \cup Of(s)
<1> DEFINE n == Len(ss)
           tt == Append(ss, s)
<1>1. /\ Len(tt) = n + 1 /\ n \in Nat /\ tt[n + 1] = s
      /\ \A k \in 1 .. n : tt[k] = ss[k]
      /\ \A k \in 1 .. n + 1 : k = n + 1 \/ k \in 1 .. n
  OBVIOUS
<1> HIDE DEF tt
<1>2. \A k \in 1 .. n : Of(ss[k]) \cap Of(s) = {} /\ Inj(ss[k])
  BY DEF All, Apart
<1>3. Apart(tt)
  <2>1. \A k \in 1 .. n + 1 : Inj(tt[k])
    BY <1>1, <1>2
  <2>2. ASSUME NEW k \in 1 .. n + 1, NEW l \in 1 .. n + 1, k # l
        PROVE  Of(tt[k]) \cap Of(tt[l]) = {}
    <3>1. CASE k \in 1 .. n /\ l \in 1 .. n
      BY <1>1, <2>2, <3>1 DEF Apart
    <3>2. CASE k = n + 1 \/ l = n + 1
      BY <1>1, <1>2, <2>2, <3>2
    <3> QED
      BY <1>1, <3>1, <3>2
  <2> QED
    BY <1>1, <2>1, <2>2 DEF Apart
<1>4. All(tt) = All(ss) \cup Of(s)
  <2>1. All(tt) = UNION {Of(tt[k]) : k \in 1 .. n + 1}
    BY <1>1 DEF All
  <2>2. \A k \in 1 .. n : k \in 1 .. n + 1
    BY <1>1
  <2>3. n + 1 \in 1 .. n + 1
    BY <1>1
  <2>4. All(tt) \subseteq All(ss) \cup Of(s)
    BY <1>1, <2>1 DEF All
  <2>5. All(ss) \subseteq All(tt)
    <3> SUFFICES ASSUME NEW x \in All(ss) PROVE x \in All(tt)
      OBVIOUS
    <3>1. PICK k \in 1 .. n : x \in Of(ss[k])
      BY DEF All
    <3> QED
      BY <1>1, <2>1, <2>2, <3>1
  <2>6. Of(s) \subseteq All(tt)
    BY <1>1, <2>1, <2>3
  <2> QED
    BY <2>4, <2>5, <2>6
<1> QED
  BY <1>3, <1>4 DEF tt

LEMMA Nothing == Inj(<<>>) /\ Of(<<>>) = {} /\ Apart(<<>>) /\ All(<<>>) = {}
  BY DEF Inj, Of, Apart, All

(* A set as a sequence. *)
LEMMA Listed ==
    ASSUME NEW S, IsFiniteSet(S)
    PROVE  SetToSeq(S) \in Seq(S) /\ Inj(SetToSeq(S)) /\ Of(SetToSeq(S)) = S
<1> DEFINE n == Cardinality(S)
           f == SetToSeq(S)
<1>1. n \in Nat /\ ExistsBijection(1 .. n, S)
  BY FS_CardinalityType
<1>2. PICK b \in [1 .. n -> S] : IsInjective(b)
  BY <1>1 DEF ExistsBijection, Bijection, Injection
<1>3. f \in [1 .. n -> S] /\ IsInjective(f)
  BY <1>2 DEF SetToSeq
<1> HIDE DEF f
<1>4. f \in Seq(S) /\ Len(f) = n
  BY <1>1, <1>3
<1>5. Inj(f)
  BY <1>3, <1>4 DEF Inj, IsInjective
<1>6. f \in Surjection(1 .. n, S)
  <2>1. f \in Injection(1 .. n, S)
    BY <1>3 DEF Injection
  <2>2. Cardinality(1 .. n) = Cardinality(S)
    BY <1>1, FS_Interval
  <2> QED
    BY <2>1, <2>2, FS_Injection
<1>7. Of(f) = S
  BY <1>3, <1>4, <1>6 DEF Of, Surjection
<1> QED
  BY <1>4, <1>5, <1>7 DEF f

(* A list without repetitions counts its elements. *)
LEMMA Counting ==
    ASSUME NEW T, NEW s \in Seq(T), Inj(s)
    PROVE  Len(s) = Cardinality(Of(s)) /\ ToSet(s) = Of(s)
<1> DEFINE n == Len(s)
<1>1. n \in Nat /\ IsFiniteSet(1 .. n) /\ Cardinality(1 .. n) = n
  <2>1. n \in Nat /\ 1 \in Int /\ n \in Int
    OBVIOUS
  <2>2. IsFiniteSet(1 .. n) /\ Cardinality(1 .. n) = IF 1 > n THEN 0 ELSE n - 1 + 1
    BY <2>1, FS_Interval
  <2> QED
    BY <2>1, <2>2
<1>2. s \in Bijection(1 .. n, Of(s))
  BY DEF Bijection, Injection, Surjection, IsInjective, Inj, Of
<1>3. Cardinality(Of(s)) = Cardinality(1 .. n)
  BY <1>1, <1>2, FS_Bijection DEF ExistsBijection
<1>4. ToSet(s) = Of(s)
  BY DEF ToSet, Of
<1> QED
  BY <1>1, <1>3, <1>4

(* The chunks of a list are pieces of it, one behind the other.            *)
LEMMA Times ==
    ASSUME NEW i \in Int, NEW j \in Int, i <= j
    PROVE  i * Chunk \in Int /\ j * Chunk \in Int /\ i * Chunk <= j * Chunk
<1>1. Chunk \in Nat
  BY QueryAssumption
<1>2. j - i \in Nat /\ (j - i) * Chunk \in Nat
  BY <1>1
<1>3. j * Chunk = i * Chunk + (j - i) * Chunk
  BY <1>1
<1> QED
  BY <1>1, <1>2, <1>3

LEMMA Over ==
    ASSUME NEW a \in Nat
    PROVE  /\ a \div Chunk \in Nat
           /\ (a \div Chunk) * Chunk \in Nat
           /\ (a \div Chunk) * Chunk <= a /\ a < (a \div Chunk) * Chunk + Chunk
  BY QueryAssumption

LEMMA Piece ==
    ASSUME NEW T, NEW s \in Seq(T), NEW a \in 1 .. Len(s), NEW b \in 1 .. Len(s), a <= b
    PROVE  /\ SubSeq(s, a, b) \in Seq(T) /\ Of(SubSeq(s, a, b)) = {s[j] : j \in a .. b}
           /\ Inj(s) => Inj(SubSeq(s, a, b))
<1> DEFINE p == SubSeq(s, a, b)
           n == b - a + 1
<1>1. Len(s) \in Nat /\ a \in Nat /\ b \in Nat /\ n \in Nat /\ 1 <= a /\ b <= Len(s)
  OBVIOUS
<1>2. p \in Seq(T) /\ Len(p) = n /\ \A k \in 1 .. n : p[k] = s[a + k - 1]
  BY <1>1
<1>3. \A k \in 1 .. n : a + k - 1 \in a .. b /\ a + k - 1 \in 1 .. Len(s)
  BY <1>1
<1>4. \A j \in a .. b : j - a + 1 \in 1 .. n /\ a + (j - a + 1) - 1 = j
  BY <1>1
<1>5. \A k, l \in 1 .. n : a + k - 1 = a + l - 1 => k = l
  BY <1>1
<1> HIDE DEF p, n
<1>6. Of(p) \subseteq {s[j] : j \in a .. b}
  BY <1>2, <1>3 DEF Of
<1>7. \A j \in a .. b : s[j] = p[j - a + 1]
  BY <1>2, <1>4
<1>8. {s[j] : j \in a .. b} \subseteq Of(p)
  <2> SUFFICES ASSUME NEW j \in a .. b PROVE s[j] \in Of(p)
    OBVIOUS
  <2> QED
    BY <1>2, <1>4, <1>7 DEF Of
<1>9. Inj(s) => Inj(p)
  <2> SUFFICES ASSUME Inj(s), NEW k \in 1 .. n, NEW l \in 1 .. n, p[k] = p[l] PROVE k = l
    BY <1>2 DEF Inj
  <2>1. s[a + k - 1] = s[a + l - 1] /\ a + k - 1 \in 1 .. Len(s) /\ a + l - 1 \in 1 .. Len(s)
    BY <1>2, <1>3
  <2>2. a + k - 1 = a + l - 1
    BY <2>1 DEF Inj
  <2> QED
    BY <1>5, <2>2
<1> QED
  BY <1>2, <1>6, <1>8, <1>9 DEF p

(* Two ranges of positions, one after the other, have none in common. *)
LEMMA Ranges ==
    ASSUME NEW n \in Nat, NEW a \in 1 .. n, NEW b \in 1 .. n, NEW c \in 1 .. n, NEW d \in 1 .. n, b < c
    PROVE  \A k \in a .. b, l \in c .. d : k \in 1 .. n /\ l \in 1 .. n /\ k # l
  OBVIOUS

Cuts(s, m, lo, hi, p) ==
    /\ \A i \in 1 .. m : /\ lo[i] \in 1 .. Len(s) /\ hi[i] \in 1 .. Len(s) /\ lo[i] <= hi[i]
                         /\ p[i] = SubSeq(s, lo[i], hi[i])
    /\ \A i, j \in 1 .. m : i < j => hi[i] < lo[j]
    /\ \A k \in 1 .. Len(s) : \E i \in 1 .. m : k \in lo[i] .. hi[i]

LEMMA Pieces ==
    ASSUME NEW T, NEW s \in Seq(T), Inj(s), NEW m \in Nat, NEW lo, NEW hi, NEW p \in [1 .. m -> Seq(T)],
           Cuts(s, m, lo, hi, p)
    PROVE  p \in Seq(Seq(T)) /\ Apart(p) /\ All(p) = Of(s)
<1>1. p \in Seq(Seq(T)) /\ Len(p) = m
  OBVIOUS
<1>1a. ASSUME NEW a \in 1 .. Len(s), NEW b \in 1 .. Len(s), a <= b
       PROVE  Inj(SubSeq(s, a, b)) /\ Of(SubSeq(s, a, b)) = {s[k] : k \in a .. b}
  BY <1>1a, Piece
<1>2. ASSUME NEW i \in 1 .. m
      PROVE  /\ Inj(p[i]) /\ Of(p[i]) = {s[k] : k \in lo[i] .. hi[i]}
             /\ lo[i] \in 1 .. Len(s) /\ hi[i] \in 1 .. Len(s)
  <2>1. lo[i] \in 1 .. Len(s) /\ hi[i] \in 1 .. Len(s) /\ lo[i] <= hi[i] /\ p[i] = SubSeq(s, lo[i], hi[i])
    BY DEF Cuts
  <2>2. Inj(SubSeq(s, lo[i], hi[i])) /\ Of(SubSeq(s, lo[i], hi[i])) = {s[k] : k \in lo[i] .. hi[i]}
    BY <1>1a, <2>1
  <2> QED
    BY <2>1, <2>2
<1>3. ASSUME NEW i \in 1 .. m, NEW j \in 1 .. m, i < j PROVE Of(p[i]) \cap Of(p[j]) = {}
  <2>1. \A k \in lo[i] .. hi[i], l \in lo[j] .. hi[j] : k \in 1 .. Len(s) /\ l \in 1 .. Len(s) /\ k # l
    <3>1. /\ lo[i] \in 1 .. Len(s) /\ hi[i] \in 1 .. Len(s) /\ lo[j] \in 1 .. Len(s) /\ hi[j] \in 1 .. Len(s)
      BY <1>2
    <3>2. hi[i] < lo[j]
      BY <1>3 DEF Cuts
    <3>3. Len(s) \in Nat
      OBVIOUS
    <3> DEFINE n == Len(s)
               a == lo[i]
               b == hi[i]
               c == lo[j]
               d == hi[j]
    <3>4. /\ n \in Nat /\ a \in 1 .. n /\ b \in 1 .. n /\ c \in 1 .. n /\ d \in 1 .. n /\ b < c
      BY <3>1, <3>2, <3>3
    <3> HIDE DEF n, a, b, c, d
    <3>5. \A k \in a .. b, l \in c .. d : k \in 1 .. n /\ l \in 1 .. n /\ k # l
      BY <3>4, Ranges
    <3> QED
      BY <3>5 DEF n, a, b, c, d
  <2>2. \A k \in lo[i] .. hi[i], l \in lo[j] .. hi[j] : s[k] # s[l]
    BY <2>1 DEF Inj
  <2>3. Of(p[i]) = {s[k] : k \in lo[i] .. hi[i]} /\ Of(p[j]) = {s[k] : k \in lo[j] .. hi[j]}
    BY <1>2
  <2> QED
    BY <2>2, <2>3
<1>4. \A i, j \in 1 .. m : i # j => Of(p[i]) \cap Of(p[j]) = {}
  <2>1. \A i, j \in 1 .. m : i # j => i < j \/ j < i
    OBVIOUS
  <2> QED
    BY <1>3, <2>1
<1>5. Apart(p)
  BY <1>1, <1>2, <1>4 DEF Apart
<1>6. All(p) = UNION {Of(p[i]) : i \in 1 .. m}
  BY <1>1 DEF All
<1>7. ASSUME NEW i \in 1 .. m PROVE Of(p[i]) \subseteq Of(s)
  <2>1. lo[i] \in 1 .. Len(s) /\ hi[i] \in 1 .. Len(s) /\ Len(s) \in Nat
    BY <1>2
  <2>2. \A k \in lo[i] .. hi[i] : k \in 1 .. Len(s)
    BY <2>1
  <2>3. Of(p[i]) = {s[k] : k \in lo[i] .. hi[i]}
    BY <1>2
  <2> QED
    BY <2>2, <2>3 DEF Of
<1>8. ASSUME NEW k \in 1 .. Len(s) PROVE \E i \in 1 .. m : s[k] \in Of(p[i])
  BY <1>2 DEF Cuts
<1>9. Of(s) \subseteq All(p)
  BY <1>6, <1>8 DEF Of
<1>10. All(p) \subseteq Of(s)
  BY <1>6, <1>7
<1> QED
  BY <1>1, <1>5, <1>9, <1>10

LEMMA Parted ==
    ASSUME NEW T, NEW s \in Seq(T), Inj(s)
    PROVE  Parts(s) \in Seq(Seq(T)) /\ Apart(Parts(s)) /\ All(Parts(s)) = Of(s)
<1> DEFINE n == Len(s)
           m == (n + Chunk - 1) \div Chunk
           lo == [i \in 1 .. m |-> (i - 1) * Chunk + 1]
           hi == [i \in 1 .. m |-> IF i * Chunk < n THEN i * Chunk ELSE n]
           p == Parts(s)
<1>1. n \in Nat /\ Chunk \in Nat \ {0} /\ n + Chunk - 1 \in Nat
  BY QueryAssumption
<1>2. m \in Nat /\ m * Chunk \in Nat /\ m * Chunk <= n + Chunk - 1 /\ n <= m * Chunk
  BY <1>1, Over
<1>3. ASSUME NEW i \in 1 .. m
      PROVE  /\ lo[i] \in 1 .. n /\ hi[i] \in 1 .. n /\ lo[i] <= hi[i] /\ hi[i] <= i * Chunk
             /\ i * Chunk \in Int /\ lo[i] = (i - 1) * Chunk + 1
  <2>1. (i - 1) * Chunk = i * Chunk - Chunk /\ i * Chunk \in Int
    BY <1>1
  <2>2. i * Chunk <= m * Chunk /\ 0 * Chunk <= (i - 1) * Chunk
    <3>1. i \in Int /\ m \in Int /\ i <= m /\ 0 \in Int /\ i - 1 \in Int /\ 0 <= i - 1
      BY <1>2
    <3> QED
      BY <3>1, Times
  <2>3. 0 * Chunk = 0
    BY <1>1
  <2>4. lo[i] = (i - 1) * Chunk + 1 /\ hi[i] = IF i * Chunk < n THEN i * Chunk ELSE n
    OBVIOUS
  <2> HIDE DEF m, lo, hi, n
  <2>5. /\ (i - 1) * Chunk \in Nat /\ (i - 1) * Chunk < n /\ i * Chunk \in Nat
        /\ (i - 1) * Chunk < i * Chunk
    BY <1>1, <1>2, <2>1, <2>2, <2>3
  <2> QED
    BY <1>1, <2>4, <2>5
<1>4. p = [i \in 1 .. m |-> SubSeq(s, lo[i], hi[i])]
  BY DEF Parts
<1>5. ASSUME NEW i \in 1 .. m, NEW j \in 1 .. m, i < j PROVE hi[i] < lo[j]
  <2>1. i * Chunk <= (j - 1) * Chunk /\ (j - 1) * Chunk \in Int
    <3>1. i \in Int /\ j - 1 \in Int /\ i <= j - 1
      BY <1>2, <1>5
    <3> QED
      BY <3>1, Times
  <2>2. hi[i] <= i * Chunk /\ hi[i] \in Int /\ i * Chunk \in Int /\ lo[j] = (j - 1) * Chunk + 1
    <3>1. hi[i] \in 1 .. n
      BY <1>3
    <3>2. hi[i] <= i * Chunk /\ i * Chunk \in Int /\ lo[j] = (j - 1) * Chunk + 1
      BY <1>3
    <3> HIDE DEF lo, hi, m, n
    <3> QED
      BY <1>1, <3>1, <3>2
  <2> HIDE DEF lo, hi, m
  <2> QED
    BY <2>1, <2>2
<1>6. ASSUME NEW j \in 1 .. n PROVE \E i \in 1 .. m : j \in lo[i] .. hi[i]
  <2> DEFINE i == (j - 1) \div Chunk + 1
  <2>1. j - 1 \in Nat
    BY <1>1
  <2>2. /\ (j - 1) \div Chunk \in Nat /\ ((j - 1) \div Chunk) * Chunk <= j - 1
        /\ j - 1 < ((j - 1) \div Chunk) * Chunk + Chunk
    BY <2>1, Over
  <2>3. i \in Nat \ {0} /\ (i - 1) * Chunk <= j - 1 /\ j <= (i - 1) * Chunk + Chunk
    BY <1>1, <2>2
  <2> HIDE DEF i
  <2>4. i * Chunk = (i - 1) * Chunk + Chunk /\ i * Chunk \in Int /\ (i - 1) * Chunk \in Int
    BY <1>1, <2>3
  <2>5. i <= m
    <3> HIDE DEF m, lo, hi
    <3>1. CASE m <= i - 1
      <4>1. m * Chunk <= (i - 1) * Chunk
        <5>1. m \in Int /\ i - 1 \in Int
          BY <1>2, <2>3
        <5> QED
          BY <3>1, <5>1, Times
      <4> QED
        BY <1>1, <1>2, <2>3, <2>4, <4>1
    <3> QED
      BY <1>2, <2>3, <3>1
  <2>6. i \in 1 .. m
    <3> HIDE DEF m
    <3> QED
      BY <1>2, <2>3, <2>5
  <2>7. lo[i] = (i - 1) * Chunk + 1 /\ hi[i] = IF i * Chunk < n THEN i * Chunk ELSE n
    BY <2>6
  <2>8. j \in lo[i] .. hi[i]
    <3> HIDE DEF m, lo, hi
    <3> QED
      BY <1>1, <2>3, <2>4, <2>7
  <2> QED
    BY <2>6, <2>8
<1> HIDE DEF m, lo, hi, p
<1>7. \A i \in 1 .. m : SubSeq(s, lo[i], hi[i]) \in Seq(T)
  BY <1>3, Piece
<1>8. p \in [1 .. m -> Seq(T)] /\ \A i \in 1 .. m : p[i] = SubSeq(s, lo[i], hi[i])
  BY <1>4, <1>7
<1>9. Cuts(s, m, lo, hi, p)
  BY <1>3, <1>5, <1>6, <1>8 DEF Cuts
<1>10. p \in Seq(Seq(T)) /\ Apart(p) /\ All(p) = Of(s)
  BY <1>2, <1>8, <1>9, Pieces
<1> QED
  BY <1>10 DEF p

(* What is to be sent of a set.                                            *)
LEMMA Chunked ==
    ASSUME NEW T, NEW S \in SUBSET T, IsFiniteSet(S)
    PROVE  Chunks(S) \in Seq(Seq(T)) /\ Apart(Chunks(S)) /\ All(Chunks(S)) = S
<1>1. SetToSeq(S) \in Seq(S) /\ Inj(SetToSeq(S)) /\ Of(SetToSeq(S)) = S
  BY Listed
<1>2. SetToSeq(S) \in Seq(T)
  BY <1>1
<1> HIDE DEF Inj
<1> QED
  BY <1>1, <1>2, Parted DEF Chunks

(* What a query was given stays in one place, whatever becomes of it:      *)
(* chunks are made, sent, queued, and given to the caller.                 *)
LEMMA FlowMade ==
    ASSUME NEW T, NEW g \in Seq(T), NEW m \in Seq(Seq(T)), NEW f, Flow(g, m, <<>>, f),
           NEW S \in SUBSET T, IsFiniteSet(S), S \cap f = {}
    PROVE  Chunks(S) \in Seq(Seq(T)) /\ Flow(g, m, Chunks(S), f \cup S)
<1>1. Chunks(S) \in Seq(Seq(T)) /\ Apart(Chunks(S)) /\ All(Chunks(S)) = S
  BY Chunked
<1> QED
  BY <1>1, Nothing DEF Flow

LEMMA FlowSent ==
    ASSUME NEW T, NEW g \in Seq(T), NEW m \in Seq(Seq(T)), NEW o \in Seq(Seq(T)), NEW f,
           Flow(g, m, o, f), o # <<>>
    PROVE  Flow(g \o Head(o), m, Tail(o), f) /\ Flow(g, Append(m, Head(o)), Tail(o), f)
<1>1. /\ Apart(Tail(o)) /\ Inj(Head(o)) /\ Of(Head(o)) \cap All(Tail(o)) = {}
      /\ All(o) = Of(Head(o)) \cup All(Tail(o))
  BY Taken DEF Flow
<1>2. Head(o) \in Seq(T)
  OBVIOUS
<1>3. Of(g) \cap Of(Head(o)) = {} /\ Of(Head(o)) \cap All(m) = {} /\ Inj(g) /\ Apart(m)
  BY <1>1 DEF Flow
<1>4. Inj(g \o Head(o)) /\ Of(g \o Head(o)) = Of(g) \cup Of(Head(o))
  BY <1>1, <1>2, <1>3, Joined
<1>5. Apart(Append(m, Head(o))) /\ All(Append(m, Head(o))) = All(m) \cup Of(Head(o))
  BY <1>1, <1>2, <1>3, Put
<1> QED
  BY <1>1, <1>4, <1>5 DEF Flow

LEMMA FlowGiven ==
    ASSUME NEW T, NEW g \in Seq(T), NEW m \in Seq(Seq(T)), NEW o \in Seq(Seq(T)), NEW f,
           Flow(g, m, o, f), m # <<>>
    PROVE  Flow(g \o Head(m), Tail(m), o, f)
<1>1. /\ Apart(Tail(m)) /\ Inj(Head(m)) /\ Of(Head(m)) \cap All(Tail(m)) = {}
      /\ All(m) = Of(Head(m)) \cup All(Tail(m))
  BY Taken DEF Flow
<1>2. Head(m) \in Seq(T)
  OBVIOUS
<1>3. Of(g) \cap Of(Head(m)) = {} /\ Of(Head(m)) \cap All(o) = {} /\ Inj(g)
  BY <1>1 DEF Flow
<1>4. Inj(g \o Head(m)) /\ Of(g \o Head(m)) = Of(g) \cup Of(Head(m))
  BY <1>1, <1>2, <1>3, Joined
<1> QED
  BY <1>1, <1>4 DEF Flow

(* The jobs of other queries come and go between those of one.             *)
LEMMA FlowAround ==
    ASSUME NEW T, NEW g \in Seq(T), NEW m \in Seq(Seq(T)), NEW o \in Seq(Seq(T)), NEW f,
           Flow(g, m, o, f)
    PROVE  Flow(g, Append(m, <<>>), o, f) /\ (m # <<>> /\ Head(m) = <<>> => Flow(g, Tail(m), o, f))
<1>1. <<>> \in Seq(T) /\ g \o <<>> = g
  OBVIOUS
<1>1a. Apart(m) /\ Inj(<<>>) /\ Of(<<>>) \cap All(m) = {}
  BY Nothing DEF Flow
<1>2. Apart(Append(m, <<>>)) /\ All(Append(m, <<>>)) = All(m) \cup Of(<<>>)
  BY <1>1, <1>1a, Put
<1>3. Flow(g, Append(m, <<>>), o, f)
  BY <1>2, Nothing DEF Flow
<1>4. ASSUME m # <<>>, Head(m) = <<>> PROVE Flow(g, Tail(m), o, f)
  <2>1. Flow(g \o Head(m), Tail(m), o, f)
    BY <1>4, FlowGiven
  <2> QED
    BY <1>1, <1>4, <2>1
<1> QED
  BY <1>3, <1>4

--------------------------------------------------------------------------------
(* The jobs of a query among those of its environment                      *)

LEMMA OwnedType ==
    ASSUME NEW js \in Seq(Messages), NEW q
    PROVE  /\ Owned(js, q) \in Seq(Seq(Things)) /\ Len(Owned(js, q)) = Len(js)
           /\ Said(js, q) \subseteq {"data", "complete", "error"}
           /\ Said(js, q) = {} => All(Owned(js, q)) = {}
<1>1. /\ Len(js) \in Nat /\ <<>> \in Seq(Things)
      /\ \A k \in 1 .. Len(js) : js[k] \in Messages /\ js[k].items \in Seq(Things)
  <2>1. Len(js) \in Nat /\ <<>> \in Seq(Things) /\ \A k \in 1 .. Len(js) : js[k] \in Messages
    OBVIOUS
  <2> QED
    BY <2>1 DEF Messages
<1>2. Owned(js, q) \in [1 .. Len(js) -> Seq(Things)]
  BY <1>1 DEF Owned
<1>3. Owned(js, q) \in Seq(Seq(Things)) /\ Len(Owned(js, q)) = Len(js)
  BY <1>1, <1>2
<1>4. Said(js, q) \subseteq {"data", "complete", "error"}
  BY <1>1 DEF Said, Messages
<1>5. ASSUME Said(js, q) = {} PROVE All(Owned(js, q)) = {}
  <2>1. \A k \in 1 .. Len(js) : js[k].q # q
    BY <1>5 DEF Said
  <2>2. \A k \in 1 .. Len(js) : Owned(js, q)[k] = <<>>
    BY <2>1 DEF Owned
  <2> QED
    BY <1>3, <2>2, Nothing DEF All
<1> QED
  BY <1>3, <1>4, <1>5

Fits(js, m, q) == m.q = q => Said(js, q) \subseteq {"data"} /\ (m.what # "data" => m.items = <<>>)

LEMMA Appended ==
    ASSUME NEW js \in Seq(Messages), NEW m \in Messages, NEW q
    PROVE  /\ m.q = q => Said(Append(js, m), q) = Said(js, q) \cup {m.what}
           /\ m.q # q => Said(Append(js, m), q) = Said(js, q)
           /\ Owned(Append(js, m), q) = Append(Owned(js, q), IF m.q = q THEN m.items ELSE <<>>)
           /\ Orderly(js, q) /\ Fits(js, m, q) => Orderly(Append(js, m), q)
<1> DEFINE n == Len(js)
           tt == Append(js, m)
<1>1. /\ n \in Nat /\ Len(tt) = n + 1 /\ tt[n + 1] = m /\ \A k \in 1 .. n : tt[k] = js[k]
      /\ \A k \in 1 .. n + 1 : k \in 1 .. n \/ k = n + 1
      /\ \A k \in 1 .. n : k \in 1 .. n + 1 /\ k # n + 1 /\ k < n + 1
      /\ n + 1 \in 1 .. n + 1
  OBVIOUS
<1>2. Owned(js, q) \in Seq(Seq(Things)) /\ Len(Owned(js, q)) = n
  BY OwnedType
<1> HIDE DEF n, tt
<1>3. Said(tt, q) = Said(js, q) \cup (IF m.q = q THEN {m.what} ELSE {})
  <2>1. {l \in 1 .. Len(tt) : tt[l].q = q} = {l \in 1 .. n : js[l].q = q} \cup (IF m.q = q THEN {n + 1} ELSE {})
    BY <1>1
  <2> QED
    BY <1>1, <2>1 DEF Said, n
<1>4. Owned(tt, q) = Append(Owned(js, q), IF m.q = q THEN m.items ELSE <<>>)
  <2> DEFINE last == IF m.q = q THEN m.items ELSE <<>>
             o == Owned(js, q)
  <2>1. Len(Append(o, last)) = n + 1 /\ Append(o, last)[n + 1] = last
        /\ \A k \in 1 .. n : Append(o, last)[k] = o[k]
    <3> HIDE DEF last, o
    <3> QED
      BY <1>1, <1>2 DEF o
  <2>1a. last \in Seq(Things)
    BY DEF Messages
  <2>2. Append(o, last) = [k \in 1 .. n + 1 |-> Append(o, last)[k]]
    <3>1. o \in Seq(Seq(Things)) /\ Len(o) = n
      BY <1>2
    <3> HIDE DEF last, o
    <3>2. Append(o, last) \in Seq(Seq(Things)) /\ Len(Append(o, last)) = n + 1
      BY <1>1, <2>1a, <3>1
    <3>3. \A z \in Seq(Seq(Things)) : z = [k \in 1 .. Len(z) |-> z[k]]
      OBVIOUS
    <3> QED
      BY <3>2, <3>3
  <2>3. \A k \in 1 .. n + 1 : Append(o, last)[k] = IF tt[k].q = q THEN tt[k].items ELSE <<>>
    BY <1>1, <2>1 DEF Owned, n
  <2>4. Owned(tt, q) = [k \in 1 .. n + 1 |-> IF tt[k].q = q THEN tt[k].items ELSE <<>>]
    BY <1>1 DEF Owned
  <2> HIDE DEF last, o
  <2> QED
    BY <2>2, <2>3, <2>4 DEF last, o
<1>5. ASSUME Orderly(js, q), Fits(js, m, q) PROVE Orderly(tt, q)
  <2> SUFFICES ASSUME NEW k \in 1 .. n + 1, tt[k].q = q, tt[k].what # "data"
               PROVE  tt[k].items = <<>> /\ \A l \in 1 .. n + 1 : k < l => tt[l].q # q
    BY <1>1 DEF Orderly
  <2>1. CASE k = n + 1
    BY <1>1, <1>5, <2>1 DEF Fits
  <2>2. CASE k \in 1 .. n
    <3>1. js[k].q = q /\ js[k].what # "data"
      BY <1>1, <2>2
    <3>2. js[k].items = <<>> /\ \A l \in 1 .. n : k < l => js[l].q # q
      BY <1>5, <2>2, <3>1 DEF Orderly, n
    <3>3. js[k].what \in Said(js, q)
      BY <2>2, <3>1 DEF Said, n
    <3>4. m.q # q
      BY <1>5, <3>1, <3>3 DEF Fits
    <3> QED
      BY <1>1, <2>2, <3>2, <3>4
  <2> QED
    BY <1>1, <2>1, <2>2
<1> QED
  BY <1>3, <1>4, <1>5 DEF tt

LEMMA Headed ==
    ASSUME NEW js \in Seq(Messages), js # <<>>, NEW q
    PROVE  /\ Head(js).q = q => Said(js, q) = Said(Tail(js), q) \cup {Head(js).what}
           /\ Head(js).q # q => Said(js, q) = Said(Tail(js), q)
           /\ Owned(js, q) # <<>> /\ Tail(Owned(js, q)) = Owned(Tail(js), q)
           /\ Head(Owned(js, q)) = IF Head(js).q = q THEN Head(js).items ELSE <<>>
           /\ Orderly(js, q) =>
                 /\ Orderly(Tail(js), q)
                 /\ Head(js).q = q /\ Head(js).what # "data" => Said(Tail(js), q) = {} /\ Head(js).items = <<>>
<1> DEFINE n == Len(js)
           tt == Tail(js)
           o == Owned(js, q)
<1>1. /\ n \in Nat \ {0} /\ Len(tt) = n - 1 /\ Head(js) = js[1] /\ \A k \in 1 .. n - 1 : tt[k] = js[k + 1]
      /\ \A k \in 1 .. n - 1 : k + 1 \in 1 .. n /\ 1 < k + 1
      /\ \A k \in 1 .. n : k = 1 \/ (k - 1 \in 1 .. n - 1 /\ (k - 1) + 1 = k)
      /\ \A k, l \in 1 .. n - 1 : k < l => k + 1 < l + 1
      /\ 1 \in 1 .. n
  OBVIOUS
<1>2. o \in Seq(Seq(Things)) /\ Len(o) = n
  BY OwnedType
<1>2a. o # <<>> /\ Head(o) = o[1] /\ Tail(o) = [k \in 1 .. n - 1 |-> o[k + 1]]
  <2>1. o \in Seq(Seq(Things)) /\ Len(o) = n
    BY <1>2
  <2> HIDE DEF o
  <2>2. o # <<>> /\ Head(o) = o[1]
    BY <1>1, <2>1
  <2>3. Tail(o) = [k \in 1 .. n - 1 |-> o[k + 1]]
    <3>1. Tail(o) \in Seq(Seq(Things)) /\ Len(Tail(o)) = n - 1 /\ \A k \in 1 .. n - 1 : Tail(o)[k] = o[k + 1]
      BY <1>1, <2>1, <2>2
    <3>2. \A z \in Seq(Seq(Things)) : z = [k \in 1 .. Len(z) |-> z[k]]
      OBVIOUS
    <3>3. Tail(o) = [k \in 1 .. n - 1 |-> Tail(o)[k]]
      BY <3>1, <3>2
    <3> QED
      BY <3>1, <3>3
  <2> QED
    BY <2>2, <2>3
<1> HIDE DEF n, tt
<1>3. Said(js, q) = Said(tt, q) \cup (IF Head(js).q = q THEN {Head(js).what} ELSE {})
  <2>1. Said(tt, q) \subseteq Said(js, q)
    BY <1>1 DEF Said, n
  <2>2. Head(js).q = q => Head(js).what \in Said(js, q)
    BY <1>1 DEF Said, n
  <2>3. ASSUME NEW k \in 1 .. n, js[k].q = q, k # 1 PROVE js[k].what \in Said(tt, q)
    <3>1. k - 1 \in 1 .. Len(tt) /\ tt[k - 1] = js[k]
      BY <1>1, <2>3
    <3> QED
      BY <2>3, <3>1 DEF Said
  <2>4. \A x \in Said(js, q) : \E k \in 1 .. n : js[k].q = q /\ x = js[k].what
    BY DEF Said, n
  <2> QED
    BY <1>1, <2>1, <2>2, <2>3, <2>4
<1>4. Tail(o) = Owned(tt, q)
  <2>1. \A k \in 1 .. n - 1 : o[k + 1] = IF tt[k].q = q THEN tt[k].items ELSE <<>>
    BY <1>1 DEF Owned, n
  <2>2. Owned(tt, q) = [k \in 1 .. n - 1 |-> IF tt[k].q = q THEN tt[k].items ELSE <<>>]
    BY <1>1 DEF Owned
  <2> HIDE DEF o
  <2> QED
    BY <1>2a, <2>1, <2>2
<1>5. Head(o) = IF Head(js).q = q THEN Head(js).items ELSE <<>>
  BY <1>1, <1>2a DEF Owned, n
<1>6. ASSUME Orderly(js, q)
      PROVE  /\ Orderly(tt, q)
             /\ Head(js).q = q /\ Head(js).what # "data" => Said(tt, q) = {} /\ Head(js).items = <<>>
  <2>1. ASSUME NEW k \in 1 .. n - 1, tt[k].q = q, tt[k].what # "data"
        PROVE  tt[k].items = <<>> /\ \A l \in 1 .. n - 1 : k < l => tt[l].q # q
    <3>1. k + 1 \in 1 .. n /\ js[k + 1].q = q /\ js[k + 1].what # "data" /\ tt[k] = js[k + 1]
      BY <1>1, <2>1
    <3>2. js[k + 1].items = <<>> /\ \A l \in 1 .. n : k + 1 < l => js[l].q # q
      BY <1>6, <3>1 DEF Orderly, n
    <3>3. \A l \in 1 .. n - 1 : k < l => l + 1 \in 1 .. n /\ k + 1 < l + 1 /\ tt[l] = js[l + 1]
      BY <1>1
    <3> QED
      BY <3>1, <3>2, <3>3
  <2>2. ASSUME Head(js).q = q, Head(js).what # "data"
        PROVE  Said(tt, q) = {} /\ Head(js).items = <<>>
    <3>1. js[1].items = <<>> /\ \A l \in 1 .. n : 1 < l => js[l].q # q
      BY <1>1, <1>6, <2>2 DEF Orderly, n
    <3>2. \A l \in 1 .. n - 1 : tt[l].q # q
      BY <1>1, <3>1
    <3> QED
      BY <1>1, <3>1, <3>2 DEF Said
  <2> QED
    BY <1>1, <2>1, <2>2 DEF Orderly
<1> QED
  BY <1>2a, <1>3, <1>4, <1>5, <1>6 DEF tt

--------------------------------------------------------------------------------
(* What a step of one query leaves to the others                           *)

(* A query that a step passes by: jobs of others come behind or go before  *)
(* its own, and the entry of its environment may go if that is held        *)
(* against it (cut).                                                       *)
Aside(p) ==
    /\ call'[p] = call[p] /\ task'[p] = task[p] /\ got'[p] = got[p] /\ told'[p] = told[p]
    /\ found'[p] = found[p] /\ silent'[p] = silent[p] /\ lost'[p] = lost[p] /\ (cut[p] => cut'[p])
    /\ p \in queriers' <=> p \in queriers
    /\ p \in queriers /\ EnvOf[p] \in live => cut'[p] \/ EnvOf[p] \in live'
    /\ \/ Jobs(p)' = Jobs(p)
       \/ \E m \in Messages : m.q # p /\ Jobs(p)' = Append(Jobs(p), m)
       \/ Jobs(p) # <<>> /\ Head(Jobs(p)).q # p /\ Jobs(p)' = Tail(Jobs(p))

LEMMA JobsType ==
    ASSUME QueryTyped, NEW p \in Queries
    PROVE  /\ Jobs(p) \in Seq(Messages) /\ got[p] \in Seq(Things) /\ task[p] \in Tasks
           /\ task[p].out \in Seq(Seq(Things)) /\ found[p] \in SUBSET Things
           /\ EnvOf[p] # Native => EnvOf[p] \in Envs /\ jobs[EnvOf[p]] \in Seq(Messages)
<1>1. EnvOf[p] # Native => EnvOf[p] \in Envs
  BY DEF Envs
<1>2. <<>> \in Seq(Messages)
  OBVIOUS
<1> QED
  BY <1>1, <1>2 DEF QueryTyped, Jobs, Tasks

LEMMA AsideKept ==
    ASSUME QueryTyped, NEW p \in Queries, QueryOk(p), Aside(p)
    PROVE  QueryOk(p)'
<1> DEFINE js == Jobs(p)
           kt == Jobs(p)'
<1>1. js \in Seq(Messages) /\ got[p] \in Seq(Things) /\ task[p].out \in Seq(Seq(Things))
  BY JobsType
<1>2. /\ Said(kt, p) = Said(js, p) /\ (Orderly(js, p) => Orderly(kt, p))
      /\ Flow(got[p], Owned(js, p), task[p].out, found[p]) => Flow(got[p], Owned(kt, p), task[p].out, found[p])
  <2> HIDE DEF js, kt
  <2>0. Owned(js, p) \in Seq(Seq(Things))
    BY <1>1, OwnedType
  <2>1. CASE kt = js
    BY <2>1
  <2>2. ASSUME NEW m \in Messages, m.q # p, kt = Append(js, m)
        PROVE  /\ Said(kt, p) = Said(js, p) /\ (Orderly(js, p) => Orderly(kt, p))
               /\ Owned(kt, p) = Append(Owned(js, p), <<>>)
    <3>1. js \in Seq(Messages)
      BY <1>1
    <3>2. /\ Said(Append(js, m), p) = Said(js, p)
          /\ Owned(Append(js, m), p) = Append(Owned(js, p), <<>>)
          /\ Orderly(js, p) => Orderly(Append(js, m), p)
      BY <2>2, <3>1, Appended DEF Fits
    <3> QED
      BY <2>2, <3>2
  <2>3. ASSUME js # <<>>, Head(js).q # p, kt = Tail(js)
        PROVE  /\ Said(kt, p) = Said(js, p) /\ (Orderly(js, p) => Orderly(kt, p))
               /\ Owned(js, p) # <<>> /\ Head(Owned(js, p)) = <<>> /\ Owned(kt, p) = Tail(Owned(js, p))
    <3>1. js \in Seq(Messages)
      BY <1>1
    <3>2. /\ Said(js, p) = Said(Tail(js), p) /\ Owned(js, p) # <<>>
          /\ Tail(Owned(js, p)) = Owned(Tail(js), p) /\ Head(Owned(js, p)) = <<>>
          /\ Orderly(js, p) => Orderly(Tail(js), p)
      BY <2>3, <3>1, Headed
    <3> QED
      BY <2>3, <3>2
  <2>4. ASSUME Flow(got[p], Owned(js, p), task[p].out, found[p])
        PROVE  /\ Flow(got[p], Append(Owned(js, p), <<>>), task[p].out, found[p])
               /\ Owned(js, p) # <<>> /\ Head(Owned(js, p)) = <<>> =>
                     Flow(got[p], Tail(Owned(js, p)), task[p].out, found[p])
    BY <1>1, <2>0, <2>4, FlowAround
  <2> QED
    BY <2>1, <2>2, <2>3, <2>4 DEF Aside, js, kt
<1> HIDE DEF js, kt
<1>3. /\ call'[p] = call[p] /\ task'[p] = task[p] /\ got'[p] = got[p] /\ told'[p] = told[p]
      /\ found'[p] = found[p] /\ silent'[p] = silent[p] /\ lost'[p] = lost[p] /\ (cut[p] => cut'[p])
      /\ p \in queriers' <=> p \in queriers
      /\ p \in queriers /\ EnvOf[p] \in live => cut'[p] \/ EnvOf[p] \in live'
  BY DEF Aside
<1>4. Counted(p)'
  BY <1>2, <1>3 DEF QueryOk, Counted, js, kt
<1>5. Places(p)'
  BY <1>2, <1>3 DEF QueryOk, Places, js, kt
<1>6. Caller(p)'
  BY <1>3 DEF QueryOk, Caller
<1>7. Asks(p)'
  BY <1>3 DEF QueryOk, Asks, Left, Done
<1>8. Final(p)'
  BY <1>2, <1>3 DEF QueryOk, Final, Announced, Done, js, kt
<1> QED
  BY <1>4, <1>5, <1>6, <1>7, <1>8 DEF QueryOk

LEMMA OneMoves ==
    ASSUME QueryInv, QueryTyped', JobsPlaced', NEW q \in Queries, QueryOk(q)',
           \A p \in Queries \ {q} : Aside(p)
    PROVE  QueryInv'
<1>1. \A p \in Queries \ {q} : QueryOk(p)'
  BY AsideKept DEF QueryInv
<1> QED
  BY <1>1 DEF QueryInv

--------------------------------------------------------------------------------
(* The steps of a call and of its task                                     *)

LEMMA InitQueries == QueryInit => QueryInv
<1> SUFFICES ASSUME QueryInit PROVE QueryInv
  OBVIOUS
<1>1. <<>> \in Seq(Messages) /\ <<>> \in Seq(Things) /\ <<>> \in Seq(Seq(Things)) /\ Len(<<>>) = 0
  OBVIOUS
<1>2. QueryTyped
  BY <1>1 DEF QueryInit, QueryTyped, NoTask, Tasks, Ats
<1>3. JobsPlaced
  BY <1>1 DEF QueryInit, JobsPlaced
<1>4. ASSUME NEW q \in Queries PROVE QueryOk(q)
  <2>1. Jobs(q) = <<>>
    BY DEF Jobs, QueryInit, Envs
  <2>2. Said(<<>>, q) = {} /\ Orderly(<<>>, q) /\ Owned(<<>>, q) = <<>>
    BY <1>1 DEF Said, Orderly, Owned
  <2>3. /\ call[q] = "idle" /\ task[q] = NoTask /\ queriers = {} /\ got[q] = <<>> /\ told[q] = "no"
        /\ found[q] = {} /\ silent[q] = {} /\ cut[q] = FALSE /\ lost[q] = FALSE
    BY DEF QueryInit
  <2>4. Counted(q)
    BY <2>1, <2>2, <2>3, Nothing DEF Counted, Flow, NoTask
  <2>5. Places(q)
    BY <2>1, <2>2, <2>3 DEF Places, NoTask
  <2>6. Caller(q) /\ Asks(q)
    BY <2>3 DEF Caller, Asks, NoTask
  <2>7. Final(q)
    BY <2>1, <2>2, <2>3 DEF Final, Announced
  <2> QED
    BY <2>4, <2>5, <2>6, <2>7 DEF QueryOk
<1> QED
  BY <1>2, <1>3, <1>4 DEF QueryInv

(* A query that has got no further than its call.                          *)
LEMMA CallMoves ==
    ASSUME QueryInv, NEW q \in Queries, NEW c \in {"asking", "refused", "waiting"},
           NEW t \in Tasks, t = task[q] \/ (task[q].at = "none" /\ t = [task[q] EXCEPT !.at = "queued"]),
           c # "refused" => call[q] # "refused",
           call' = [call EXCEPT ![q] = c], task' = [task EXCEPT ![q] = t],
           \/ UNCHANGED <<queriers, live>> /\ (c = "waiting" => call[q] = "waiting" \/ EnvOf[q] = Native)
           \/ EnvOf[q] # Native /\ queriers' = queriers \cup {q} /\ live' = live \cup {EnvOf[q]},
           UNCHANGED <<jobs, got, told, found, silent, cut, lost>>
    PROVE  QueryInv'
<1>1. QueryTyped /\ JobsPlaced /\ QueryOk(q) /\ task[q] \in Tasks
  BY DEF QueryInv, QueryTyped
<1>2. EnvOf[q] # Native => EnvOf[q] \in Envs
  BY DEF Envs
<1>3. QueryTyped' /\ JobsPlaced'
  BY <1>1, <1>2 DEF QueryTyped, JobsPlaced
<1>4. \A p \in Queries \ {q} : Aside(p)
  <2> SUFFICES ASSUME NEW p \in Queries \ {q} PROVE Aside(p)
    OBVIOUS
  <2>1. Jobs(p)' = Jobs(p)
    BY DEF Jobs
  <2>2. call'[p] = call[p] /\ task'[p] = task[p]
    BY <1>1 DEF QueryTyped
  <2> QED
    BY <2>1, <2>2 DEF Aside
<1>5. /\ call'[q] = c /\ task'[q] = t /\ t.out = task[q].out /\ t.todo = task[q].todo /\ t.failed = task[q].failed
      /\ t.at = task[q].at \/ (task[q].at = "none" /\ t.at = "queued")
      /\ Jobs(q)' = Jobs(q)
  <2>1. call'[q] = c /\ task'[q] = t
    BY <1>1 DEF QueryTyped
  <2>2. Jobs(q)' = Jobs(q)
    BY DEF Jobs
  <2>3. /\ t.out = task[q].out /\ t.todo = task[q].todo /\ t.failed = task[q].failed
        /\ t.at = task[q].at \/ (task[q].at = "none" /\ t.at = "queued")
    BY <1>1 DEF Tasks
  <2> QED
    BY <2>1, <2>2, <2>3
<1>6. Counted(q)'
  BY <1>1, <1>5 DEF QueryOk, Counted
<1>7. Places(q)'
  BY <1>1, <1>5 DEF QueryOk, Places
<1>8. Caller(q)'
  BY <1>1, <1>2, <1>5 DEF QueryOk, Caller
<1>9. Asks(q)'
  BY <1>1, <1>5 DEF QueryOk, Asks, Left, Done
<1>10. Final(q)'
  BY <1>1, <1>5 DEF QueryOk, Final, Announced, Done
<1> QED
  BY <1>3, <1>4, <1>6, <1>7, <1>8, <1>9, <1>10, OneMoves DEF QueryOk

LEMMA SameTask ==
    ASSUME QueryInv, NEW q \in Queries
    PROVE  task[q] \in Tasks /\ task = [task EXCEPT ![q] = task[q]] /\ [task[q] EXCEPT !.at = "queued"] \in Tasks
<1>1. task \in [Queries -> Tasks]
  BY DEF QueryInv, QueryTyped
<1>2. task[q] \in Tasks /\ task = [task EXCEPT ![q] = task[q]]
  BY <1>1
<1>3. [task[q] EXCEPT !.at = "queued"] \in Tasks
  BY <1>2 DEF Tasks, Ats
<1> QED
  BY <1>2, <1>3

LEMMA CallSteps ==
    ASSUME QueryInv, NEW q \in Queries,
           AskService(q) \/ (\E at \in {"queued", "refused"} : Answer(q, at)) \/ CallAccepted(q) \/ CallFails(q)
    PROVE  QueryInv'
<1>1. task[q] \in Tasks /\ task = [task EXCEPT ![q] = task[q]] /\ call = [call EXCEPT ![q] = call[q]]
  BY SameTask DEF QueryInv, QueryTyped
<1>2. CASE AskService(q)
  <2>1. PICK c \in {"asking", "refused"} : call' = [call EXCEPT ![q] = c]
    BY <1>2 DEF AskService
  <2>2. call[q] = "idle" /\ UNCHANGED <<task, jobs, queriers, live, got, told, found, silent, cut, lost>>
    BY <1>2 DEF AskService
  <2> QED
    BY <1>1, <2>1, <2>2, CallMoves
<1>3. ASSUME NEW at \in {"queued", "refused"}, Answer(q, at) PROVE QueryInv'
  <2>1. /\ call[q] = "asking" /\ task[q].at = "none"
        /\ UNCHANGED <<jobs, queriers, live, got, told, found, silent, cut, lost>>
    BY <1>3 DEF Answer
  <2>2. CASE at = "refused"
    <3>1. call' = [call EXCEPT ![q] = "refused"] /\ task' = task
      BY <1>3, <2>2 DEF Answer
    <3> QED
      BY <1>1, <2>1, <3>1, CallMoves
  <2>3. CASE at # "refused"
    <3> DEFINE t == [task[q] EXCEPT !.at = "queued"]
    <3>1. t \in Tasks
      BY SameTask
    <3>2. task' = [task EXCEPT ![q] = t] /\ call' = [call EXCEPT ![q] = "asking"]
      BY <1>1, <1>3, <2>1, <2>3 DEF Answer
    <3> HIDE DEF t
    <3>3. t = [task[q] EXCEPT !.at = "queued"]
      BY DEF t
    <3> QED
      BY <2>1, <3>1, <3>2, <3>3, CallMoves
  <2> QED
    BY <2>2, <2>3
<1>4. CASE CallAccepted(q)
  <2>1. /\ call[q] = "asking" /\ call' = [call EXCEPT ![q] = "waiting"]
        /\ UNCHANGED <<task, jobs, got, told, found, silent, cut, lost>>
        /\ \/ EnvOf[q] = Native /\ UNCHANGED <<queriers, live>>
           \/ EnvOf[q] # Native /\ queriers' = queriers \cup {q} /\ live' = live \cup {EnvOf[q]}
    BY <1>4 DEF CallAccepted, AddDataCallback
  <2> QED
    BY <1>1, <2>1, CallMoves
<1>5. CASE CallFails(q)
  <2>1. /\ call' = [call EXCEPT ![q] = "refused"]
        /\ UNCHANGED <<task, jobs, queriers, live, got, told, found, silent, cut, lost>>
    BY <1>5 DEF CallFails
  <2> QED
    BY <1>1, <2>1, CallMoves
<1> QED
  BY <1>2, <1>3, <1>4, <1>5

(* A task that asks its rulers: what they give goes in chunks.             *)
LEMMA TaskWorks ==
    ASSUME QueryInv, NEW q \in Queries, NEW t \in Tasks,
           NEW S \in SUBSET Things, IsFiniteSet(S), S \cap found[q] = {}, NEW W \in SUBSET Events,
           task[q].at \in {"queued", "guard", "collector", "rulers"}, task[q].out = <<>>,
           t.at \in {"guard", "collector", "rulers"},
           t.out = Chunks(S) \/ (S = {} /\ t.out = <<>>), t.at = "guard" => t.out = <<>>,
           task' = [task EXCEPT ![q] = t],
           found' = [found EXCEPT ![q] = found[q] \cup S], silent' = [silent EXCEPT ![q] = silent[q] \cup W],
           UNCHANGED <<call, jobs, queriers, live, got, told, cut, lost>>,
           Asks(q)'
    PROVE  QueryInv'
<1>1. QueryTyped /\ JobsPlaced /\ QueryOk(q)
  BY DEF QueryInv
<1>2. QueryTyped' /\ JobsPlaced'
  <2>1. found[q] \cup S \in SUBSET Things /\ silent[q] \cup W \in SUBSET Events
    BY <1>1 DEF QueryTyped
  <2> QED
    BY <1>1, <2>1 DEF QueryTyped, JobsPlaced
<1>3. \A p \in Queries \ {q} : Aside(p)
  <2> SUFFICES ASSUME NEW p \in Queries \ {q} PROVE Aside(p)
    OBVIOUS
  <2>1. Jobs(p)' = Jobs(p)
    BY DEF Jobs
  <2>2. task'[p] = task[p] /\ found'[p] = found[p] /\ silent'[p] = silent[p]
    BY <1>1 DEF QueryTyped
  <2> QED
    BY <2>1, <2>2 DEF Aside
<1>4. /\ task'[q] = t /\ found'[q] = found[q] \cup S /\ Jobs(q)' = Jobs(q)
      /\ Jobs(q) \in Seq(Messages) /\ got[q] \in Seq(Things)
  BY <1>1, JobsType DEF QueryTyped, Jobs
<1>5. Counted(q)'
  <2> SUFFICES ASSUME call[q] # "refused", ~cut[q], ~lost[q]
               PROVE  Flow(got[q], Owned(Jobs(q), q), t.out, found[q] \cup S)
    BY <1>4 DEF Counted
  <2>1. Flow(got[q], Owned(Jobs(q), q), <<>>, found[q])
    BY <1>1 DEF QueryOk, Counted
  <2>2. Owned(Jobs(q), q) \in Seq(Seq(Things))
    BY <1>4, OwnedType
  <2>3. CASE t.out = Chunks(S)
    <3>1. Flow(got[q], Owned(Jobs(q), q), Chunks(S), found[q] \cup S)
      BY <1>4, <2>1, <2>2, FlowMade
    <3> QED
      BY <2>3, <3>1
  <2>4. CASE S = {} /\ t.out = <<>>
    <3>1. found[q] \cup S = found[q]
      BY <2>4
    <3> QED
      BY <2>1, <2>4, <3>1
  <2> QED
    BY <2>3, <2>4
<1>6. Places(q)'
  BY <1>1, <1>4 DEF QueryOk, Places
<1>7. Caller(q)'
  BY <1>1 DEF QueryOk, Caller
<1>8. Final(q)'
  BY <1>1, <1>4 DEF QueryOk, Final, Announced, Places
<1> QED
  BY <1>2, <1>3, <1>5, <1>6, <1>7, <1>8, OneMoves DEF QueryOk

(* A task that ends with no word.                                          *)
LEMMA TaskEnds ==
    ASSUME QueryInv, NEW q \in Queries, task[q].at = "queued",
           task' = [task EXCEPT ![q].at = "ended"], lost' = [lost EXCEPT ![q] = TRUE],
           UNCHANGED <<call, jobs, queriers, live, got, told, found, silent, cut>>
    PROVE  QueryInv'
<1>1. QueryTyped /\ JobsPlaced /\ QueryOk(q) /\ task[q] \in Tasks
  BY DEF QueryInv, QueryTyped
<1>2. QueryTyped' /\ JobsPlaced'
  BY <1>1 DEF QueryTyped, JobsPlaced, Tasks, Ats
<1>3. \A p \in Queries \ {q} : Aside(p)
  <2> SUFFICES ASSUME NEW p \in Queries \ {q} PROVE Aside(p)
    OBVIOUS
  <2>1. Jobs(p)' = Jobs(p)
    BY DEF Jobs
  <2>2. task'[p] = task[p] /\ lost'[p] = lost[p]
    BY <1>1 DEF QueryTyped
  <2> QED
    BY <2>1, <2>2 DEF Aside
<1>4. /\ task'[q].at = "ended" /\ task'[q].out = task[q].out /\ task'[q].todo = task[q].todo
      /\ lost'[q] = TRUE /\ Jobs(q)' = Jobs(q)
  BY <1>1 DEF QueryTyped, Tasks, Jobs
<1>5. Counted(q)' /\ Caller(q)'
  BY <1>1, <1>4 DEF QueryOk, Counted, Caller
<1>6. Places(q)'
  BY <1>1, <1>4 DEF QueryOk, Places
<1>7. Asks(q)'
  BY <1>1, <1>4 DEF QueryOk, Asks
<1>8. Final(q)'
  BY <1>1, <1>4 DEF QueryOk, Final, Announced, Places
<1> QED
  BY <1>2, <1>3, <1>5, <1>6, <1>7, <1>8, OneMoves DEF QueryOk

(* The rulers of a query, and what they give.                              *)
LEMMA RulersType ==
    ASSUME NEW q \in Queries
    PROVE  /\ Asked(q) \in SUBSET Events /\ IsFiniteSet(Asked(q))
           /\ Api[q] \in {"event", "byId", "request"} /\ (EnvOf[q] # Native => Api[q] = "event")
<1>1. /\ Rulers[q] \subseteq Events /\ IsFiniteSet(Rulers[q]) /\ NoEvent \in Events
      /\ Api[q] \in {"event", "byId", "request"} /\ (EnvOf[q] # Native => Api[q] = "event")
  BY QueryAssumption
<1>2. Asked(q) \in SUBSET Events
  BY <1>1 DEF Asked, ParseSecurityEventRuler
<1>3. IsFiniteSet(Asked(q))
  <2>1. IsFiniteSet(Rulers[q] \cup {NoEvent})
    BY <1>1, FS_AddElement
  <2>2. Asked(q) \subseteq Rulers[q] \cup {NoEvent}
    BY DEF Asked, ParseSecurityEventRuler
  <2> QED
    BY <2>1, <2>2, FS_Subset
<1> QED
  BY <1>1, <1>2, <1>3

LEMMA ItemsType ==
    ASSUME NEW e \in Events
    PROVE  Items(e) \in SUBSET Things /\ IsFiniteSet(Items(e)) /\ \A x \in Items(e) : x[1] = e
<1>1. Yield[e] \in Nat
  BY QueryAssumption
<1>2. Items(e) \in SUBSET Things /\ \A x \in Items(e) : x[1] = e
  BY <1>1 DEF Items, Things
<1>3. IsFiniteSet(1 .. Yield[e])
  BY <1>1, FS_Interval
<1>4. [k \in 1 .. Yield[e] |-> <<e, k>>] \in Surjection(1 .. Yield[e], Items(e))
  BY DEF Surjection, Items
<1>5. IsFiniteSet(Items(e))
  BY <1>3, <1>4, FS_Surjection
<1> QED
  BY <1>2, <1>5

LEMMA RowItemsType ==
    ASSUME NEW rows, rows \subseteq Rows, IsFiniteSet(rows)
    PROVE  /\ RowItems(rows) \in SUBSET Things /\ IsFiniteSet(RowItems(rows))
           /\ \A x \in RowItems(rows) : \E r \in rows : x[1] = r.e
<1>1. RowItems(rows) \in SUBSET Things /\ \A x \in RowItems(rows) : \E r \in rows : x[1] = r.e
  BY DEF RowItems, Things, Rows
<1>2. [r \in rows |-> <<r.e, r.id>>] \in Surjection(rows, RowItems(rows))
  BY DEF Surjection, RowItems
<1>3. IsFiniteSet(RowItems(rows))
  BY <1>2, FS_Surjection
<1> QED
  BY <1>1, <1>3

LEMMA StoreReads ==
    ASSUME StoreTyped, NEW ids, NEW q, NEW rows \in ByStore(ids, q)
    PROVE  rows \subseteq Rows /\ IsFiniteSet(rows) /\ \A r \in rows : r.e \in ids
<1>1. view.rows \subseteq Rows /\ IsFiniteSet(view.rows)
  BY DEF StoreTyped, Images
<1>2. rows \subseteq view.rows /\ \A r \in rows : r.e \in ids
  BY DEF ByStore, QueryEventBase, ReadRows, Matching, WhereClause
<1>3. IsFiniteSet(rows)
  BY <1>1, <1>2, FS_Subset
<1> QED
  BY <1>1, <1>2, <1>3

(* Each kind of ruler is asked at one place.                               *)
LEMMA Kinds ==
    ASSUME NEW q \in Queries
    PROVE  /\ OfKind(q, "guard") \subseteq Asked(q) /\ OfKind(q, "collector") \subseteq Asked(q)
           /\ ClassifyRulers(q).db \subseteq Asked(q)
           /\ \A e \in OfKind(q, "guard") : Kind[e] = "guard"
           /\ \A e \in OfKind(q, "collector") : Kind[e] = "collector"
           /\ \A e \in ClassifyRulers(q).db : Kind[e] \notin {"unknown", "guard", "collector"}
           /\ Asked(q) \ (ClassifyRulers(q).db \cup OfKind(q, "guard") \cup OfKind(q, "collector"))
                = ClassifyRulers(q).invalid
           /\ ClassifyRulers(q).guard = OfKind(q, "guard")
           /\ ClassifyRulers(q).collector = OfKind(q, "collector")
           /\ Asked(q) \ InGroup \subseteq ClassifyRulers(q).invalid
           /\ ClassifyRulers(q).invalid \subseteq Asked(q)
  BY DEF OfKind, ClassifyRulers

(* A batch fails on rulers it was given, or is silent of them.             *)
LEMMA BatchAnswers ==
    ASSUME NEW S \in SUBSET Events,
           NEW o \in DataCollectionQueryBatch(S) \cup CollectorManagerQueryBatch(S)
    PROVE  o.failed \subseteq S /\ o.unheard \subseteq S
<1>1. ASSUME NEW z \in DataCollectionQueryBatch(S)
      PROVE  z.failed \subseteq S /\ z.unheard \subseteq S
  <2>1. PICK f : /\ \A lib \in SoPaths(S) : f[lib] \in LoadAndQueryBySoPath(lib)
                 /\ z.failed = UNION {f[lib].failed : lib \in SoPaths(S)}
                 /\ z.unheard = UNION {f[lib].unheard : lib \in SoPaths(S)}
    BY DEF DataCollectionQueryBatch
  <2>2. \A lib \in SoPaths(S) : lib \subseteq S
    BY DEF SoPaths
  <2>3. ASSUME NEW lib \in SoPaths(S)
        PROVE  f[lib].failed \subseteq lib /\ f[lib].unheard \subseteq lib
    BY <2>1 DEF LoadAndQueryBySoPath, Heard, Unheard
  <2> QED
    BY <2>1, <2>2, <2>3
<1>2. ASSUME NEW z \in CollectorManagerQueryBatch(S)
      PROVE  z.failed \subseteq S /\ z.unheard \subseteq S
  <2>1. z \in DataCollectionQueryBatch(S) \/ \E b : z = Unheard(S, b)
    BY DEF CollectorManagerQueryBatch
  <2> QED
    BY <1>1, <2>1 DEF Unheard
<1> QED
  BY <1>1, <1>2

LEMMA AnsweredType ==
    ASSUME NEW S \in SUBSET Events, IsFiniteSet(S), NEW o
    PROVE  /\ Answered(S, o) \in SUBSET Things /\ IsFiniteSet(Answered(S, o))
           /\ \A x \in Answered(S, o) : x[1] \in S
           /\ \A e \in S \ (o.failed \cup o.unheard) : Items(e) \subseteq Answered(S, o)
<1> DEFINE A == S \ (o.failed \cup o.unheard)
           I == {Items(e) : e \in A}
<1>1. IsFiniteSet(A)
  BY FS_Difference
<1>2. [e \in A |-> Items(e)] \in Surjection(A, I)
  BY DEF Surjection
<1>3. IsFiniteSet(I)
  BY <1>1, <1>2, FS_Surjection
<1>4. \A z \in I : IsFiniteSet(z)
  BY ItemsType
<1>5. IsFiniteSet(UNION I)
  BY <1>3, <1>4, FS_UNION
<1>6. Answered(S, o) = UNION I
  BY DEF Answered
<1>7. \A e \in A : Items(e) \in SUBSET Things /\ \A x \in Items(e) : x[1] = e
  BY ItemsType
<1> QED
  BY <1>5, <1>6, <1>7

(* The batches of querySecurityEvent: the rulers of a kind are asked, and  *)
(* leave what is left to ask.                                              *)
LEMMA TakeStep ==
    ASSUME QueryInv, NEW q \in Queries, NEW kind, NEW next,
           \/ kind = "guard" /\ next = "collector" /\ task[q].at = "guard"
           \/ kind = "collector" /\ next = "rulers" /\ task[q].at = "collector" /\ task[q].out = <<>>,
           NEW o \in DataCollectionQueryBatch(OfKind(q, kind)) \cup CollectorManagerQueryBatch(OfKind(q, kind)),
           Take(q, OfKind(q, kind), o, next)
    PROVE  QueryInv'
<1> DEFINE S == OfKind(q, kind)
           A == Answered(S, o)
           c == Chunks(A)
           t == [task[q] EXCEPT !.at = next, !.failed = @ \cup o.failed, !.out = c]
<1>1. QueryTyped /\ QueryOk(q) /\ task[q] \in Tasks
  BY DEF QueryInv, QueryTyped
<1>2. S \in SUBSET Events /\ IsFiniteSet(S) /\ S \subseteq Asked(q) /\ \A e \in S : Kind[e] = kind
  <2>1. S \subseteq Asked(q) /\ \A e \in S : Kind[e] = kind
    BY DEF OfKind
  <2> QED
    BY <2>1, RulersType, FS_Subset
<1>3. o.failed \subseteq S /\ o.unheard \subseteq S
  BY <1>2, BatchAnswers
<1>4. /\ A \in SUBSET Things /\ IsFiniteSet(A) /\ \A x \in A : x[1] \in S
      /\ \A e \in S \ (o.failed \cup o.unheard) : Items(e) \subseteq A
  BY <1>2, AnsweredType
<1>5. task[q].out = <<>> /\ Api[q] = "event" /\ task[q].todo = ClassifyRulers(q).db
  BY <1>1 DEF QueryOk, Asks, Places
<1>6. /\ UNCHANGED <<call, jobs, queriers, live, got, told, cut, lost>>
      /\ found' = [found EXCEPT ![q] = found[q] \cup A]
      /\ silent' = [silent EXCEPT ![q] = silent[q] \cup o.unheard]
  BY DEF Take
<1>7. /\ t \in Tasks /\ task' = [task EXCEPT ![q] = t]
      /\ t.at = next /\ t.failed = task[q].failed \cup o.failed /\ t.todo = task[q].todo /\ t.out = c
  <2>1. c \in Seq(Seq(Things))
    BY <1>4, Chunked
  <2>2. task' = [task EXCEPT ![q] = t]
    BY DEF Take
  <2>3. task[q].failed \cup o.failed \in SUBSET Events /\ next \in Ats
    BY <1>1, <1>2, <1>3 DEF Tasks, Ats
  <2> HIDE DEF c, A, S
  <2> QED
    BY <1>1, <2>1, <2>2, <2>3 DEF Tasks
<1> HIDE DEF c, t
<1>8. S \subseteq Left(q) /\ A \cap found[q] = {}
  <2>1. S \subseteq Left(q)
    BY DEF Left
  <2>2. \A x \in found[q] : x[1] \notin Left(q)
    BY <1>1, <1>5 DEF QueryOk, Asks
  <2> QED
    BY <1>4, <2>1, <2>2
<1>9. /\ task'[q].at = next /\ task'[q].failed = task[q].failed \cup o.failed /\ task'[q].todo = task[q].todo
      /\ found'[q] = found[q] \cup A /\ silent'[q] = silent[q] \cup o.unheard
  BY <1>1, <1>6, <1>7 DEF QueryTyped
<1>10. Left(q)' = Left(q) \ S
  <2>1. \A e \in S : e \notin ClassifyRulers(q).db /\ e \notin OfKind(q, IF kind = "guard" THEN "collector" ELSE "guard")
    BY <1>2, Kinds
  <2>2. Left(q)' = task[q].todo \cup (IF next = "collector" THEN OfKind(q, "collector") ELSE {})
    BY <1>9 DEF Left
  <2>3. Left(q) = S \cup Left(q)'
    BY <2>2 DEF Left
  <2> QED
    BY <1>5, <2>1, <2>2, <2>3
<1>11. Asks(q)'
  <2>1. /\ \A e \in silent[q] : Kind[e] \in {"guard", "collector"}
        /\ \A e \in Asked(q) \ Left(q) : Done(q, e)
        /\ \A x \in found[q] : x[1] \notin Left(q)
        /\ Left(q) \subseteq Asked(q) /\ Asked(q) \ InGroup \subseteq task[q].failed
    BY <1>1, <1>5 DEF QueryOk, Asks
  <2>2. \A e \in silent'[q] : Kind[e] \in {"guard", "collector"}
    BY <1>2, <1>3, <1>9, <2>1
  <2>3. ASSUME NEW e \in Asked(q) \ Left(q)' PROVE Done(q, e)'
    <3>1. CASE e \in S
      <4>1. CASE e \in o.failed \cup o.unheard
        BY <1>9, <4>1 DEF Done
      <4>2. CASE e \notin o.failed \cup o.unheard
        BY <1>2, <1>4, <1>9, <3>1, <4>2 DEF Done
      <4> QED
        BY <4>1, <4>2
    <3>2. CASE e \notin S
      <4>1. Done(q, e)
        BY <1>10, <2>1, <2>3, <3>2
      <4> QED
        BY <1>9, <4>1 DEF Done
    <3> QED
      BY <3>1, <3>2
  <2>4. \A x \in found'[q] : x[1] \notin Left(q)'
    BY <1>4, <1>9, <1>10, <2>1
  <2>5. Left(q)' \subseteq Asked(q) /\ Asked(q) \ InGroup \subseteq task'[q].failed
    BY <1>9, <1>10, <2>1
  <2>6. next \in {"collector", "rulers"} /\ task'[q].at = next /\ task'[q].todo = task[q].todo
    BY <1>9
  <2>7. Asked(q)' = Asked(q) /\ ClassifyRulers(q)' = ClassifyRulers(q)
    BY DEF Asked, ClassifyRulers, OfKind
  <2> QED
    BY <1>5, <2>2, <2>3, <2>4, <2>5, <2>6, <2>7 DEF Asks
<1>12. task[q].at \in {"guard", "collector"} /\ o.unheard \in SUBSET Events /\ next \in {"collector", "rulers"}
  BY <1>2, <1>3
<1>13. c = Chunks(A)
  BY DEF c
<1> HIDE DEF S, A
<1> QED
  BY <1>4, <1>5, <1>6, <1>7, <1>8, <1>11, <1>12, <1>13, TaskWorks

(* The tasks that begin.                                                   *)
LEMMA HandleStep ==
    ASSUME QueryInv, NEW q \in Queries, HandleQuerySecurityEvent(q) \/ HandleQuerySecurityEventById(q)
    PROVE  QueryInv'
<1>1. /\ QueryTyped /\ QueryOk(q) /\ task[q] \in Tasks /\ task[q].at = "queued"
      /\ silent[q] \in SUBSET Events
  BY DEF QueryInv, QueryTyped, HandleQuerySecurityEvent, HandleQuerySecurityEventById
<1>2. task[q].out = <<>> /\ found[q] = {}
  BY <1>1 DEF QueryOk, Places
<1>3. CASE HandleQuerySecurityEvent(q) /\ Group[q] = ""
  <2>1. /\ task' = [task EXCEPT ![q].at = "ended"] /\ lost' = [lost EXCEPT ![q] = TRUE]
        /\ UNCHANGED <<call, jobs, queriers, live, got, told, found, silent, cut>>
    BY <1>3 DEF HandleQuerySecurityEvent
  <2> QED
    BY <1>1, <2>1, TaskEnds
<1>4. ASSUME NEW t \in Tasks, t.at \in {"guard", "rulers"}, t.out = <<>>,
             task' = [task EXCEPT ![q] = t],
             UNCHANGED <<call, jobs, queriers, live, got, told, found, silent, cut, lost>>,
             Asks(q)'
      PROVE  QueryInv'
  <2>1. IsFiniteSet({}) /\ {} \in SUBSET Things /\ {} \in SUBSET Events /\ {} \cap found[q] = {}
    BY FS_EmptySet
  <2>2. found' = [found EXCEPT ![q] = found[q] \cup {}] /\ silent' = [silent EXCEPT ![q] = silent[q] \cup {}]
    BY <1>1, <1>4 DEF QueryTyped
  <2> QED
    BY <1>1, <1>2, <1>4, <2>1, <2>2, TaskWorks
<1>5. CASE HandleQuerySecurityEvent(q) /\ Group[q] # ""
  <2> DEFINE c == ClassifyRulers(q)
             t == [task[q] EXCEPT !.at = "guard", !.failed = c.invalid, !.todo = c.db]
  <2>1. /\ Api[q] = "event" /\ UNCHANGED <<call, jobs, queriers, live, got, told, found, silent, cut, lost>>
        /\ task' = [task EXCEPT ![q] = t]
    BY <1>5 DEF HandleQuerySecurityEvent
  <2>2. Asked(q) \in SUBSET Events /\ c.invalid \subseteq Asked(q) /\ c.db \subseteq Asked(q)
    BY RulersType, Kinds
  <2> HIDE DEF c
  <2>3. t \in Tasks /\ t.at = "guard" /\ t.failed = c.invalid /\ t.todo = c.db /\ t.out = <<>>
    BY <1>1, <1>2, <2>2 DEF Tasks, Ats
  <2> HIDE DEF t
  <2>4. task'[q] = t
    BY <1>1, <2>1 DEF QueryTyped
  <2>5. Asks(q)'
    <3>1. Left(q)' = c.db \cup OfKind(q, "guard") \cup OfKind(q, "collector")
      BY <2>3, <2>4 DEF Left, c
    <3>2. \A e \in Asked(q) \ Left(q)' : Done(q, e)'
      BY <2>3, <2>4, <3>1, Kinds DEF Done, c
    <3>3. found'[q] = {} /\ Left(q)' \subseteq Asked(q) /\ Asked(q) \ InGroup \subseteq t.failed
      BY <1>2, <2>1, <2>3, <3>1, Kinds DEF c
    <3>4. Asked(q)' = Asked(q) /\ ClassifyRulers(q)' = ClassifyRulers(q)
      BY DEF Asked, ClassifyRulers, OfKind
    <3>5. \A e \in silent'[q] : Kind[e] \in {"guard", "collector"}
      BY <1>1, <2>1 DEF QueryOk, Asks
    <3> QED
      BY <2>1, <2>3, <2>4, <3>2, <3>3, <3>4, <3>5 DEF Asks, c
  <2> QED
    BY <1>4, <2>1, <2>3, <2>5
<1>6. CASE HandleQuerySecurityEventById(q)
  <2> DEFINE t == [task[q] EXCEPT !.at = "rulers", !.failed = Asked(q) \ ById, !.todo = Asked(q) \cap ById]
  <2>1. /\ Api[q] = "byId" /\ UNCHANGED <<call, jobs, queriers, live, got, told, found, silent, cut, lost>>
        /\ task' = [task EXCEPT ![q] = t]
    BY <1>6 DEF HandleQuerySecurityEventById
  <2>2. Asked(q) \in SUBSET Events
    BY RulersType
  <2>3. /\ t \in Tasks /\ t.at = "rulers" /\ t.failed = Asked(q) \ ById /\ t.todo = Asked(q) \cap ById
        /\ t.out = <<>>
    BY <1>1, <1>2, <2>2 DEF Tasks, Ats
  <2> HIDE DEF t
  <2>4. task'[q] = t
    BY <1>1, <2>1 DEF QueryTyped
  <2>5. Asks(q)'
    <3>1. Left(q)' = Asked(q) \cap ById
      BY <2>3, <2>4 DEF Left
    <3>2. \A e \in Asked(q) \ Left(q)' : Done(q, e)'
      BY <2>3, <2>4, <3>1 DEF Done
    <3>3. found'[q] = {} /\ Asked(q)' = Asked(q)
      BY <1>2, <2>1 DEF Asked
    <3>4. \A e \in silent'[q] : Kind[e] \in {"guard", "collector"}
      BY <1>1, <2>1 DEF QueryOk, Asks
    <3> QED
      BY <2>1, <2>3, <2>4, <3>1, <3>2, <3>3, <3>4 DEF Asks
  <2> QED
    BY <1>4, <2>1, <2>3, <2>5
<1> QED
  BY <1>3, <1>5, <1>6

(* One ruler more is asked, and fails or gives what it has.                *)
LEMMA RulerStep ==
    ASSUME StoreTyped, QueryInv, NEW q \in Queries, QueryEventByRuler(q)
    PROVE  QueryInv'
<1>1. /\ QueryTyped /\ QueryOk(q) /\ task[q] \in Tasks /\ task[q].at = "rulers" /\ task[q].out = <<>>
      /\ UNCHANGED <<call, jobs, queriers, live, got, told, silent, cut, lost>>
  BY DEF QueryInv, QueryTyped, QueryEventByRuler
<1>2. PICK e \in task[q].todo :
         \/ RulerFails(q, e)
         \/ /\ Kind[e] \in {"guard", "collector"}
            /\ RulerFails(q, e) \/ RulerGives(q, e, Items(e))
         \/ /\ Kind[e] \notin {"unknown", "guard", "collector"}
            /\ \E rows \in ByStore({e}, q) : RulerGives(q, e, RowItems(rows))
  BY DEF QueryEventByRuler
<1>3. /\ Api[q] # "request" /\ Left(q) = task[q].todo /\ e \in Asked(q) /\ e \in Events
      /\ \A z \in silent[q] : Kind[z] \in {"guard", "collector"}
      /\ \A z \in Asked(q) \ Left(q) : Done(q, z)
      /\ \A x \in found[q] : x[1] \notin Left(q)
      /\ Left(q) \subseteq Asked(q)
      /\ Api[q] = "event" => Asked(q) \ InGroup \subseteq task[q].failed
  <2>1. Api[q] # "request" /\ Left(q) = task[q].todo
    BY <1>1 DEF QueryOk, Asks, Left
  <2>2. e \in Events
    BY <1>1 DEF Tasks
  <2> QED
    BY <1>1, <2>1, <2>2 DEF QueryOk, Asks
<1>4. ASSUME NEW t \in Tasks, t.at = "rulers", t.todo = task[q].todo \ {e}, task[q].failed \subseteq t.failed,
             NEW S \in SUBSET Things, IsFiniteSet(S), \A x \in S : x[1] = e,
             t.out = Chunks(S) \/ (S = {} /\ t.out = <<>>),
             e \in t.failed \/ (Kind[e] # "unknown" /\ (Kind[e] \in {"guard", "collector"} => Items(e) \subseteq S)),
             task' = [task EXCEPT ![q] = t], found' = [found EXCEPT ![q] = found[q] \cup S]
      PROVE  QueryInv'
  <2>1. task'[q] = t /\ found'[q] = found[q] \cup S /\ silent'[q] = silent[q]
    BY <1>1, <1>4 DEF QueryTyped
  <2>2. S \cap found[q] = {}
    BY <1>3, <1>4
  <2>3. Left(q)' = Left(q) \ {e}
    BY <1>3, <1>4, <2>1 DEF Left
  <2>4. ASSUME NEW z \in Asked(q) \ Left(q)' PROVE Done(q, z)'
    <3>1. CASE z = e
      BY <1>4, <2>1, <3>1 DEF Done
    <3>2. CASE z # e
      <4>1. Done(q, z)
        BY <1>3, <2>3, <2>4, <3>2
      <4> QED
        BY <1>4, <2>1, <4>1 DEF Done
    <3> QED
      BY <3>1, <3>2
  <2>5. \A x \in found'[q] : x[1] \notin Left(q)'
    BY <1>3, <1>4, <2>1, <2>3
  <2>6. Asks(q)'
    <3>1. Asked(q)' = Asked(q)
      BY DEF Asked
    <3> QED
      BY <1>3, <1>4, <2>1, <2>3, <2>4, <2>5, <3>1 DEF Asks
  <2>7. {} \in SUBSET Events /\ silent' = [silent EXCEPT ![q] = silent[q] \cup {}]
    BY <1>1 DEF QueryTyped
  <2> QED
    BY <1>1, <1>4, <2>2, <2>6, <2>7, TaskWorks
<1>5. CASE RulerFails(q, e)
  <2> DEFINE t == [task[q] EXCEPT !.todo = @ \ {e}, !.failed = @ \cup {e}]
  <2>1. task' = [task EXCEPT ![q] = t] /\ found' = found
    BY <1>5 DEF RulerFails
  <2>2. /\ t \in Tasks /\ t.at = "rulers" /\ t.todo = task[q].todo \ {e} /\ t.failed = task[q].failed \cup {e}
        /\ t.out = <<>>
    BY <1>1, <1>3 DEF Tasks
  <2> HIDE DEF t
  <2>3. {} \in SUBSET Things /\ IsFiniteSet({}) /\ found' = [found EXCEPT ![q] = found[q] \cup {}]
    BY <1>1, <2>1, FS_EmptySet DEF QueryTyped
  <2> QED
    BY <1>4, <2>1, <2>2, <2>3
<1>6. ASSUME NEW S \in SUBSET Things, IsFiniteSet(S), \A x \in S : x[1] = e, RulerGives(q, e, S),
             Kind[e] # "unknown" /\ (Kind[e] \in {"guard", "collector"} => Items(e) \subseteq S)
      PROVE  QueryInv'
  <2> DEFINE c == Chunks(S)
             t == [task[q] EXCEPT !.todo = @ \ {e}, !.out = c]
  <2>0. c \in Seq(Seq(Things))
    BY <1>6, Chunked
  <2>1. task' = [task EXCEPT ![q] = t] /\ found' = [found EXCEPT ![q] = found[q] \cup S]
    BY <1>6 DEF RulerGives
  <2> HIDE DEF c
  <2>2. /\ t \in Tasks /\ t.at = "rulers" /\ t.todo = task[q].todo \ {e} /\ t.failed = task[q].failed
        /\ t.out = c
    BY <1>1, <1>3, <2>0 DEF Tasks
  <2> HIDE DEF t
  <2> QED
    BY <1>4, <1>6, <2>1, <2>2 DEF c
<1>7. CASE Kind[e] \in {"guard", "collector"} /\ RulerGives(q, e, Items(e))
  <2>1. Items(e) \in SUBSET Things /\ IsFiniteSet(Items(e)) /\ \A x \in Items(e) : x[1] = e
    BY <1>3, ItemsType
  <2> QED
    BY <1>6, <1>7, <2>1
<1>8. ASSUME Kind[e] \notin {"unknown", "guard", "collector"},
             NEW rows \in ByStore({e}, q), RulerGives(q, e, RowItems(rows))
      PROVE  QueryInv'
  <2>1. rows \subseteq Rows /\ IsFiniteSet(rows) /\ \A r \in rows : r.e \in {e}
    BY StoreReads
  <2>2. /\ RowItems(rows) \in SUBSET Things /\ IsFiniteSet(RowItems(rows))
        /\ \A x \in RowItems(rows) : \E r \in rows : x[1] = r.e
    BY <2>1, RowItemsType
  <2> QED
    BY <1>6, <1>8, <2>1, <2>2
<1> QED
  BY <1>2, <1>5, <1>7, <1>8

(* The one read of RequestRiskData.                                        *)
LEMMA PushStep ==
    ASSUME StoreTyped, QueryInv, NEW q \in Queries, PushDataCollectTask(q)
    PROVE  QueryInv'
<1>1. /\ QueryTyped /\ QueryOk(q) /\ task[q] \in Tasks /\ task[q].at = "queued" /\ Api[q] = "request"
      /\ UNCHANGED <<call, jobs, queriers, live, got, told, silent, cut, lost>>
  BY DEF QueryInv, QueryTyped, PushDataCollectTask
<1>2. PICK rows \in GetSecEventsFromConditions(q) :
         /\ found' = [found EXCEPT ![q] = RowItems(rows)]
         /\ task' = [task EXCEPT ![q] = [@ EXCEPT !.at = "rulers", !.out = Chunks(RowItems(rows))]]
  BY DEF PushDataCollectTask
<1>3. rows \subseteq Rows /\ IsFiniteSet(rows)
  BY <1>2, StoreReads, FS_EmptySet DEF GetSecEventsFromConditions
<1> DEFINE S == RowItems(rows)
           c == Chunks(S)
           t == [task[q] EXCEPT !.at = "rulers", !.out = c]
<1>4. S \in SUBSET Things /\ IsFiniteSet(S)
  BY <1>3, RowItemsType
<1>5. c \in Seq(Seq(Things))
  BY <1>4, Chunked
<1>6. task[q].out = <<>> /\ found[q] = {} /\ task[q].todo = {}
  BY <1>1 DEF QueryOk, Places, Asks
<1>7. task' = [task EXCEPT ![q] = t] /\ found' = [found EXCEPT ![q] = found[q] \cup S]
  BY <1>2, <1>6
<1> HIDE DEF c, S
<1>8. t \in Tasks /\ t.at = "rulers" /\ t.todo = {} /\ t.out = c
  BY <1>1, <1>5, <1>6 DEF Tasks, Ats
<1> HIDE DEF t
<1>9. Asks(q)'
  <2>1. task'[q] = t /\ silent' = silent
    BY <1>1, <1>7 DEF QueryTyped
  <2> QED
    BY <1>1, <1>8, <2>1 DEF QueryOk, Asks
<1>10. {} \in SUBSET Events /\ silent' = [silent EXCEPT ![q] = silent[q] \cup {}] /\ S \cap found[q] = {}
  BY <1>1, <1>6 DEF QueryTyped
<1> QED
  BY <1>1, <1>4, <1>6, <1>7, <1>8, <1>9, <1>10, TaskWorks DEF c

(* A message of a task: its chunk, or the end, reaches the caller, waits   *)
(* with the jobs of the environment, or is held against the query.         *)
LEMMA Sends ==
    ASSUME QueryInv, NEW q \in Queries, NEW m \in Messages, m.q = q, SendRequest(m),
           NEW t \in Tasks, task' = [task EXCEPT ![q] = t],
           task[q].at \in {"collector", "rulers"},
           t.failed = task[q].failed, t.todo = task[q].todo,
           \/ task[q].out = <<>> /\ m.items = <<>> /\ t.out = <<>>
           \/ task[q].out # <<>> /\ m.items = Head(task[q].out) /\ t.out = Tail(task[q].out),
           \/ m.what = "data" /\ t.at = task[q].at
           \/ /\ m.what # "data" /\ t.at = "ended" /\ t.out = <<>> /\ (EnvOf[q] # Native => m.items = <<>>)
              /\ m.what = "complete" /\ Api[q] # "request" =>
                    task[q].at = "rulers" /\ task[q].todo = {} /\ task[q].failed = {}
    PROVE  QueryInv'
<1> DEFINE js == Jobs(q)
           o == task[q].out
<1>1. /\ QueryTyped /\ JobsPlaced /\ QueryOk(q) /\ js \in Seq(Messages) /\ o \in Seq(Seq(Things))
      /\ got[q] \in Seq(Things) /\ m.items \in Seq(Things) /\ m.what \in {"data", "complete", "error"}
      /\ EnvOf[q] # Native => EnvOf[q] \in Envs /\ js = jobs[EnvOf[q]]
  BY JobsType DEF QueryInv, Messages, Jobs
<1>2. /\ UNCHANGED <<call, queriers, live, found, silent>>
      /\ \/ /\ EnvOf[q] = Native /\ UNCHANGED <<jobs, cut, lost>>
            /\ got' = [got EXCEPT ![q] = @ \o m.items]
            /\ told' = [told EXCEPT ![q] = IF m.what = "data" THEN @ ELSE m.what]
         \/ /\ EnvOf[q] # Native /\ UNCHANGED <<got, told, cut, lost>>
            /\ jobs' = [jobs EXCEPT ![EnvOf[q]] = Append(@, m)]
         \/ /\ UNCHANGED <<jobs, got, told>>
            /\ cut' = [cut EXCEPT ![q] = @ \/ m.what = "data"]
            /\ lost' = [lost EXCEPT ![q] = @ \/ m.what # "data"]
  BY DEF SendRequest, OnRemoteRequest, NativeCallback, RunCallback, Dropped
<1>3. /\ task'[q] = t /\ told[q] = "no" /\ ~lost[q] /\ Said(js, q) \subseteq {"data"} /\ Orderly(js, q)
      /\ ~Announced(q)
  BY <1>1 DEF QueryTyped, QueryOk, Places, Announced
<1>4. ASSUME QueryTyped', JobsPlaced', \A p \in Queries \ {q} : Jobs(p)' = Jobs(p) \/
                \E z \in Messages : z.q # p /\ Jobs(p)' = Append(Jobs(p), z),
             \A p \in Queries \ {q} : got'[p] = got[p] /\ told'[p] = told[p] /\ cut'[p] = cut[p] /\ lost'[p] = lost[p],
             (cut[q] => cut'[q]), Counted(q)', Places(q)', Final(q)', told'[q] # "no" \/ told'[q] = told[q]
      PROVE  QueryInv'
  <2>1. \A p \in Queries \ {q} : Aside(p)
    <3> SUFFICES ASSUME NEW p \in Queries \ {q} PROVE Aside(p)
      OBVIOUS
    <3>1. task'[p] = task[p]
      BY <1>1 DEF QueryTyped
    <3> QED
      BY <1>2, <1>4, <3>1 DEF Aside
  <2>2. Caller(q)'
    BY <1>1, <1>2, <1>3, <1>4 DEF QueryOk, Caller
  <2>3. Asks(q)'
    <3>1. /\ call' = call /\ found' = found /\ silent' = silent /\ task'[q] = t
          /\ t.failed = task[q].failed /\ t.todo = task[q].todo
          /\ t.at = "ended" \/ t.at = task[q].at
      BY <1>2, <1>3
    <3>2. Asked(q)' = Asked(q) /\ ClassifyRulers(q)' = ClassifyRulers(q)
      BY DEF Asked, ClassifyRulers, OfKind
    <3>3. t.at # "ended" => Left(q)' = Left(q)
      BY <3>1 DEF Left
    <3>4. \A e : Done(q, e)' <=> Done(q, e)
      BY <3>1 DEF Done
    <3> QED
      BY <1>1, <3>1, <3>2, <3>3, <3>4 DEF QueryOk, Asks
  <2> QED
    BY <1>4, <2>1, <2>2, <2>3, OneMoves DEF QueryOk
<1>5. ASSUME ~lost'[q], m.what = "complete"
      PROVE  /\ Api[q] # "request" => task'[q].failed = {} /\ \A e \in Asked(q) : Done(q, e)'
             /\ Api[q] = "event" => Asked(q) \subseteq InGroup
  <2>1. CASE Api[q] = "request"
    BY <2>1
  <2>2. CASE Api[q] # "request"
    <3>1. task[q].at = "rulers" /\ task[q].todo = {} /\ task[q].failed = {} /\ t.failed = {} /\ Left(q) = {}
      BY <1>5, <2>2 DEF Left
    <3>2. \A e \in Asked(q) : Done(q, e)
      BY <1>1, <2>2, <3>1 DEF QueryOk, Asks
    <3>3. Api[q] = "event" => Asked(q) \ InGroup \subseteq {}
      BY <1>1, <2>2, <3>1 DEF QueryOk, Asks
    <3>4. \A e \in Asked(q) : Done(q, e)'
      BY <1>2, <1>3, <3>1, <3>2 DEF Done
    <3> QED
      BY <1>3, <3>1, <3>3, <3>4
  <2> QED
    BY <2>1, <2>2
<1>6. ASSUME call[q] # "refused", ~cut[q]
      PROVE  /\ Flow(got[q] \o m.items, Owned(js, q), t.out, found[q])
             /\ Flow(got[q], Append(Owned(js, q), m.items), t.out, found[q])
  <2>1. Flow(got[q], Owned(js, q), o, found[q])
    BY <1>1, <1>3, <1>6 DEF QueryOk, Counted
  <2>2. Owned(js, q) \in Seq(Seq(Things))
    BY <1>1, OwnedType
  <2> HIDE DEF js, o
  <2>3. CASE o = <<>> /\ m.items = <<>> /\ t.out = <<>>
    <3>1. got[q] \o <<>> = got[q]
      BY <1>1
    <3> QED
      BY <1>1, <2>1, <2>2, <2>3, <3>1, FlowAround
  <2>4. CASE o # <<>> /\ m.items = Head(o) /\ t.out = Tail(o)
    BY <1>1, <2>1, <2>2, <2>4, FlowSent
  <2> QED
    BY <2>3, <2>4 DEF o
<1>7. m.what # "data" => t.at = "ended" /\ t.out = <<>> /\ (EnvOf[q] # Native => m.items = <<>>)
  OBVIOUS
<1>8. m.what = "data" => t.at = task[q].at
  OBVIOUS
<1>9. CASE /\ EnvOf[q] = Native /\ UNCHANGED <<jobs, cut, lost>>
           /\ got' = [got EXCEPT ![q] = @ \o m.items]
           /\ told' = [told EXCEPT ![q] = IF m.what = "data" THEN @ ELSE m.what]
  <2>1. got[q] \o m.items \in Seq(Things)
    BY <1>1
  <2>2. /\ got'[q] = got[q] \o m.items /\ told'[q] = (IF m.what = "data" THEN told[q] ELSE m.what)
        /\ Jobs(q)' = <<>> /\ js = <<>>
        /\ \A p \in Queries \ {q} : got'[p] = got[p] /\ told'[p] = told[p] /\ Jobs(p)' = Jobs(p)
    BY <1>1, <1>9 DEF QueryTyped, Jobs
  <2>3. QueryTyped' /\ JobsPlaced'
    BY <1>1, <1>2, <1>9, <2>1 DEF QueryTyped, JobsPlaced
  <2>4. Counted(q)'
    <3> SUFFICES ASSUME call[q] # "refused", ~cut[q], ~lost[q]
                 PROVE  Flow(got[q] \o m.items, Owned(js, q), t.out, found[q])
      <4>1. Jobs(q)' = js
        BY <2>2
      <4>2. Counted(q)' <=> (call[q] # "refused" /\ ~cut[q] /\ ~lost[q] =>
                                Flow(got[q] \o m.items, Owned(js, q), t.out, found[q]))
        BY <1>2, <1>3, <1>9, <2>2, <4>1 DEF Counted
      <4> QED
        BY <4>2
    <3> QED
      BY <1>6
  <2>5. Said(<<>>, q) = {}
    BY DEF Said
  <2>6. Places(q)'
    BY <1>1, <1>2, <1>3, <1>7, <1>8, <1>9, <2>2, <2>5 DEF QueryOk, Places
  <2>7. Final(q)'
    <3>1. Announced(q)' => m.what = "complete"
      BY <1>3, <2>2, <2>5 DEF Announced
    <3>2. Asked(q)' = Asked(q)
      BY DEF Asked
    <3> QED
      BY <1>3, <1>5, <1>9, <3>1, <3>2 DEF Final
  <2> QED
    BY <1>1, <1>4, <1>9, <2>2, <2>3, <2>4, <2>6, <2>7
<1>10. CASE /\ EnvOf[q] # Native /\ UNCHANGED <<got, told, cut, lost>>
            /\ jobs' = [jobs EXCEPT ![EnvOf[q]] = Append(@, m)]
  <2>1. Jobs(q)' = Append(js, m) /\ Append(js, m) \in Seq(Messages)
    BY <1>1, <1>10 DEF QueryTyped, Jobs
  <2>2. ASSUME NEW p \in Queries \ {q}
        PROVE  Jobs(p)' = Jobs(p) \/ \E z \in Messages : z.q # p /\ Jobs(p)' = Append(Jobs(p), z)
    BY <1>1, <1>10 DEF QueryTyped, Jobs, Envs
  <2>3. QueryTyped'
    BY <1>1, <1>2, <1>10, <2>1 DEF QueryTyped
  <2>4. JobsPlaced'
    <3> SUFFICES ASSUME NEW v \in Envs, NEW k \in 1 .. Len(jobs'[v]) PROVE EnvOf[jobs'[v][k].q] = v
      BY DEF JobsPlaced
    <3>1. CASE v # EnvOf[q]
      BY <1>1, <1>10, <3>1 DEF JobsPlaced, QueryTyped
    <3>2. CASE v = EnvOf[q]
      <4>1. jobs'[v] = Append(jobs[v], m) /\ jobs[v] \in Seq(Messages)
        BY <1>1, <1>10, <3>2 DEF QueryTyped
      <4>2. \/ k \in 1 .. Len(jobs[v]) /\ jobs'[v][k] = jobs[v][k]
            \/ jobs'[v][k] = m
        BY <4>1
      <4> QED
        BY <1>1, <3>2, <4>2 DEF JobsPlaced
    <3> QED
      BY <3>1, <3>2
  <2> HIDE DEF js
  <2>5. /\ Said(Append(js, m), q) = Said(js, q) \cup {m.what}
        /\ Owned(Append(js, m), q) = Append(Owned(js, q), m.items)
        /\ Orderly(Append(js, m), q)
    BY <1>1, <1>3, <1>7, <1>10, Appended DEF Fits
  <2>6. Counted(q)'
    BY <1>2, <1>3, <1>6, <1>10, <2>1, <2>5 DEF Counted
  <2>7. Places(q)'
    BY <1>1, <1>2, <1>3, <1>7, <1>8, <1>10, <2>1, <2>5 DEF QueryOk, Places
  <2>8. Final(q)'
    <3>1. Announced(q)' => m.what = "complete"
      BY <1>3, <1>10, <2>1, <2>5 DEF Announced
    <3>2. Asked(q)' = Asked(q)
      BY DEF Asked
    <3> QED
      BY <1>3, <1>5, <1>10, <3>1, <3>2 DEF Final
  <2> QED
    BY <1>4, <1>10, <2>2, <2>3, <2>4, <2>6, <2>7, <2>8
<1>11. CASE /\ UNCHANGED <<jobs, got, told>>
            /\ cut' = [cut EXCEPT ![q] = @ \/ m.what = "data"]
            /\ lost' = [lost EXCEPT ![q] = @ \/ m.what # "data"]
  <2>1. /\ cut'[q] = (cut[q] \/ m.what = "data") /\ lost'[q] = (lost[q] \/ m.what # "data")
        /\ Jobs(q)' = js /\ (cut[q] => cut'[q]) /\ (cut'[q] \/ lost'[q])
        /\ \A p \in Queries \ {q} : cut'[p] = cut[p] /\ lost'[p] = lost[p] /\ Jobs(p)' = Jobs(p)
    BY <1>1, <1>11 DEF QueryTyped, Jobs
  <2>2. QueryTyped' /\ JobsPlaced'
    BY <1>1, <1>2, <1>11 DEF QueryTyped, JobsPlaced
  <2>3. Counted(q)'
    BY <2>1 DEF Counted
  <2> HIDE DEF js
  <2>4. Places(q)'
    BY <1>1, <1>2, <1>3, <1>7, <1>8, <1>11, <2>1 DEF QueryOk, Places, js
  <2>5. Final(q)'
    BY <1>3, <1>11, <2>1 DEF Final, Announced, js
  <2> QED
    BY <1>4, <1>11, <2>1, <2>2, <2>3, <2>4, <2>5
<1> QED
  BY <1>2, <1>9, <1>10, <1>11

LEMMA SendSteps ==
    ASSUME QueryInv, NEW q \in Queries, OnQuery(q) \/ OnComplete(q) \/ OnError(q) \/ ResponseRiskData(q)
    PROVE  QueryInv'
<1>1. /\ QueryTyped /\ QueryOk(q) /\ task[q] \in Tasks /\ task[q].out \in Seq(Seq(Things))
      /\ <<>> \in Seq(Things) /\ <<>> \in Seq(Seq(Things))
  BY JobsType DEF QueryInv
<1>2. task[q].out # <<>> => /\ Head(task[q].out) \in Seq(Things) /\ Tail(task[q].out) \in Seq(Seq(Things))
                            /\ task[q].at \in {"collector", "rulers"}
                            /\ (Len(task[q].out) <= 1 => Tail(task[q].out) = <<>>)
  BY <1>1 DEF QueryOk, Places
<1>3. CASE OnQuery(q)
  <2> DEFINE t == [task[q] EXCEPT !.out = Tail(@)]
             m == [q |-> q, what |-> "data", items |-> Head(task[q].out)]
  <2>1. task[q].out # <<>> /\ task' = [task EXCEPT ![q] = t] /\ SendRequest(m)
    BY <1>3 DEF OnQuery
  <2>2. m \in Messages /\ m.q = q /\ m.what = "data" /\ m.items = Head(task[q].out)
    BY <1>2, <2>1 DEF Messages
  <2>3. /\ t \in Tasks /\ t.at = task[q].at /\ t.failed = task[q].failed /\ t.todo = task[q].todo
        /\ t.out = Tail(task[q].out)
    BY <1>1, <1>2, <2>1 DEF Tasks
  <2> HIDE DEF t, m
  <2> QED
    BY <1>2, <2>1, <2>2, <2>3, Sends
<1>4. CASE OnComplete(q) \/ OnError(q)
  <2> DEFINE t == [task[q] EXCEPT !.at = "ended"]
  <2>1. PICK what \in {"complete", "error"} :
           /\ task' = [task EXCEPT ![q] = t] /\ SendRequest([q |-> q, what |-> what, items |-> <<>>])
           /\ task[q].at = "rulers" /\ task[q].todo = {} /\ task[q].out = <<>>
           /\ what = "complete" => task[q].failed = {}
    BY <1>4 DEF OnComplete, OnError, AllAsked
  <2> DEFINE m == [q |-> q, what |-> what, items |-> <<>>]
  <2>2. m \in Messages /\ m.q = q /\ m.what = what /\ m.items = <<>>
    BY <1>1 DEF Messages
  <2>3. /\ t \in Tasks /\ t.at = "ended" /\ t.failed = task[q].failed /\ t.todo = task[q].todo
        /\ t.out = <<>>
    BY <1>1, <2>1 DEF Tasks, Ats
  <2>4. SendRequest(m)
    BY <2>1
  <2> HIDE DEF t, m
  <2> QED
    BY <2>1, <2>2, <2>3, <2>4, Sends
<1>5. CASE ResponseRiskData(q)
  <2> DEFINE items == IF task[q].out = <<>> THEN <<>> ELSE Head(task[q].out)
  <2>1. task[q].at = "rulers" /\ Api[q] = "request" /\ EnvOf[q] = Native
    BY <1>5, RulersType DEF ResponseRiskData
  <2>2. items \in Seq(Things) /\ (task[q].out = <<>> => Len(task[q].out) <= 1)
    BY <1>1, <1>2
  <2>3. CASE Len(task[q].out) <= 1
    <3> DEFINE t == [task[q] EXCEPT !.at = "ended", !.out = <<>>]
               m == [q |-> q, what |-> "complete", items |-> items]
    <3>1. task' = [task EXCEPT ![q] = t] /\ SendRequest(m)
      BY <1>5, <2>3 DEF ResponseRiskData
    <3>2. /\ t \in Tasks /\ t.failed = task[q].failed /\ t.todo = task[q].todo /\ t.at = "ended" /\ t.out = <<>>
          /\ m \in Messages /\ m.q = q /\ m.items = items /\ m.what = "complete"
      BY <1>1, <2>2 DEF Tasks, Ats, Messages
    <3>3. \/ task[q].out = <<>> /\ m.items = <<>> /\ t.out = <<>>
          \/ task[q].out # <<>> /\ m.items = Head(task[q].out) /\ t.out = Tail(task[q].out)
      BY <1>2, <2>3, <3>2
    <3> HIDE DEF t, m
    <3> QED
      BY <2>1, <3>1, <3>2, <3>3, Sends
  <2>4. CASE ~(Len(task[q].out) <= 1)
    <3> DEFINE t == [task[q] EXCEPT !.at = task[q].at, !.out = Tail(task[q].out)]
               m == [q |-> q, what |-> "data", items |-> items]
    <3>1. task' = [task EXCEPT ![q] = t] /\ SendRequest(m)
      BY <1>1, <1>5, <2>4 DEF ResponseRiskData, QueryTyped
    <3>2. /\ t \in Tasks /\ t.failed = task[q].failed /\ t.todo = task[q].todo /\ t.at = task[q].at
          /\ t.out = Tail(task[q].out)
          /\ m \in Messages /\ m.q = q /\ m.items = items /\ m.what = "data"
      BY <1>1, <1>2, <2>2, <2>4 DEF Tasks, Messages
    <3> HIDE DEF t, m
    <3> QED
      BY <2>1, <2>2, <2>4, <3>1, <3>2, Sends
  <2> QED
    BY <2>3, <2>4
<1> QED
  BY <1>3, <1>4, <1>5

(* The thread of an environment takes the first of its jobs.               *)
Took(v, js, j, q) ==
    /\ j \in Messages /\ j = Head(js) /\ q = j.q /\ EnvOf[q] = v /\ Jobs(q) = js /\ Jobs(q)' = Tail(js)
    /\ jobs' \in [Envs -> Seq(Messages)] /\ JobsPlaced'
    /\ \A p \in Queries \ {q} :
          Jobs(p)' = Jobs(p) \/ (Jobs(p) # <<>> /\ Head(Jobs(p)).q # p /\ Jobs(p)' = Tail(Jobs(p)))

LEMMA JobTaken ==
    ASSUME QueryInv, NEW v \in Envs, jobs[v] # <<>>, jobs' = [jobs EXCEPT ![v] = Tail(@)]
    PROVE  \E q \in Queries, j \in Messages : Took(v, jobs[v], j, q)
<1>1. PICK js : js = jobs[v]
  OBVIOUS
<1>2. PICK j : j = Head(js)
  OBVIOUS
<1>3. PICK q : q = j.q
  OBVIOUS
<1>4. jobs \in [Envs -> Seq(Messages)] /\ js \in Seq(Messages) /\ JobsPlaced
  BY <1>1 DEF QueryInv, QueryTyped
<1>5. /\ j \in Messages /\ js[1] = j /\ 1 \in 1 .. Len(js) /\ Tail(js) \in Seq(Messages)
      /\ \A k \in 1 .. Len(Tail(js)) : k + 1 \in 1 .. Len(js) /\ Tail(js)[k] = js[k + 1]
  BY <1>1, <1>2, <1>4
<1>6. q \in Queries /\ EnvOf[q] = v /\ v # Native
  BY <1>1, <1>3, <1>4, <1>5 DEF JobsPlaced, Envs, Messages
<1>7. jobs' \in [Envs -> Seq(Messages)] /\ jobs'[v] = Tail(js) /\ \A w \in Envs \ {v} : jobs'[w] = jobs[w]
  BY <1>1, <1>4, <1>5
<1>8. Jobs(q) = js /\ Jobs(q)' = Tail(js)
  BY <1>1, <1>6, <1>7 DEF Jobs
<1>9. JobsPlaced'
  BY <1>1, <1>4, <1>5, <1>7 DEF JobsPlaced
<1>10. ASSUME NEW p \in Queries \ {q}
       PROVE  Jobs(p)' = Jobs(p) \/ (Jobs(p) # <<>> /\ Head(Jobs(p)).q # p /\ Jobs(p)' = Tail(Jobs(p)))
  BY <1>1, <1>2, <1>3, <1>6, <1>7 DEF Jobs, Envs
<1>11. Took(v, js, j, q)
  BY <1>2, <1>3, <1>5, <1>6, <1>7, <1>8, <1>9, <1>10 DEF Took
<1> QED
  BY <1>1, <1>5, <1>6, <1>11

(* A chunk is given to its caller, unless the environment has no entry     *)
(* any more: then another query has ended first, or the call was refused.  *)
LEMMA RunOnQueryStep ==
    ASSUME QueryInv, NEW v \in Envs, RunOnQuery(v)
    PROVE  QueryInv'
<1>1. jobs[v] # <<>> /\ jobs' = [jobs EXCEPT ![v] = Tail(@)]
  BY DEF RunOnQuery
<1>2. PICK q \in Queries, j \in Messages : Took(v, jobs[v], j, q)
  BY <1>1, JobTaken
<1>3. PICK js : js = jobs[v]
  OBVIOUS
<1>4. /\ j \in Messages /\ j = Head(js) /\ q = j.q /\ EnvOf[q] = v /\ Jobs(q) = js /\ Jobs(q)' = Tail(js)
      /\ jobs' \in [Envs -> Seq(Messages)] /\ JobsPlaced'
      /\ \A p \in Queries \ {q} :
            Jobs(p)' = Jobs(p) \/ (Jobs(p) # <<>> /\ Head(Jobs(p)).q # p /\ Jobs(p)' = Tail(Jobs(p)))
  BY <1>2, <1>3 DEF Took
<1>5. /\ js # <<>> /\ ~JsBusy(v) /\ j.what = "data" /\ jobs' = [jobs EXCEPT ![v] = Tail(@)]
      /\ got' = IF v \in live THEN [got EXCEPT ![q] = @ \o j.items] ELSE got
      /\ UNCHANGED <<call, task, queriers, live, told, found, silent, cut, lost>>
  BY <1>3, <1>4 DEF RunOnQuery, GetDataCallback
<1>6. q \in Queries /\ j.items \in Seq(Things)
  BY <1>4 DEF Messages
<1>7. /\ QueryTyped /\ QueryOk(q) /\ js \in Seq(Messages) /\ got[q] \in Seq(Things)
      /\ task[q].out \in Seq(Seq(Things)) /\ v # Native
  BY <1>3, <1>6, JobsType DEF QueryInv, QueryTyped, Envs
<1>8. QueryTyped'
  <2>1. got[q] \o j.items \in Seq(Things)
    BY <1>6, <1>7
  <2> QED
    BY <1>4, <1>5, <1>7, <2>1 DEF QueryTyped
<1>9. \A p \in Queries \ {q} : Aside(p)
  <2> SUFFICES ASSUME NEW p \in Queries \ {q} PROVE Aside(p)
    OBVIOUS
  <2>1. got'[p] = got[p]
    BY <1>5, <1>7 DEF QueryTyped
  <2> QED
    BY <1>4, <1>5, <2>1 DEF Aside
<1>10. /\ Said(js, q) = Said(Tail(js), q) \cup {"data"} /\ Owned(js, q) # <<>>
       /\ Tail(Owned(js, q)) = Owned(Tail(js), q) /\ Head(Owned(js, q)) = j.items
       /\ Orderly(js, q) => Orderly(Tail(js), q)
  BY <1>4, <1>5, <1>7, Headed
<1>11. Counted(q)'
  <2> SUFFICES ASSUME call[q] # "refused", ~cut[q], ~lost[q]
               PROVE  Flow(got'[q], Owned(Tail(js), q), task[q].out, found[q])
    BY <1>4, <1>5 DEF Counted
  <2>1. v \in live
    <3>1. task[q].at # "none" /\ told[q] = "no"
      BY <1>4, <1>7, <1>10 DEF QueryOk, Places
    <3>2. call[q] \notin {"idle", "asking"}
      BY <1>4, <1>5, <1>6, <1>7, <3>1 DEF QueryOk, Places, JsBusy
    <3>3. call[q] = "waiting"
      BY <1>6, <1>7, <3>2 DEF QueryTyped
    <3> QED
      BY <1>4, <1>7, <3>1, <3>3 DEF QueryOk, Caller
  <2>2. got'[q] = got[q] \o j.items
    <3>1. got \in [Queries -> Seq(Things)] /\ got' = [got EXCEPT ![q] = got[q] \o j.items]
      BY <1>5, <1>7, <2>1 DEF QueryTyped
    <3> QED
      BY <3>1
  <2>3. Flow(got[q], Owned(js, q), task[q].out, found[q])
    BY <1>4, <1>7 DEF QueryOk, Counted
  <2>4. Owned(js, q) \in Seq(Seq(Things))
    BY <1>7, OwnedType
  <2>5. Flow(got[q] \o Head(Owned(js, q)), Tail(Owned(js, q)), task[q].out, found[q])
    BY <1>7, <1>10, <2>3, <2>4, FlowGiven
  <2> QED
    BY <1>10, <2>2, <2>5
<1>12. Places(q)'
  BY <1>4, <1>5, <1>7, <1>10 DEF QueryOk, Places
<1>13. Caller(q)'
  BY <1>5, <1>7 DEF QueryOk, Caller
<1>14. Asks(q)'
  BY <1>5, <1>7 DEF QueryOk, Asks, Left, Done
<1>15. Final(q)'
  BY <1>4, <1>5, <1>7, <1>10 DEF QueryOk, Final, Announced, Done
<1> QED
  BY <1>4, <1>6, <1>8, <1>9, <1>11, <1>12, <1>13, <1>14, <1>15, OneMoves DEF QueryOk

(* The end of a query is the last of its jobs.  Its entry goes with it, and *)
(* the other queries of the environment are cut off.                        *)
LEMMA RunEndStep ==
    ASSUME QueryInv, NEW v \in Envs, NEW what \in {"complete", "error"}, RunEnd(v, what)
    PROVE  QueryInv'
<1>1. jobs[v] # <<>> /\ jobs' = [jobs EXCEPT ![v] = Tail(@)]
  BY DEF RunEnd
<1>2. PICK q \in Queries, j \in Messages : Took(v, jobs[v], j, q)
  BY <1>1, JobTaken
<1>3. PICK js : js = jobs[v]
  OBVIOUS
<1>4. /\ j \in Messages /\ j = Head(js) /\ q = j.q /\ EnvOf[q] = v /\ Jobs(q) = js /\ Jobs(q)' = Tail(js)
      /\ jobs' \in [Envs -> Seq(Messages)] /\ JobsPlaced'
      /\ \A p \in Queries \ {q} :
            Jobs(p)' = Jobs(p) \/ (Jobs(p) # <<>> /\ Head(Jobs(p)).q # p /\ Jobs(p)' = Tail(Jobs(p)))
  BY <1>2, <1>3 DEF Took
<1>5. /\ js # <<>> /\ j.what = what /\ jobs' = [jobs EXCEPT ![v] = Tail(@)]
      /\ told' = [told EXCEPT ![q] = what] /\ OnFinish(q, v)
      /\ UNCHANGED <<call, task, got, found, silent, lost>>
  BY <1>3, <1>4 DEF RunEnd
<1>6. q \in Queries
  BY <1>4 DEF Messages
<1>7. /\ QueryTyped /\ QueryOk(q) /\ js \in Seq(Messages) /\ got[q] \in Seq(Things)
      /\ task[q].out \in Seq(Seq(Things)) /\ v # Native
  BY <1>3, <1>6, JobsType DEF QueryInv, QueryTyped, Envs
<1>8. /\ cut'[q] = cut[q] /\ q \notin queriers' /\ cut' \in [Queries -> BOOLEAN]
      /\ queriers' \subseteq Queries /\ live' \subseteq Envs
      /\ \A p \in Queries \ {q} : /\ p \in queriers' <=> p \in queriers
                                  /\ cut[p] => cut'[p]
                                  /\ p \in queriers /\ EnvOf[p] \in live => cut'[p] \/ EnvOf[p] \in live'
  <2>1. CASE q \in queriers
    <3>1. /\ queriers' = queriers \ {q} /\ live' = live \ {v}
          /\ cut' = [p \in Queries |-> cut[p] \/ (p # q /\ p \in queriers /\ EnvOf[p] = v)]
      BY <1>5, <2>1 DEF OnFinish, DelDataCallback
    <3>2. cut \in [Queries -> BOOLEAN] /\ queriers \subseteq Queries /\ live \subseteq Envs
      BY <1>7 DEF QueryTyped
    <3> QED
      BY <1>6, <3>1, <3>2
  <2>2. CASE q \notin queriers
    BY <1>5, <1>7, <2>2 DEF OnFinish, QueryTyped
  <2> QED
    BY <2>1, <2>2
<1>9. QueryTyped'
  BY <1>4, <1>5, <1>7, <1>8 DEF QueryTyped
<1>10. \A p \in Queries \ {q} : Aside(p)
  <2> SUFFICES ASSUME NEW p \in Queries \ {q} PROVE Aside(p)
    OBVIOUS
  <2>1. told'[p] = told[p]
    BY <1>5, <1>7 DEF QueryTyped
  <2> QED
    BY <1>4, <1>5, <1>8, <2>1 DEF Aside
<1>11. /\ Orderly(js, q) /\ Said(js, q) = Said(Tail(js), q) \cup {what} /\ Owned(js, q) # <<>>
       /\ Tail(Owned(js, q)) = Owned(Tail(js), q) /\ Head(Owned(js, q)) = <<>>
       /\ Orderly(Tail(js), q) /\ Said(Tail(js), q) = {}
  <2>1. Orderly(js, q)
    BY <1>4, <1>7 DEF QueryOk, Places
  <2> QED
    BY <1>4, <1>5, <1>7, <2>1, Headed
<1>12. told'[q] = what /\ task[q].at = "ended"
  BY <1>4, <1>5, <1>6, <1>7, <1>11 DEF QueryTyped, QueryOk, Places
<1>13. Counted(q)'
  <2> SUFFICES ASSUME call[q] # "refused", ~cut[q], ~lost[q]
               PROVE  Flow(got[q], Owned(Tail(js), q), task[q].out, found[q])
    BY <1>4, <1>5, <1>8 DEF Counted
  <2>1. Flow(got[q], Owned(js, q), task[q].out, found[q]) /\ Owned(js, q) \in Seq(Seq(Things))
    BY <1>4, <1>7, OwnedType DEF QueryOk, Counted
  <2>2. Flow(got[q], Tail(Owned(js, q)), task[q].out, found[q])
    BY <1>7, <1>11, <2>1, FlowAround
  <2> QED
    BY <1>11, <2>2
<1>14. Places(q)'
  BY <1>4, <1>5, <1>7, <1>11, <1>12 DEF QueryOk, Places
<1>15. Caller(q)'
  BY <1>8, <1>12 DEF Caller
<1>16. Asks(q)'
  BY <1>5, <1>7 DEF QueryOk, Asks, Left, Done
<1>17. Final(q)'
  BY <1>4, <1>5, <1>7, <1>11, <1>12 DEF QueryOk, Final, Announced, Done
<1> QED
  BY <1>4, <1>6, <1>9, <1>10, <1>13, <1>14, <1>15, <1>16, <1>17, OneMoves DEF QueryOk

(* The process of the service dies: what it had not answered is lost.      *)
LEMMA ServiceDiesStep == ASSUME QueryInv, ServiceDies PROVE QueryInv'
<1>1. QueryTyped /\ JobsPlaced /\ \A q \in Queries : QueryOk(q)
  BY DEF QueryInv
<1>2. /\ UNCHANGED <<call, jobs, queriers, live, got, told, found, silent, cut>>
      /\ task' = [q \in Queries |-> IF task[q].at \in {"none", "ended"} THEN task[q] ELSE [NoTask EXCEPT !.at = "dead"]]
      /\ lost' = [q \in Queries |-> lost[q] \/ task[q].at \notin {"none", "ended"}]
  BY DEF ServiceDies
<1>3. PICK d : d = [NoTask EXCEPT !.at = "dead"]
  OBVIOUS
<1>4. d \in Tasks /\ d.at = "dead" /\ d.todo = {} /\ d.out = <<>>
  <2>1. NoTask \in Tasks /\ NoTask.todo = {} /\ NoTask.out = <<>>
    <3>1. <<>> \in Seq(Seq(Things))
      OBVIOUS
    <3> QED
      BY <3>1 DEF NoTask, Tasks, Ats
  <2> QED
    BY <1>3, <2>1 DEF Tasks, Ats
<1>5. QueryTyped' /\ JobsPlaced'
  <2>2. task' \in [Queries -> Tasks]
    BY <1>1, <1>2, <1>3, <1>4 DEF QueryTyped
  <2> QED
    BY <1>1, <1>2, <2>2 DEF QueryTyped, JobsPlaced
<1>6. ASSUME NEW q \in Queries PROVE QueryOk(q)'
  <2>1. QueryOk(q) /\ Jobs(q)' = Jobs(q)
    BY <1>1, <1>2 DEF Jobs
  <2>2. CASE task[q].at \in {"none", "ended"}
    <3>1. task'[q] = task[q] /\ lost'[q] = lost[q]
      BY <1>1, <1>2, <2>2 DEF QueryTyped
    <3>2. Counted(q)' /\ Places(q)' /\ Caller(q)'
      BY <1>2, <2>1, <3>1 DEF QueryOk, Counted, Places, Caller
    <3>3. Asks(q)'
      BY <1>2, <2>1, <3>1 DEF QueryOk, Asks, Left, Done
    <3>4. Final(q)'
      BY <1>2, <2>1, <3>1 DEF QueryOk, Final, Announced, Done
    <3> QED
      BY <3>2, <3>3, <3>4 DEF QueryOk
  <2>3. CASE task[q].at \notin {"none", "ended"}
    <3>1. task'[q].at = "dead" /\ task'[q].todo = {} /\ task'[q].out = <<>> /\ lost'[q]
      BY <1>2, <1>3, <1>4, <2>3
    <3>2. Counted(q)' /\ Caller(q)'
      BY <1>2, <2>1, <3>1 DEF QueryOk, Counted, Caller
    <3>3. Places(q)'
      BY <1>2, <2>1, <2>3, <3>1 DEF QueryOk, Places
    <3>4. Asks(q)'
      BY <1>2, <2>1, <3>1 DEF QueryOk, Asks
    <3>5. Final(q)'
      BY <1>2, <2>1, <2>3 DEF QueryOk, Final, Announced, Places
    <3> QED
      BY <3>2, <3>3, <3>4, <3>5 DEF QueryOk
  <2> QED
    BY <2>2, <2>3
<1> QED
  BY <1>5, <1>6 DEF QueryInv

(* A step of the store alone changes no query.                             *)
LEMMA SameQueries == ASSUME QueryInv, UNCHANGED qVars PROVE QueryInv'
<1>1. UNCHANGED <<call, task, jobs, queriers, live, got, told, found, silent, cut, lost>>
  BY DEF qVars
<1>2. QueryTyped' /\ JobsPlaced'
  BY <1>1 DEF QueryInv, QueryTyped, JobsPlaced
<1>3. ASSUME NEW q \in Queries PROVE QueryOk(q)'
  <2>1. QueryOk(q) /\ Jobs(q)' = Jobs(q)
    BY <1>1 DEF QueryInv, Jobs
  <2> QED
    BY <1>1, <2>1 DEF QueryOk, Counted, Places, Caller, Asks, Left, Done, Final, Announced
<1> QED
  BY <1>2, <1>3 DEF QueryInv

LEMMA TaskSteps == ASSUME StoreTyped, QueryInv, NEW q \in Queries, TaskStep(q) PROVE QueryInv'
<1>1. CASE HandleQuerySecurityEvent(q) \/ HandleQuerySecurityEventById(q)
  BY <1>1, HandleStep
<1>2. CASE QuerySecurityGuardBatchAndCallback(q)
  <2>1. task[q].at = "guard" /\ \E o \in DataCollectionQueryBatch(OfKind(q, "guard")) :
                                   Take(q, OfKind(q, "guard"), o, "collector")
    BY <1>2, Kinds DEF QuerySecurityGuardBatchAndCallback
  <2> QED
    BY <2>1, TakeStep
<1>3. CASE QuerySecurityCollectorBatchAndCallback(q)
  <2>1. task[q].at = "collector" /\ task[q].out = <<>> /\ \E o \in CollectorManagerQueryBatch(OfKind(q, "collector")) :
                                   Take(q, OfKind(q, "collector"), o, "rulers")
    BY <1>3, Kinds DEF QuerySecurityCollectorBatchAndCallback
  <2> QED
    BY <2>1, TakeStep
<1>4. CASE QueryEventByRuler(q) \/ PushDataCollectTask(q)
  BY <1>4, RulerStep, PushStep
<1>5. CASE OnQuery(q) \/ OnComplete(q) \/ OnError(q) \/ ResponseRiskData(q)
  BY <1>5, SendSteps
<1> QED
  BY <1>1, <1>2, <1>3, <1>4, <1>5 DEF TaskStep

LEMMA NextQueries == StoreTyped /\ QueryInv /\ [Next]_vars => QueryInv'
<1> SUFFICES ASSUME StoreTyped, QueryInv, [Next]_vars PROVE QueryInv'
  OBVIOUS
<1>1. CASE (Start \/ BeginBatch \/ NextEvent \/ Evict \/ InsertEvent \/ CommitEvent) /\ UNCHANGED qVars
  BY <1>1, SameQueries
<1>2. CASE ServiceDies
  BY <1>2, ServiceDiesStep
<1>3. ASSUME NEW q \in Queries,
             KitQuerySecurityEvent(q) \/ KitQuerySecurityEventById(q) \/ RequestSecurityEventInfoAsync(q)
      PROVE  QueryInv'
  BY <1>3, CallSteps DEF KitQuerySecurityEvent, KitQuerySecurityEventById, RequestSecurityEventInfoAsync,
                         KitRequestSecurityEventInfo
<1>4. ASSUME NEW q \in Queries, Service(q) PROVE QueryInv'
  <2>1. \E at \in {"queued", "refused"} : Answer(q, at)
    BY <1>4 DEF Service, QuerySecurityEvent, QuerySecurityEventById, RequestRiskData,
                IsCallerHasApiPermission, IsEventGroupHasPermission
  <2> QED
    BY <2>1, CallSteps
<1>5. ASSUME NEW q \in Queries, CallAccepted(q) \/ CallFails(q) \/ TaskStep(q) PROVE QueryInv'
  BY <1>5, CallSteps, TaskSteps
<1>6. ASSUME NEW v \in Envs, RunOnQuery(v) \/ RunOnComplete(v) \/ RunOnError(v) PROVE QueryInv'
  BY <1>6, RunOnQueryStep, RunEndStep DEF RunOnComplete, RunOnError
<1>7. CASE UNCHANGED vars
  BY <1>7, SameQueries DEF vars
<1> QED
  BY <1>1, <1>2, <1>3, <1>4, <1>5, <1>6, <1>7 DEF Next

(* What the invariant says to a caller who was told that all is there.     *)
LEMMA ToldComplete ==
    ASSUME QueryInv, NEW q \in Queries, call[q] = "waiting", told[q] = "complete", ~cut[q]
    PROVE  /\ ToSet(got[q]) = found[q] /\ Len(got[q]) = Cardinality(found[q])
           /\ Api[q] = "event" => Rulers[q] \subseteq InGroup \ Malformed
           /\ Api[q] # "request" =>
                 \A e \in Rulers[q] \ silent[q] :
                    /\ Kind[e] # "unknown"
                    /\ Kind[e] \in {"guard", "collector"} => Items(e) \subseteq found[q]
<1>1. QueryTyped /\ QueryOk(q) /\ Jobs(q) \in Seq(Messages) /\ got[q] \in Seq(Things)
  BY JobsType DEF QueryInv
<1>2. /\ ~lost[q] /\ Said(Jobs(q), q) = {} /\ task[q].out = <<>>
      /\ Api[q] # "request" => task[q].failed = {} /\ \A e \in Asked(q) : Done(q, e)
      /\ Api[q] = "event" => Asked(q) \subseteq InGroup
      /\ \A e \in silent[q] : Kind[e] \in {"guard", "collector"}
  BY <1>1 DEF QueryOk, Final, Announced, Places, Asks
<1>3. Inj(got[q]) /\ Of(got[q]) = found[q]
  <2>1. Flow(got[q], Owned(Jobs(q), q), <<>>, found[q])
    BY <1>1, <1>2 DEF QueryOk, Counted
  <2>2. All(Owned(Jobs(q), q)) = {}
    BY <1>1, <1>2, OwnedType
  <2> QED
    BY <2>1, <2>2, Nothing DEF Flow
<1>4. ToSet(got[q]) = found[q] /\ Len(got[q]) = Cardinality(found[q])
  BY <1>1, <1>3, Counting
<1>5. ASSUME Api[q] # "request"
      PROVE  /\ Asked(q) = Rulers[q] /\ Rulers[q] \cap Malformed = {}
             /\ \A e \in Asked(q) \ silent[q] :
                    /\ Kind[e] # "unknown"
                    /\ Kind[e] \in {"guard", "collector"} => Items(e) \subseteq found[q]
  <2>1. \A e \in Asked(q) : \/ e \in silent[q]
                            \/ Kind[e] # "unknown" /\ (Kind[e] \in {"guard", "collector"} => Items(e) \subseteq found[q])
    BY <1>2, <1>5 DEF Done
  <2>2. NoEvent \notin Asked(q)
    BY <1>2, <2>1, QueryAssumption
  <2>3. \A r \in Rulers[q] : r \notin Malformed
    BY <2>2 DEF Asked, ParseSecurityEventRuler, Readable
  <2>4. Asked(q) = Rulers[q]
    BY <2>3 DEF Asked, ParseSecurityEventRuler, Readable
  <2> QED
    BY <2>1, <2>3, <2>4
<1> QED
  BY <1>2, <1>4, <1>5

--------------------------------------------------------------------------------
(* What a batch has committed survives every crash, every rollback of a    *)
(* later batch and every failing statement until it is evicted, on disk.   *)
THEOREM CommittedStays == Spec => []Durable
<1>1. Inv => Durable
  BY DEF Inv, NothingForgotten, Kept, Durable
<1> QED
  BY InitInv, NextInv, <1>1, PTL DEF Spec

(* The number of rows of an event stays within its quota, on disk and on   *)
(* the connection, unless its last eviction failed.                        *)
THEOREM QuotaKept == Spec => []WithinQuota
<1>1. Inv => WithinQuota
  BY DEF Inv, Quota, WithinQuota
<1> QED
  BY InitInv, NextInv, <1>1, PTL DEF Spec

(* Outside a transaction a query reads what a restart would show, and no   *)
(* transaction outlives its process.                                       *)
THEOREM QueriesSeeDisk == Spec => []ImagesAgree
<1>1. Inv => ImagesAgree
  BY DEF Inv
<1> QED
  BY InitInv, NextInv, <1>1, PTL DEF Spec

(* A caller told that its query is complete has received, once each, all    *)
(* that the rulers gave: whatever the store, the collectors and the other   *)
(* queries of its environment do, and however the chunks and the end travel *)
(* (QuerySecurityEvent, QuerySecurityEventById, RequestRiskData).           *)
THEOREM QueriesDelivered == Spec => []AllDelivered
<1>1. Inv => StoreTyped
  BY DEF Inv
<1>2. QueryInv => AllDelivered
  BY ToldComplete DEF AllDelivered
<1> QED
  BY InitInv, NextInv, InitQueries, NextQueries, <1>1, <1>2, PTL DEF Spec

================================================================================
