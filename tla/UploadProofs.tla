----------------------------- MODULE UploadProofs -----------------------------
(***************************************************************************)
(* That the counters of the upload pipeline count its tasks, that the two  *)
(* token buckets limit what they are there to limit, and that no event is  *)
(* lost or inserted twice on its way, for any number of threads that       *)
(* report, any limits and any number of events (UploadPipeline).           *)
(***************************************************************************)
EXTENDS UploadPipeline, FiniteSetTheorems, TLAPS

Places == {"idle", "request", "giveBack", "upload", "batch", "submit", "count", "urgent",
           "submitUrgent", "task", "insert", "publish", "spend", "off", "flush", "swap"}
OfHandlers == {"idle", "task", "insert", "publish", "spend", "off", "flush", "swap"}

(* The types of what is counted, queued and kept.                          *)
DataTyped ==
    /\ sent \in Seq(Kinds)
    /\ notifyEvents \in Seq(Nat) /\ events \in Seq(Nat)
    /\ queue \in Seq(Seq(Nat)) /\ crucialQueue \in Seq(Nat) /\ queueUp \in BOOLEAN
    /\ taskCount \in Nat /\ crucialTaskCount \in Nat
    /\ todo \in [Threads -> Seq(Nat)] /\ out \in [Threads -> Seq(Nat)]
    /\ tokenBucket \in Int /\ requestBucket \in Int /\ unspent \in Int

(* Where each kind of thread may be, and that it has an event in hand when *)
(* the place asks for one.                                                 *)
PlacesTyped ==
    /\ pc \in [Threads -> Places]
    /\ \A t \in Handlers : pc[t] \in OfHandlers
    /\ \A t \in Handlers : pc[t] \in {"off", "flush", "swap"} => t = "cleaner"
    /\ \A t \in Threads : InTask(t) \/ pc[t] \in {"urgent", "submitUrgent"} => todo[t] # <<>>

(* Before OnStart there is nothing and nobody is on the way.               *)
NothingYet ==
    service = "down" =>
        /\ ~queueUp /\ queue = <<>> /\ crucialQueue = <<>> /\ taskCount = 0 /\ crucialTaskCount = 0
        /\ \A t \in Threads : pc[t] = IF t = "cleaner" THEN "off" ELSE "idle"

(* The threads that have passed the test of g_crucialTaskCount and not yet *)
(* raised it keep it from wrapping.                                        *)
CountersInv ==
    queueUp =>
        /\ taskCount = (Len(queue) + Running("queue") - At("count")) % Modulus
        /\ crucialTaskCount = Len(crucialQueue) + Running("crucial") + At("submitUrgent")
        /\ crucialTaskCount + At("urgent") <= MaxTasks + Cardinality(Producers)

(* The tokens of both buckets are accounted for: those tested and not yet  *)
(* spent, those lent to a report that found none, those of a report under  *)
(* way.                                                                    *)
Spending == {t \in Handlers : pc[t] = "spend"}
BucketsInv ==
    /\ tokenBucket - Cardinality(Spending) >= -2
    /\ requestBucket = unspent - At("giveBack") - At("upload")
    /\ requestBucket >= -At("giveBack")

Inv == DataTyped /\ PlacesTyped /\ NothingYet /\ CountersInv /\ BucketsInv
-------------------------------------------------------------------------------
(* Arithmetic of the unsigned counters                                     *)

LEMMA Division ==
    ASSUME NEW a \in Int, NEW m \in Nat \ {0}
    PROVE  a = (a \div m) * m + (a % m) /\ a \div m \in Int /\ a % m \in 0 .. m - 1
<1>1. a = (a \div m) * m + (a % m)
  BY Z3
<1>2. a \div m \in Int /\ a % m \in 0 .. m - 1
  OBVIOUS
<1> QED
  BY <1>1, <1>2

LEMMA Remainder ==
    ASSUME NEW m \in Nat \ {0}, NEW q \in Int, NEW r \in 0 .. m - 1
    PROVE  (q * m + r) % m = r
  OBVIOUS

LEMMA SmallRemainder ==
    ASSUME NEW m \in Nat \ {0}, NEW r \in 0 .. m - 1
    PROVE  r % m = r
  OBVIOUS

(* Counting up or down by one and wrapping each time is counting and       *)
(* wrapping once.                                                          *)
LEMMA WrapUp ==
    ASSUME NEW a \in Int, NEW m \in Nat \ {0}
    PROVE  ((a % m) + 1) % m = (a + 1) % m
<1> DEFINE q == a \div m
           r == a % m
<1>1. a = q * m + r /\ q \in Int /\ r \in 0 .. m - 1
  BY Division
<1> HIDE DEF q, r
<1>2. CASE r + 1 < m
  <2>1. r + 1 \in 0 .. m - 1 /\ a + 1 = q * m + (r + 1)
    BY <1>1, <1>2
  <2>2. (a + 1) % m = r + 1 /\ (r + 1) % m = r + 1
    BY <1>1, <2>1, Remainder, SmallRemainder
  <2> QED
    BY <2>2 DEF r
<1>3. CASE r + 1 = m
  <2>1. a + 1 = (q + 1) * m + 0 /\ r + 1 = 1 * m + 0 /\ 0 \in 0 .. m - 1 /\ q + 1 \in Int
    BY <1>1, <1>3
  <2>2. (a + 1) % m = 0
    BY <2>1, Remainder
  <2>3. (r + 1) % m = 0
    BY <2>1, Remainder
  <2> QED
    BY <2>2, <2>3 DEF r
<1> QED
  BY <1>1, <1>2, <1>3

LEMMA WrapDown ==
    ASSUME NEW a \in Int, NEW m \in Nat \ {0}
    PROVE  ((a % m) - 1) % m = (a - 1) % m
<1> DEFINE q == a \div m
           r == a % m
<1>1. a = q * m + r /\ q \in Int /\ r \in 0 .. m - 1
  BY Division
<1> HIDE DEF q, r
<1>2. CASE r > 0
  <2>1. r - 1 \in 0 .. m - 1 /\ a - 1 = q * m + (r - 1)
    BY <1>1, <1>2
  <2>2. (a - 1) % m = r - 1 /\ (r - 1) % m = r - 1
    BY <1>1, <2>1, Remainder, SmallRemainder
  <2> QED
    BY <2>2 DEF r
<1>3. CASE r = 0
  <2>1. /\ a - 1 = (q - 1) * m + (m - 1) /\ r - 1 = (-1) * m + (m - 1)
        /\ m - 1 \in 0 .. m - 1 /\ q - 1 \in Int /\ -1 \in Int
    BY <1>1, <1>3
  <2>2. (a - 1) % m = m - 1
    BY <2>1, Remainder
  <2>3. (r - 1) % m = m - 1
    BY <2>1, Remainder
  <2> QED
    BY <2>2, <2>3 DEF r
<1> QED
  BY <1>1, <1>2, <1>3

-------------------------------------------------------------------------------
(* The places of the threads                                               *)

LEMMA TheThreads ==
    /\ "queue" \in Handlers /\ "crucial" \in Handlers /\ "cleaner" \in Handlers
    /\ Producers \subseteq Threads /\ Handlers \subseteq Threads
    /\ \A p \in Producers : p \notin Handlers
    /\ IsFiniteSet(Handlers) /\ Cardinality(Handlers) = 3
    /\ IsFiniteSet(Producers) /\ Cardinality(Producers) \in Nat
<1>1. IsFiniteSet({"queue"}) /\ Cardinality({"queue"}) = 1
  BY FS_Singleton
<1>2. IsFiniteSet({"queue", "crucial"}) /\ Cardinality({"queue", "crucial"}) = 2
  <2>1. {"queue", "crucial"} = {"queue"} \cup {"crucial"}
    OBVIOUS
  <2> QED
    BY <1>1, <2>1, FS_AddElement
<1>3. IsFiniteSet(Handlers) /\ Cardinality(Handlers) = 3
  <2>1. Handlers = {"queue", "crucial"} \cup {"cleaner"}
    BY DEF Handlers
  <2> QED
    BY <1>2, <2>1, FS_AddElement
<1>4. IsFiniteSet(Producers) /\ Cardinality(Producers) \in Nat
  BY PipelineAssumption, FS_CardinalityType
<1>5. \A p \in Producers : p \notin Handlers
  BY ThreadAssumption
<1> QED
  BY <1>3, <1>4, <1>5 DEF Handlers, Threads

(* How many producers are at a place.                                      *)
LEMMA AtNat ==
    ASSUME NEW l
    PROVE  At(l) \in Nat /\ At(l) <= Cardinality(Producers)
<1>1. {p \in Producers : pc[p] = l} \in SUBSET Producers
  OBVIOUS
<1> QED
  BY <1>1, TheThreads, FS_Subset, FS_CardinalityType DEF At

(* A producer that moves is one fewer where it was and one more where it   *)
(* is now.                                                                 *)
LEMMA ProducerMoves ==
    ASSUME pc \in [Threads -> Places], NEW p \in Producers, NEW l \in Places, Goto(p, l)
    PROVE  /\ pc' \in [Threads -> Places] /\ pc'[p] = l
           /\ \A u \in Threads : u # p => pc'[u] = pc[u]
           /\ \A u \in Handlers : pc'[u] = pc[u]
           /\ \A k : At(k)' = At(k) + (IF k = l THEN 1 ELSE 0) - (IF k = pc[p] THEN 1 ELSE 0)
           /\ Spending' = Spending
<1>1. p \in Threads /\ p \notin Handlers
  BY TheThreads
<1>2. /\ pc' \in [Threads -> Places] /\ pc'[p] = l
      /\ \A u \in Threads : u # p => pc'[u] = pc[u]
  BY <1>1 DEF Goto
<1>3. \A u \in Handlers : pc'[u] = pc[u]
  BY <1>1, <1>2, TheThreads
<1>4. ASSUME NEW k
      PROVE  At(k)' = At(k) + (IF k = l THEN 1 ELSE 0) - (IF k = pc[p] THEN 1 ELSE 0)
  <2> DEFINE A == {u \in Producers : pc[u] = k}
             B == {u \in Producers : pc'[u] = k}
  <2>1. IsFiniteSet(A) /\ Cardinality(A) = At(k) /\ At(k)' = Cardinality(B) /\ At(k) \in Nat
    <3>1. A \in SUBSET Producers
      OBVIOUS
    <3> QED
      BY <3>1, TheThreads, AtNat, FS_Subset DEF At
  <2>2. CASE k = l /\ k # pc[p]
    <3>1. B = A \cup {p} /\ p \notin A
      BY <1>2, <2>2, TheThreads
    <3> QED
      BY <2>1, <2>2, <3>1, FS_AddElement
  <2>3. CASE k # l /\ k = pc[p]
    <3>1. B = A \ {p} /\ p \in A
      BY <1>2, <2>3, TheThreads
    <3>2. Cardinality(B) = Cardinality(A) - 1
      BY <2>1, <3>1, FS_RemoveElement
    <3> HIDE DEF A, B
    <3> QED
      BY <2>1, <2>3, <3>2
  <2>4. CASE (k = l) <=> (k = pc[p])
    <3>1. B = A
      BY <1>2, <2>4, TheThreads
    <3> QED
      BY <2>1, <2>4, <3>1
  <2> QED
    BY <2>2, <2>3, <2>4
<1>5. Spending' = Spending
  BY <1>3 DEF Spending
<1> QED
  BY <1>2, <1>3, <1>4, <1>5

(* The same of a thread that handles events.                               *)
LEMMA HandlerMoves ==
    ASSUME pc \in [Threads -> Places], NEW t \in Handlers, NEW l \in Places, Goto(t, l)
    PROVE  /\ pc' \in [Threads -> Places] /\ pc'[t] = l
           /\ \A u \in Threads : u # t => pc'[u] = pc[u]
           /\ \A k : At(k)' = At(k)
           /\ Cardinality(Spending)' = Cardinality(Spending) + (IF l = "spend" THEN 1 ELSE 0)
                                          - (IF pc[t] = "spend" THEN 1 ELSE 0)
           /\ Cardinality(Spending)' \in 0 .. 3 /\ Cardinality(Spending) \in 0 .. 3
<1>1. t \in Threads /\ t \notin Producers
  BY TheThreads
<1>2. /\ pc' \in [Threads -> Places] /\ pc'[t] = l
      /\ \A u \in Threads : u # t => pc'[u] = pc[u]
  BY <1>1 DEF Goto
<1>3. ASSUME NEW k PROVE At(k)' = At(k)
  <2>1. {u \in Producers : pc'[u] = k} = {u \in Producers : pc[u] = k}
    BY <1>1, <1>2, TheThreads
  <2> QED
    BY <2>1 DEF At
<1> DEFINE B == {u \in Handlers : pc'[u] = "spend"}
<1>4. /\ Spending \in SUBSET Handlers /\ B \in SUBSET Handlers /\ Spending' = B
  BY DEF Spending
<1>5. /\ IsFiniteSet(Spending) /\ Cardinality(Spending) \in 0 .. 3
      /\ IsFiniteSet(B) /\ Cardinality(B) \in 0 .. 3
  BY <1>4, TheThreads, FS_Subset, FS_CardinalityType
<1>6. Cardinality(B) = Cardinality(Spending) + (IF l = "spend" THEN 1 ELSE 0)
                          - (IF pc[t] = "spend" THEN 1 ELSE 0)
  <2>1. CASE l = "spend" /\ pc[t] # "spend"
    <3>1. B = Spending \cup {t} /\ t \notin Spending
      BY <1>2, <2>1, TheThreads DEF Spending
    <3> QED
      BY <1>5, <2>1, <3>1, FS_AddElement
  <2>2. CASE l # "spend" /\ pc[t] = "spend"
    <3>1. B = Spending \ {t} /\ t \in Spending
      BY <1>2, <2>2, TheThreads DEF Spending
    <3> QED
      BY <1>5, <2>2, <3>1, FS_RemoveElement
  <2>3. CASE (l = "spend") <=> (pc[t] = "spend")
    <3>1. B = Spending
      BY <1>2, <2>3, TheThreads DEF Spending
    <3> QED
      BY <1>5, <2>3, <3>1
  <2> QED
    BY <2>1, <2>2, <2>3
<1> QED
  BY <1>2, <1>3, <1>4, <1>5, <1>6

-------------------------------------------------------------------------------
(* The steps                                                               *)

(* A step that leaves the queues and their counters alone, and nobody      *)
(* comes to a place where one is owed.                                     *)
LEMMA QuietCounters ==
    ASSUME CountersInv, UNCHANGED queues, Running("queue")' = Running("queue"),
           Running("crucial")' = Running("crucial"),
           At("count")' = At("count"), At("urgent")' = At("urgent"),
           At("submitUrgent")' = At("submitUrgent")
    PROVE  CountersInv'
  BY DEF CountersInv, queues

(* A step that leaves the buckets alone, and nobody takes or gives back.   *)
LEMMA QuietBuckets ==
    ASSUME BucketsInv, UNCHANGED <<tokenBucket, reports>>,
           Cardinality(Spending)' = Cardinality(Spending),
           At("giveBack")' = At("giveBack"), At("upload")' = At("upload")
    PROVE  BucketsInv'
  BY DEF BucketsInv, reports

(* While the service is down nobody is on the way.                         *)
LEMMA NobodyYet ==
    ASSUME Inv, NEW t \in Threads, pc[t] \notin {"idle", "off"}
    PROVE  service # "down"
  BY DEF Inv, NothingYet

(* Sequences of anything: of events, and of batches of events.              *)
LEMMA OfSequences ==
    ASSUME NEW X, NEW s \in Seq(X)
    PROVE  /\ Len(s) \in Nat
           /\ \A x \in X : Append(s, x) \in Seq(X) /\ Len(Append(s, x)) = Len(s) + 1
           /\ s # <<>> => Head(s) \in X /\ Tail(s) \in Seq(X) /\ Len(Tail(s)) = Len(s) - 1
  OBVIOUS

(* What a thread has in hand stays a sequence of events.                   *)
LEMMA InHand ==
    ASSUME NEW f \in [Threads -> Seq(Nat)], NEW t \in Threads
    PROVE  /\ [f EXCEPT ![t] = <<>>] \in [Threads -> Seq(Nat)]
           /\ f[t] # <<>> => [f EXCEPT ![t] = Tail(f[t])] \in [Threads -> Seq(Nat)]
           /\ \A s \in Seq(Nat) : [f EXCEPT ![t] = s] \in [Threads -> Seq(Nat)]
<1>1. <<>> \in Seq(Nat)
  OBVIOUS
<1>2. f[t] \in Seq(Nat) /\ (f[t] # <<>> => Tail(f[t]) \in Seq(Nat))
  OBVIOUS
<1> QED
  BY <1>1, <1>2

(* An application reports.                                                 *)
LEMMA ReportInv ==
    ASSUME Inv, NEW p \in Producers, ReportSecurityEvent(p)
    PROVE  Inv'
<1> USE DEF Inv
<1>1. /\ pc[p] = "idle" /\ pc \in [Threads -> Places] /\ p \in Threads /\ p \notin Handlers
  BY TheThreads DEF PlacesTyped, ReportSecurityEvent, reports, caches, queues, results, control
<1>2. PICK l \in {"request"} : Goto(p, l)
  BY DEF ReportSecurityEvent, reports, caches, queues, results, control
<1>3. /\ pc' \in [Threads -> Places] /\ pc'[p] = l
      /\ \A u \in Threads : u # p => pc'[u] = pc[u]
      /\ \A u \in Handlers : pc'[u] = pc[u]
      /\ \A k : At(k)' = At(k) + (IF k = l THEN 1 ELSE 0) - (IF k = pc[p] THEN 1 ELSE 0)
      /\ Spending' = Spending
  <2>1. l \in Places
    BY DEF Places
  <2> QED
    BY <1>1, <1>2, <2>1, ProducerMoves
<1>4. /\ At("count")' = At("count")
      /\ At("urgent")' = At("urgent")
      /\ At("submitUrgent")' = At("submitUrgent")
      /\ At("giveBack")' = At("giveBack")
      /\ At("upload")' = At("upload")
  <2>1. \A k : At(k) \in Nat
    BY AtNat
  <2> QED
    BY <1>1, <1>3, <2>1
<1>5. DataTyped'
  BY <1>1 DEF DataTyped, ReportSecurityEvent, reports, caches, queues, results, control
<1>6. PlacesTyped'
  BY <1>1, <1>3, TheThreads DEF PlacesTyped, DataTyped, InTask, ReportSecurityEvent, reports,
     caches, queues, results, control
<1>7. NothingYet'
  BY DEF NothingYet, ReportSecurityEvent, control
<1>8. CountersInv'
  <2>1. UNCHANGED queues
    BY DEF ReportSecurityEvent, reports, caches, queues, results, control
  <2>2. Running("queue")' = Running("queue") /\ Running("crucial")' = Running("crucial")
    BY <1>3, TheThreads DEF Running
  <2> QED
    BY <1>4, <2>1, <2>2, QuietCounters
<1>9. BucketsInv'
  <2>1. UNCHANGED <<tokenBucket, reports>>
    BY DEF ReportSecurityEvent, reports, caches, queues, results, control
  <2> QED
    BY <1>3, <1>4, <2>1, QuietBuckets
<1> QED
  BY <1>5, <1>6, <1>7, <1>8, <1>9

(* The token is taken, from a bucket that may have none.                   *)
LEMMA TakeRequestTokenInv ==
    ASSUME Inv, NEW p \in Producers, TakeRequestToken(p)
    PROVE  Inv'
<1> USE DEF Inv
<1>1. /\ pc[p] = "request" /\ pc \in [Threads -> Places] /\ p \in Threads /\ p \notin Handlers
  BY TheThreads DEF PlacesTyped, TakeRequestToken, reports, caches, queues, results, control
<1>2. PICK l \in {"giveBack", "upload"} : Goto(p, l)
  BY DEF TakeRequestToken, reports, caches, queues, results, control
<1>3. /\ pc' \in [Threads -> Places] /\ pc'[p] = l
      /\ \A u \in Threads : u # p => pc'[u] = pc[u]
      /\ \A u \in Handlers : pc'[u] = pc[u]
      /\ \A k : At(k)' = At(k) + (IF k = l THEN 1 ELSE 0) - (IF k = pc[p] THEN 1 ELSE 0)
      /\ Spending' = Spending
  <2>1. l \in Places
    BY DEF Places
  <2> QED
    BY <1>1, <1>2, <2>1, ProducerMoves
<1>4. /\ At("count")' = At("count")
      /\ At("urgent")' = At("urgent")
      /\ At("submitUrgent")' = At("submitUrgent")
      /\ At("giveBack")' = At("giveBack") + (IF l = "giveBack" THEN 1 ELSE 0)
      /\ At("upload")' = At("upload") + (IF l = "upload" THEN 1 ELSE 0)
  <2>1. \A k : At(k) \in Nat
    BY AtNat
  <2> QED
    BY <1>1, <1>3, <2>1
<1>5. DataTyped'
  BY <1>1 DEF DataTyped, TakeRequestToken, reports, caches, queues, results, control
<1>6. PlacesTyped'
  BY <1>1, <1>3, TheThreads DEF PlacesTyped, DataTyped, InTask, TakeRequestToken, reports, caches,
     queues, results, control
<1>7. NothingYet'
  <2>1. service # "down" /\ service' = service
    BY <1>1, NobodyYet DEF TakeRequestToken, reports, caches, queues, results, control
  <2> QED
    BY <2>1 DEF NothingYet
<1>8. CountersInv'
  <2>1. UNCHANGED queues
    BY DEF TakeRequestToken, reports, caches, queues, results, control
  <2>2. Running("queue")' = Running("queue") /\ Running("crucial")' = Running("crucial")
    BY <1>3, TheThreads DEF Running
  <2> QED
    BY <1>4, <2>1, <2>2, QuietCounters
<1>9. BucketsInv'
  <2>1. At("giveBack") \in Nat /\ At("upload") \in Nat /\ requestBucket \in Int /\ unspent \in Int
    BY AtNat DEF DataTyped
  <2>2. /\ requestBucket' = requestBucket - 1 /\ unspent' = unspent /\ tokenBucket' = tokenBucket
        /\ pc'[p] = IF requestBucket <= 0 THEN "giveBack" ELSE "upload"
    BY <1>1 DEF TakeRequestToken, Goto
  <2>3. (requestBucket <= 0 => l = "giveBack") /\ (requestBucket > 0 => l = "upload")
    BY <1>3, <2>1, <2>2
  <2>4. requestBucket' >= -At("giveBack")'
    BY <1>4, <2>1, <2>2, <2>3 DEF BucketsInv
  <2>5. requestBucket' = unspent' - At("giveBack")' - At("upload")'
    BY <1>4, <2>1, <2>2 DEF BucketsInv
  <2> QED
    BY <1>3, <2>2, <2>4, <2>5 DEF BucketsInv
<1> QED
  BY <1>5, <1>6, <1>7, <1>8, <1>9

(* The token that was not there is given back.                            *)
LEMMA GiveBackTokenInv ==
    ASSUME Inv, NEW p \in Producers, GiveBackToken(p)
    PROVE  Inv'
<1> USE DEF Inv
<1>1. /\ pc[p] = "giveBack" /\ pc \in [Threads -> Places] /\ p \in Threads /\ p \notin Handlers
  BY TheThreads DEF PlacesTyped, GiveBackToken, reports, caches, queues, results, control
<1>2. PICK l \in {"idle"} : Goto(p, l)
  BY DEF GiveBackToken, reports, caches, queues, results, control
<1>3. /\ pc' \in [Threads -> Places] /\ pc'[p] = l
      /\ \A u \in Threads : u # p => pc'[u] = pc[u]
      /\ \A u \in Handlers : pc'[u] = pc[u]
      /\ \A k : At(k)' = At(k) + (IF k = l THEN 1 ELSE 0) - (IF k = pc[p] THEN 1 ELSE 0)
      /\ Spending' = Spending
  <2>1. l \in Places
    BY DEF Places
  <2> QED
    BY <1>1, <1>2, <2>1, ProducerMoves
<1>4. /\ At("count")' = At("count")
      /\ At("urgent")' = At("urgent")
      /\ At("submitUrgent")' = At("submitUrgent")
      /\ At("giveBack")' = At("giveBack") - 1
      /\ At("upload")' = At("upload")
  <2>1. \A k : At(k) \in Nat
    BY AtNat
  <2> QED
    BY <1>1, <1>3, <2>1
<1>5. DataTyped'
  BY <1>1 DEF DataTyped, GiveBackToken, reports, caches, queues, results, control
<1>6. PlacesTyped'
  BY <1>1, <1>3, TheThreads DEF PlacesTyped, DataTyped, InTask, GiveBackToken, reports, caches,
     queues, results, control
<1>7. NothingYet'
  <2>1. service # "down" /\ service' = service
    BY <1>1, NobodyYet DEF GiveBackToken, reports, caches, queues, results, control
  <2> QED
    BY <2>1 DEF NothingYet
<1>8. CountersInv'
  <2>1. UNCHANGED queues
    BY DEF GiveBackToken, reports, caches, queues, results, control
  <2>2. Running("queue")' = Running("queue") /\ Running("crucial")' = Running("crucial")
    BY <1>3, TheThreads DEF Running
  <2> QED
    BY <1>4, <2>1, <2>2, QuietCounters
<1>9. BucketsInv'
  <2>1. At("giveBack") \in Nat /\ At("upload") \in Nat /\ requestBucket \in Int /\ unspent \in Int
    BY AtNat DEF DataTyped
  <2>2. requestBucket' = requestBucket + 1 /\ unspent' = unspent /\ tokenBucket' = tokenBucket
    BY DEF GiveBackToken
  <2> QED
    BY <1>3, <1>4, <2>1, <2>2 DEF BucketsInv
<1> QED
  BY <1>5, <1>6, <1>7, <1>8, <1>9

(* The test of g_taskCount.                                                *)
LEMMA TestTaskCountInv ==
    ASSUME Inv, NEW p \in Producers, TestTaskCount(p), UNCHANGED reports
    PROVE  Inv'
<1> USE DEF Inv
<1>1. /\ pc[p] = "batch" /\ pc \in [Threads -> Places] /\ p \in Threads /\ p \notin Handlers
  BY TheThreads DEF PlacesTyped, TestTaskCount, reports, caches, queues, results, control
<1>2. PICK l \in {"idle", "submit"} : Goto(p, l)
  BY DEF TestTaskCount, reports, caches, queues, results, control
<1>3. /\ pc' \in [Threads -> Places] /\ pc'[p] = l
      /\ \A u \in Threads : u # p => pc'[u] = pc[u]
      /\ \A u \in Handlers : pc'[u] = pc[u]
      /\ \A k : At(k)' = At(k) + (IF k = l THEN 1 ELSE 0) - (IF k = pc[p] THEN 1 ELSE 0)
      /\ Spending' = Spending
  <2>1. l \in Places
    BY DEF Places
  <2> QED
    BY <1>1, <1>2, <2>1, ProducerMoves
<1>4. /\ At("count")' = At("count")
      /\ At("urgent")' = At("urgent")
      /\ At("submitUrgent")' = At("submitUrgent")
      /\ At("giveBack")' = At("giveBack")
      /\ At("upload")' = At("upload")
  <2>1. \A k : At(k) \in Nat
    BY AtNat
  <2> QED
    BY <1>1, <1>3, <2>1
<1>5. DataTyped'
  <2>1. todo' = todo \/ todo' = [todo EXCEPT ![p] = <<>>]
    BY DEF TestTaskCount
  <2>2. todo \in [Threads -> Seq(Nat)] /\ [todo EXCEPT ![p] = <<>>] \in [Threads -> Seq(Nat)]
    BY <1>1, InHand DEF DataTyped
  <2> QED
    BY <2>1, <2>2 DEF DataTyped, TestTaskCount, reports, caches, queues, control
<1>6. PlacesTyped'
  BY <1>1, <1>3, TheThreads DEF PlacesTyped, DataTyped, InTask, TestTaskCount, reports, caches,
     queues, results, control
<1>7. NothingYet'
  <2>1. service # "down" /\ service' = service
    BY <1>1, NobodyYet DEF TestTaskCount, reports, caches, queues, results, control
  <2> QED
    BY <2>1 DEF NothingYet
<1>8. CountersInv'
  <2>1. UNCHANGED queues
    BY DEF TestTaskCount, reports, caches, queues, results, control
  <2>2. Running("queue")' = Running("queue") /\ Running("crucial")' = Running("crucial")
    BY <1>3, TheThreads DEF Running
  <2> QED
    BY <1>4, <2>1, <2>2, QuietCounters
<1>9. BucketsInv'
  <2>1. UNCHANGED <<tokenBucket, reports>>
    BY DEF TestTaskCount, reports, caches, queues, results, control
  <2> QED
    BY <1>3, <1>4, <2>1, QuietBuckets
<1> QED
  BY <1>5, <1>6, <1>7, <1>8, <1>9

(* A batch joins the queue and is counted later.                           *)
LEMMA SubmitBatchInv ==
    ASSUME Inv, NEW p \in Producers, SubmitBatch(p), UNCHANGED reports
    PROVE  Inv'
<1> USE DEF Inv
<1>1. /\ pc[p] = "submit" /\ pc \in [Threads -> Places] /\ p \in Threads /\ p \notin Handlers
  BY TheThreads DEF PlacesTyped, SubmitBatch, reports, caches, queues, results, control
<1>2. PICK l \in {"count", "idle"} : Goto(p, l)
  BY DEF SubmitBatch, reports, caches, queues, results, control
<1>3. /\ pc' \in [Threads -> Places] /\ pc'[p] = l
      /\ \A u \in Threads : u # p => pc'[u] = pc[u]
      /\ \A u \in Handlers : pc'[u] = pc[u]
      /\ \A k : At(k)' = At(k) + (IF k = l THEN 1 ELSE 0) - (IF k = pc[p] THEN 1 ELSE 0)
      /\ Spending' = Spending
  <2>1. l \in Places
    BY DEF Places
  <2> QED
    BY <1>1, <1>2, <2>1, ProducerMoves
<1>4. /\ At("count")' = At("count") + (IF l = "count" THEN 1 ELSE 0)
      /\ At("urgent")' = At("urgent")
      /\ At("submitUrgent")' = At("submitUrgent")
      /\ At("giveBack")' = At("giveBack")
      /\ At("upload")' = At("upload")
  <2>1. \A k : At(k) \in Nat
    BY AtNat
  <2> QED
    BY <1>1, <1>3, <2>1
<1>5. DataTyped'
  <2>1. todo' \in [Threads -> Seq(Nat)]
    BY <1>1, InHand DEF SubmitBatch, DataTyped
  <2>2. queue' \in Seq(Seq(Nat))
    <3>1. todo[p] \in Seq(Nat)
      BY <1>1 DEF DataTyped
    <3>2. queue' \in {queue, Append(queue, todo[p])} /\ queue \in Seq(Seq(Nat))
      BY DEF SubmitBatch, DataTyped
    <3> QED
      BY <3>1, <3>2, OfSequences
  <2> QED
    BY <2>1, <2>2 DEF DataTyped, SubmitBatch, reports, caches, control
<1>6. PlacesTyped'
  BY <1>1, <1>3, TheThreads DEF PlacesTyped, DataTyped, InTask, SubmitBatch, reports, caches,
     queues, results, control
<1>7. NothingYet'
  <2>1. service # "down" /\ service' = service
    BY <1>1, NobodyYet DEF SubmitBatch, reports, caches, queues, results, control
  <2> QED
    BY <2>1 DEF NothingYet
<1>8. CountersInv'
  <2> SUFFICES ASSUME queueUp' PROVE CountersInv'
    BY DEF CountersInv
  <2>1. queueUp /\ queue' = Append(queue, todo[p]) /\ l = "count"
        /\ UNCHANGED <<taskCount, crucialTaskCount, crucialQueue>>
    BY <1>1, <1>3 DEF SubmitBatch, Goto
  <2>2. Len(queue') = Len(queue) + 1 /\ Len(queue) \in Nat
    BY <1>1, <2>1 DEF DataTyped
  <2>3. Running("queue")' = Running("queue") /\ Running("crucial")' = Running("crucial")
        /\ Running("queue") \in Nat
    BY <1>3, TheThreads DEF Running
  <2>4. At("count") \in Nat
    BY AtNat
  <2>5. Len(queue') + Running("queue")' - At("count")' = Len(queue) + Running("queue") - At("count")
    <3>1. At("count")' = At("count") + 1
      BY <1>4, <2>1
    <3> QED
      BY <2>2, <2>3, <2>4, <3>1
  <2> QED
    BY <1>4, <2>1, <2>3, <2>5 DEF CountersInv
<1>9. BucketsInv'
  <2>1. UNCHANGED <<tokenBucket, reports>>
    BY DEF SubmitBatch, reports, caches, queues, results, control
  <2> QED
    BY <1>3, <1>4, <2>1, QuietBuckets
<1> QED
  BY <1>5, <1>6, <1>7, <1>8, <1>9

(* The batch is counted, perhaps when its task has ended.                  *)
LEMMA CountTaskInv ==
    ASSUME Inv, NEW p \in Producers, CountTask(p), UNCHANGED reports
    PROVE  Inv'
<1> USE DEF Inv
<1>1. /\ pc[p] = "count" /\ pc \in [Threads -> Places] /\ p \in Threads /\ p \notin Handlers
  BY TheThreads DEF PlacesTyped, CountTask, reports, caches, queues, results, control
<1>2. PICK l \in {"idle"} : Goto(p, l)
  BY DEF CountTask, reports, caches, queues, results, control
<1>3. /\ pc' \in [Threads -> Places] /\ pc'[p] = l
      /\ \A u \in Threads : u # p => pc'[u] = pc[u]
      /\ \A u \in Handlers : pc'[u] = pc[u]
      /\ \A k : At(k)' = At(k) + (IF k = l THEN 1 ELSE 0) - (IF k = pc[p] THEN 1 ELSE 0)
      /\ Spending' = Spending
  <2>1. l \in Places
    BY DEF Places
  <2> QED
    BY <1>1, <1>2, <2>1, ProducerMoves
<1>4. /\ At("count")' = At("count") - 1
      /\ At("urgent")' = At("urgent")
      /\ At("submitUrgent")' = At("submitUrgent")
      /\ At("giveBack")' = At("giveBack")
      /\ At("upload")' = At("upload")
  <2>1. \A k : At(k) \in Nat
    BY AtNat
  <2> QED
    BY <1>1, <1>3, <2>1
<1>5. DataTyped'
  <2>1. (taskCount + 1) % Modulus \in Nat
    BY PipelineAssumption DEF DataTyped
  <2> QED
    BY <2>1 DEF DataTyped, CountTask, reports, caches, control
<1>6. PlacesTyped'
  BY <1>1, <1>3, TheThreads DEF PlacesTyped, DataTyped, InTask, CountTask, reports, caches, queues,
     results, control
<1>7. NothingYet'
  <2>1. service # "down" /\ service' = service
    BY <1>1, NobodyYet DEF CountTask, reports, caches, queues, results, control
  <2> QED
    BY <2>1 DEF NothingYet
<1>8. CountersInv'
  <2> SUFFICES ASSUME queueUp' PROVE CountersInv'
    BY DEF CountersInv
  <2> DEFINE n == Len(queue) + Running("queue") - At("count")
  <2>1. /\ queueUp /\ taskCount' = (taskCount + 1) % Modulus
        /\ UNCHANGED <<crucialTaskCount, crucialQueue, queue>>
    BY DEF CountTask
  <2>2. Running("queue")' = Running("queue") /\ Running("crucial")' = Running("crucial")
        /\ Running("queue") \in Nat
    BY <1>3, TheThreads DEF Running
  <2>3. At("count") \in Nat /\ Len(queue) \in Nat /\ n \in Int
    BY <2>2, AtNat DEF DataTyped
  <2>4. taskCount = n % Modulus
    BY <2>1 DEF CountersInv
  <2>5. Len(queue') + Running("queue")' - At("count")' = n + 1
    BY <1>4, <2>1, <2>2, <2>3
  <2>6. taskCount' = (n + 1) % Modulus
    <3> HIDE DEF n
    <3> QED
      BY <2>1, <2>3, <2>4, WrapUp, PipelineAssumption
  <2> QED
    BY <1>4, <2>1, <2>2, <2>5, <2>6 DEF CountersInv
<1>9. BucketsInv'
  <2>1. UNCHANGED <<tokenBucket, reports>>
    BY DEF CountTask, reports, caches, queues, results, control
  <2> QED
    BY <1>3, <1>4, <2>1, QuietBuckets
<1> QED
  BY <1>5, <1>6, <1>7, <1>8, <1>9

(* An urgent event is counted before it joins its queue: the counter does  *)
(* not wrap.                                                               *)
LEMMA CountCrucialTaskInv ==
    ASSUME Inv, NEW p \in Producers, CountCrucialTask(p), UNCHANGED reports
    PROVE  Inv'
<1> USE DEF Inv
<1>1. /\ pc[p] = "urgent" /\ pc \in [Threads -> Places] /\ p \in Threads /\ p \notin Handlers
  BY TheThreads DEF PlacesTyped, CountCrucialTask, reports, caches, queues, results, control
<1>2. PICK l \in {"submitUrgent"} : Goto(p, l)
  BY DEF CountCrucialTask, reports, caches, queues, results, control
<1>3. /\ pc' \in [Threads -> Places] /\ pc'[p] = l
      /\ \A u \in Threads : u # p => pc'[u] = pc[u]
      /\ \A u \in Handlers : pc'[u] = pc[u]
      /\ \A k : At(k)' = At(k) + (IF k = l THEN 1 ELSE 0) - (IF k = pc[p] THEN 1 ELSE 0)
      /\ Spending' = Spending
  <2>1. l \in Places
    BY DEF Places
  <2> QED
    BY <1>1, <1>2, <2>1, ProducerMoves
<1>4. /\ At("count")' = At("count")
      /\ At("urgent")' = At("urgent") - 1
      /\ At("submitUrgent")' = At("submitUrgent") + 1
      /\ At("giveBack")' = At("giveBack")
      /\ At("upload")' = At("upload")
  <2>1. \A k : At(k) \in Nat
    BY AtNat
  <2> QED
    BY <1>1, <1>3, <2>1
<1>5. DataTyped'
  <2>1. (crucialTaskCount + 1) % Modulus \in Nat
    BY PipelineAssumption DEF DataTyped
  <2> QED
    BY <2>1 DEF DataTyped, CountCrucialTask, reports, caches, control
<1>6. PlacesTyped'
  BY <1>1, <1>3, TheThreads DEF PlacesTyped, DataTyped, InTask, CountCrucialTask, reports, caches,
     queues, results, control
<1>7. NothingYet'
  <2>1. service # "down" /\ service' = service
    BY <1>1, NobodyYet DEF CountCrucialTask, reports, caches, queues, results, control
  <2> QED
    BY <2>1 DEF NothingYet
<1>8. CountersInv'
  <2> SUFFICES ASSUME queueUp' PROVE CountersInv'
    BY DEF CountersInv
  <2>1. /\ queueUp /\ crucialTaskCount' = (crucialTaskCount + 1) % Modulus
        /\ UNCHANGED <<taskCount, crucialQueue, queue>>
    BY DEF CountCrucialTask
  <2>2. /\ Running("queue")' = Running("queue") /\ Running("crucial")' = Running("crucial")
        /\ Running("crucial") \in Nat
    BY <1>3, TheThreads DEF Running
  <2>3. /\ At("urgent") \in Nat /\ At("submitUrgent") \in Nat /\ Len(crucialQueue) \in Nat
        /\ crucialTaskCount \in Nat /\ At("urgent") >= 1
    <3>1. \E u \in Producers : pc[u] = "urgent"
      BY <1>1
    <3>2. {u \in Producers : pc[u] = "urgent"} # {}
            /\ IsFiniteSet({u \in Producers : pc[u] = "urgent"})
      BY <3>1, TheThreads, FS_Subset
    <3>3. At("urgent") # 0
      BY <3>2, FS_EmptySet DEF At
    <3> QED
      BY <3>3, AtNat DEF DataTyped
  <2>4. crucialTaskCount + 1 \in 0 .. Modulus - 1
    BY <2>1, <2>3, TheThreads, PipelineAssumption DEF CountersInv
  <2>5. crucialTaskCount' = crucialTaskCount + 1
    BY <2>1, <2>4, SmallRemainder, PipelineAssumption
  <2> QED
    BY <1>4, <2>1, <2>2, <2>3, <2>5 DEF CountersInv
<1>9. BucketsInv'
  <2>1. UNCHANGED <<tokenBucket, reports>>
    BY DEF CountCrucialTask, reports, caches, queues, results, control
  <2> QED
    BY <1>3, <1>4, <2>1, QuietBuckets
<1> QED
  BY <1>5, <1>6, <1>7, <1>8, <1>9

(* It joins the queue, or is uncounted when there is none.                 *)
LEMMA SubmitCrucialInv ==
    ASSUME Inv, NEW p \in Producers, SubmitCrucial(p), UNCHANGED reports
    PROVE  Inv'
<1> USE DEF Inv
<1>1. /\ pc[p] = "submitUrgent" /\ pc \in [Threads -> Places] /\ p \in Threads /\ p \notin Handlers
  BY TheThreads DEF PlacesTyped, SubmitCrucial, reports, caches, queues, results, control
<1>2. PICK l \in {"idle"} : Goto(p, l)
  BY DEF SubmitCrucial, reports, caches, queues, results, control
<1>3. /\ pc' \in [Threads -> Places] /\ pc'[p] = l
      /\ \A u \in Threads : u # p => pc'[u] = pc[u]
      /\ \A u \in Handlers : pc'[u] = pc[u]
      /\ \A k : At(k)' = At(k) + (IF k = l THEN 1 ELSE 0) - (IF k = pc[p] THEN 1 ELSE 0)
      /\ Spending' = Spending
  <2>1. l \in Places
    BY DEF Places
  <2> QED
    BY <1>1, <1>2, <2>1, ProducerMoves
<1>4. /\ At("count")' = At("count")
      /\ At("urgent")' = At("urgent")
      /\ At("submitUrgent")' = At("submitUrgent") - 1
      /\ At("giveBack")' = At("giveBack")
      /\ At("upload")' = At("upload")
  <2>1. \A k : At(k) \in Nat
    BY AtNat
  <2> QED
    BY <1>1, <1>3, <2>1
<1>5. DataTyped'
  <2>1. (crucialTaskCount - 1) % Modulus \in Nat
    BY PipelineAssumption DEF DataTyped
  <2>2. todo[p] \in Seq(Nat) /\ todo[p] # <<>>
    BY <1>1 DEF DataTyped, PlacesTyped
  <2>3. todo[p][1] \in Nat
    BY <2>2
  <2>4. Append(crucialQueue, todo[p][1]) \in Seq(Nat)
    BY <2>3 DEF DataTyped
  <2>5. todo' \in [Threads -> Seq(Nat)]
    BY <1>1, InHand DEF SubmitCrucial, DataTyped
  <2> QED
    BY <2>1, <2>4, <2>5 DEF DataTyped, SubmitCrucial, reports, caches, control
<1>6. PlacesTyped'
  BY <1>1, <1>3, TheThreads DEF PlacesTyped, DataTyped, InTask, SubmitCrucial, reports, caches,
     queues, results, control
<1>7. NothingYet'
  <2>1. service # "down" /\ service' = service
    BY <1>1, NobodyYet DEF SubmitCrucial, reports, caches, queues, results, control
  <2> QED
    BY <2>1 DEF NothingYet
<1>8. CountersInv'
  <2> SUFFICES ASSUME queueUp' PROVE CountersInv'
    BY DEF CountersInv
  <2>1. /\ queueUp /\ crucialQueue' = Append(crucialQueue, todo[p][1])
        /\ UNCHANGED <<taskCount, crucialTaskCount, queue>>
    BY DEF SubmitCrucial
  <2>2. /\ Running("queue")' = Running("queue") /\ Running("crucial")' = Running("crucial")
        /\ Running("crucial") \in Nat
    BY <1>3, TheThreads DEF Running
  <2>3. Len(crucialQueue') = Len(crucialQueue) + 1 /\ Len(crucialQueue) \in Nat
    BY <2>1 DEF DataTyped
  <2>4. At("submitUrgent") \in Nat
    BY AtNat
  <2> QED
    BY <1>4, <2>1, <2>2, <2>3, <2>4 DEF CountersInv
<1>9. BucketsInv'
  <2>1. UNCHANGED <<tokenBucket, reports>>
    BY DEF SubmitCrucial, reports, caches, queues, results, control
  <2> QED
    BY <1>3, <1>4, <2>1, QuietBuckets
<1> QED
  BY <1>5, <1>6, <1>7, <1>8, <1>9

(* An event comes in: it joins the batch, fills it, goes its own way, or   *)
(* is dropped at the limit of the tasks.  A report that brings it gives up *)
(* its token.                                                              *)
LEMMA UploadEventInv ==
    ASSUME Inv, NEW p \in Producers, NEW k \in Kinds, UploadEvent(p, k), service # "down",
           \/ pc[p] = "idle" /\ UNCHANGED reports
           \/ pc[p] = "upload" /\ requestBucket' = requestBucket /\ unspent' = unspent - 1
    PROVE  Inv'
<1> USE DEF Inv
<1>1. /\ pc[p] \in {"idle", "upload"} /\ pc \in [Threads -> Places] /\ p \in Threads
         /\ p \notin Handlers
  BY TheThreads DEF PlacesTyped
<1>2. PICK l \in {"idle", "batch", "urgent"} : Goto(p, l)
  BY DEF UploadEvent, UploadBatched, UploadUrgent
<1>3. /\ pc' \in [Threads -> Places] /\ pc'[p] = l
      /\ \A u \in Threads : u # p => pc'[u] = pc[u]
      /\ \A u \in Handlers : pc'[u] = pc[u]
      /\ \A m : At(m)' = At(m) + (IF m = l THEN 1 ELSE 0) - (IF m = pc[p] THEN 1 ELSE 0)
      /\ Spending' = Spending
  <2>1. l \in Places
    BY DEF Places
  <2> QED
    BY <1>1, <1>2, <2>1, ProducerMoves
<1>4. /\ At("count")' = At("count") /\ At("submitUrgent")' = At("submitUrgent")
      /\ At("giveBack")' = At("giveBack")
      /\ At("upload")' = At("upload") - (IF pc[p] = "upload" THEN 1 ELSE 0)
      /\ At("urgent")' = At("urgent") + (IF l = "urgent" THEN 1 ELSE 0)
  <2>1. \A m : At(m) \in Nat
    BY AtNat
  <2> QED
    BY <1>1, <1>3, <2>1
<1>5. /\ UNCHANGED <<events, queues, tokenBucket, service, out>>
      /\ l = "urgent" => ~(crucialTaskCount > MaxTasks) /\ todo'[p] = <<Len(sent) + 1>>
      /\ l # "urgent" => l \in {"idle", "batch"}
  BY <1>1, <1>2, <1>3 DEF UploadEvent, UploadBatched, UploadUrgent, caches, queues, Goto, DataTyped
<1>6. DataTyped'
  <2>1. sent' \in Seq(Kinds)
    BY OfSequences DEF UploadEvent, DataTyped
  <2>2. Len(sent) + 1 \in Nat
    BY DEF DataTyped
  <2>3. Append(notifyEvents, Len(sent) + 1) \in Seq(Nat) /\ <<Len(sent) + 1>> \in Seq(Nat)
          /\ <<>> \in Seq(Nat)
    BY <2>2 DEF DataTyped
  <2>4. /\ notifyEvents' \in Seq(Nat)
        /\ \E s \in Seq(Nat) : todo' = todo \/ todo' = [todo EXCEPT ![p] = s]
    <3>1. CASE UploadBatched(p, k)
      <4> DEFINE full == Len(notifyEvents) + 1 >= NotifyBatch
                 s == IF full THEN Append(notifyEvents, Len(sent) + 1) ELSE <<>>
      <4>1. s \in Seq(Nat) /\ todo' = [todo EXCEPT ![p] = s]
        BY <2>3, <3>1 DEF UploadBatched
      <4>2. notifyEvents' \in Seq(Nat)
        BY <2>3, <3>1 DEF UploadBatched
      <4> QED
        BY <4>1, <4>2
    <3>2. CASE UploadUrgent(p, k)
      BY <2>3, <3>2 DEF UploadUrgent, caches, DataTyped
    <3> QED
      BY <3>1, <3>2 DEF UploadEvent
  <2>5. todo' \in [Threads -> Seq(Nat)]
    <3>1. PICK s \in Seq(Nat) : todo' = todo \/ todo' = [todo EXCEPT ![p] = s]
      BY <2>4
    <3>2. todo \in [Threads -> Seq(Nat)] /\ [todo EXCEPT ![p] = s] \in [Threads -> Seq(Nat)]
      BY <1>1, InHand DEF DataTyped
    <3> QED
      BY <3>1, <3>2
  <2>6. requestBucket' \in Int /\ unspent' \in Int
    BY DEF DataTyped, reports
  <2> QED
    BY <1>5, <2>1, <2>4, <2>5, <2>6 DEF DataTyped, queues
<1>7. PlacesTyped'
  <2>1. pc'[p] \in {"urgent", "submitUrgent"} => todo'[p] # <<>>
    BY <1>3, <1>5
  <2>2. \A u \in Threads : u # p => todo'[u] = todo[u]
    BY DEF UploadEvent, UploadBatched, UploadUrgent, DataTyped
  <2> QED
    BY <1>1, <1>3, <2>1, <2>2, TheThreads DEF PlacesTyped, InTask
<1>8. NothingYet'
  BY <1>5 DEF NothingYet
<1>9. CountersInv'
  <2> SUFFICES ASSUME queueUp' PROVE CountersInv'
    BY DEF CountersInv
  <2>1. queueUp /\ UNCHANGED <<queue, crucialQueue, taskCount, crucialTaskCount>>
    BY <1>5 DEF queues
  <2>2. Running("queue")' = Running("queue") /\ Running("crucial")' = Running("crucial")
    BY <1>3, TheThreads DEF Running
  <2>3. crucialTaskCount' + At("urgent")' <= MaxTasks + Cardinality(Producers)
    <3>1. CASE l = "urgent"
      <4>1. At("urgent")' \in Nat /\ At("urgent")' <= Cardinality(Producers)
        <5>1. {u \in Producers : pc'[u] = "urgent"} \in SUBSET Producers
          OBVIOUS
        <5> QED
          BY <5>1, TheThreads, FS_Subset, FS_CardinalityType DEF At
      <4>2. crucialTaskCount \in Nat /\ crucialTaskCount <= MaxTasks
              /\ crucialTaskCount' = crucialTaskCount
        BY <1>5, <2>1, <3>1, PipelineAssumption DEF DataTyped
      <4> QED
        BY <4>1, <4>2, TheThreads, PipelineAssumption
    <3>2. CASE l # "urgent"
      BY <1>4, <2>1, <3>2, AtNat DEF CountersInv
    <3> QED
      BY <3>1, <3>2
  <2> QED
    BY <1>4, <2>1, <2>2, <2>3 DEF CountersInv
<1>10. BucketsInv'
  <2>1. At("giveBack") \in Nat /\ At("upload") \in Nat /\ requestBucket \in Int /\ unspent \in Int
    BY AtNat DEF DataTyped
  <2>2. tokenBucket' = tokenBucket
    BY <1>5
  <2> QED
    BY <1>1, <1>3, <1>4, <2>1, <2>2 DEF BucketsInv, reports
<1> QED
  BY <1>6, <1>7, <1>8, <1>9, <1>10

(* A collector calls.                                                      *)
LEMMA OnNotifyInv ==
    ASSUME Inv, NEW p \in Producers, NEW k \in Kinds, OnNotify(p, k)
    PROVE  Inv'
  BY UploadEventInv DEF OnNotify

(* The event of a report is refused: its token is gone.                    *)
LEMMA RefusedInv ==
    ASSUME Inv, NEW p \in Producers, pc[p] = "upload", Goto(p, "idle"), unspent' = unspent - 1,
           requestBucket' = requestBucket,
           UNCHANGED <<caches, queues, tokenBucket, results, control, todo, out>>
    PROVE  Inv'
<1> USE DEF Inv
<1>1. /\ pc[p] = "upload" /\ pc \in [Threads -> Places] /\ p \in Threads /\ p \notin Handlers
  BY TheThreads DEF PlacesTyped, reports, caches, queues, results, control
<1>2. PICK l \in {"idle"} : Goto(p, l)
  BY DEF reports, caches, queues, results, control
<1>3. /\ pc' \in [Threads -> Places] /\ pc'[p] = l
      /\ \A u \in Threads : u # p => pc'[u] = pc[u]
      /\ \A u \in Handlers : pc'[u] = pc[u]
      /\ \A k : At(k)' = At(k) + (IF k = l THEN 1 ELSE 0) - (IF k = pc[p] THEN 1 ELSE 0)
      /\ Spending' = Spending
  <2>1. l \in Places
    BY DEF Places
  <2> QED
    BY <1>1, <1>2, <2>1, ProducerMoves
<1>4. /\ At("count")' = At("count")
      /\ At("urgent")' = At("urgent")
      /\ At("submitUrgent")' = At("submitUrgent")
      /\ At("giveBack")' = At("giveBack")
      /\ At("upload")' = At("upload") - 1
  <2>1. \A k : At(k) \in Nat
    BY AtNat
  <2> QED
    BY <1>1, <1>3, <2>1
<1>5. DataTyped'
  BY <1>1 DEF DataTyped, reports, caches, queues, results, control
<1>6. PlacesTyped'
  BY <1>1, <1>3, TheThreads DEF PlacesTyped, DataTyped, InTask, reports, caches, queues, results,
     control
<1>7. NothingYet'
  <2>1. service # "down" /\ service' = service
    BY <1>1, NobodyYet DEF reports, caches, queues, results, control
  <2> QED
    BY <2>1 DEF NothingYet
<1>8. CountersInv'
  <2>1. UNCHANGED queues
    BY DEF reports, caches, queues, results, control
  <2>2. Running("queue")' = Running("queue") /\ Running("crucial")' = Running("crucial")
    BY <1>3, TheThreads DEF Running
  <2> QED
    BY <1>4, <2>1, <2>2, QuietCounters
<1>9. BucketsInv'
  <2>1. At("giveBack") \in Nat /\ At("upload") \in Nat /\ requestBucket \in Int /\ unspent \in Int
    BY AtNat DEF DataTyped
  <2> QED
    BY <1>3, <1>4, <2>1 DEF BucketsInv
<1> QED
  BY <1>5, <1>6, <1>7, <1>8, <1>9

LEMMA RequestDataSubmitInv ==
    ASSUME Inv, NEW p \in Producers, RequestDataSubmit(p)
    PROVE  Inv'
<1>1. /\ pc[p] = "upload" /\ unspent' = unspent - 1 /\ requestBucket' = requestBucket
         /\ p \in Threads
  BY TheThreads DEF RequestDataSubmit
<1>2. PICK k \in Reported :
         \/ UploadEvent(p, k)
         \/ Goto(p, "idle")
            /\ UNCHANGED <<caches, queues, tokenBucket, results, control, todo, out>>
  BY DEF RequestDataSubmit
<1>3. k \in Kinds /\ service # "down"
  BY <1>1, NobodyYet, PipelineAssumption
<1> QED
  BY <1>1, <1>2, <1>3, UploadEventInv, RefusedInv

(* The queue takes up its next batch.                                      *)
LEMMA TakeBatchInv ==
    ASSUME Inv, TakeBatch, UNCHANGED reports
    PROVE  Inv'
<1> USE DEF Inv
<1>1. /\ pc["queue"] = "idle" /\ pc \in [Threads -> Places] /\ "queue" \in Threads
         /\ "queue" \in Handlers
  BY TheThreads DEF PlacesTyped, TakeBatch, reports, caches, queues, results, control
<1>2. PICK l \in {"task"} : Goto("queue", l)
  BY DEF TakeBatch, reports, caches, queues, results, control
<1>3. /\ pc' \in [Threads -> Places] /\ pc'["queue"] = l
      /\ \A u \in Threads : u # "queue" => pc'[u] = pc[u]
      /\ \A k : At(k)' = At(k)
      /\ Cardinality(Spending)' = Cardinality(Spending) + (IF l = "spend" THEN 1 ELSE 0)
                                     - (IF pc["queue"] = "spend" THEN 1 ELSE 0)
      /\ Cardinality(Spending)' \in 0 .. 3 /\ Cardinality(Spending) \in 0 .. 3
  <2>1. l \in Places
    BY DEF Places
  <2> QED
    BY <1>1, <1>2, <2>1, HandlerMoves
<1>4. DataTyped'
  <2>1. queue # <<>> /\ queue' = Tail(queue) /\ todo' = [todo EXCEPT !["queue"] = Head(queue)]
    BY DEF TakeBatch
  <2>2. Head(queue) \in Seq(Nat) /\ queue' \in Seq(Seq(Nat))
    <3>1. queue \in Seq(Seq(Nat))
      BY DEF DataTyped
    <3> QED
      BY <2>1, <3>1, OfSequences
  <2>3. todo' \in [Threads -> Seq(Nat)]
    <3>1. todo \in [Threads -> Seq(Nat)]
      BY DEF DataTyped
    <3> QED
      BY <1>1, <2>1, <2>2, <3>1, InHand
  <2> QED
    BY <2>2, <2>3 DEF DataTyped, TakeBatch, reports, caches, control
<1>5. PlacesTyped'
  BY <1>1, <1>3, TheThreads DEF PlacesTyped, DataTyped, OfHandlers, InTask, TakeBatch, reports,
     caches, queues, results, control
<1>6. NothingYet'
  <2>1. service # "down" /\ service' = service
    BY <1>1, NobodyYet DEF TakeBatch, reports, caches, queues, results, control, NothingYet
  <2> QED
    BY <2>1 DEF NothingYet
<1>7. CountersInv'
  <2> SUFFICES ASSUME queueUp' PROVE CountersInv'
    BY DEF CountersInv
  <2>1. queueUp /\ queue # <<>> /\ queue' = Tail(queue)
          /\ UNCHANGED <<crucialQueue, taskCount, crucialTaskCount>>
    BY DEF TakeBatch
  <2>2. Len(queue') = Len(queue) - 1 /\ Len(queue) \in Nat
    <3>1. queue \in Seq(Seq(Nat))
      BY DEF DataTyped
    <3> QED
      BY <2>1, <3>1, OfSequences
  <2>3. /\ Running("queue") = 0 /\ Running("queue")' = 1
        /\ Running("crucial")' = Running("crucial")
    BY <1>1, <1>2, <1>3, TheThreads DEF Running
  <2>4. At("count") \in Nat /\ At("submitUrgent") \in Nat
    BY AtNat
  <2>5. Len(queue') + Running("queue")' = Len(queue) + Running("queue")
    BY <2>2, <2>3
  <2> QED
    BY <1>3, <2>1, <2>2, <2>3, <2>4, <2>5 DEF CountersInv
<1>8. BucketsInv'
  <2>1. UNCHANGED <<tokenBucket, reports>>
    BY DEF TakeBatch, reports, caches, queues, results, control
  <2>2. Cardinality(Spending)' = Cardinality(Spending)
    BY <1>1, <1>2, <1>3
  <2> QED
    BY <1>3, <2>1, <2>2, QuietBuckets
<1> QED
  BY <1>4, <1>5, <1>6, <1>7, <1>8

(* The queue of urgent events takes up its next one.                       *)
LEMMA TakeCrucialInv ==
    ASSUME Inv, TakeCrucial, UNCHANGED reports
    PROVE  Inv'
<1> USE DEF Inv
<1>1. /\ pc["crucial"] = "idle" /\ pc \in [Threads -> Places] /\ "crucial" \in Threads
         /\ "crucial" \in Handlers
  BY TheThreads DEF PlacesTyped, TakeCrucial, reports, caches, queues, results, control
<1>2. PICK l \in {"task"} : Goto("crucial", l)
  BY DEF TakeCrucial, reports, caches, queues, results, control
<1>3. /\ pc' \in [Threads -> Places] /\ pc'["crucial"] = l
      /\ \A u \in Threads : u # "crucial" => pc'[u] = pc[u]
      /\ \A k : At(k)' = At(k)
      /\ Cardinality(Spending)' = Cardinality(Spending) + (IF l = "spend" THEN 1 ELSE 0)
                                     - (IF pc["crucial"] = "spend" THEN 1 ELSE 0)
      /\ Cardinality(Spending)' \in 0 .. 3 /\ Cardinality(Spending) \in 0 .. 3
  <2>1. l \in Places
    BY DEF Places
  <2> QED
    BY <1>1, <1>2, <2>1, HandlerMoves
<1>4. DataTyped'
  <2>1. crucialQueue # <<>> /\ crucialQueue' = Tail(crucialQueue)
          /\ todo' = [todo EXCEPT !["crucial"] = <<Head(crucialQueue)>>]
    BY DEF TakeCrucial
  <2>2. <<Head(crucialQueue)>> \in Seq(Nat) /\ crucialQueue' \in Seq(Nat)
    <3>1. crucialQueue \in Seq(Nat)
      BY DEF DataTyped
    <3> QED
      BY <2>1, <3>1
  <2>3. todo' \in [Threads -> Seq(Nat)]
    <3>1. todo \in [Threads -> Seq(Nat)]
      BY DEF DataTyped
    <3> QED
      BY <1>1, <2>1, <2>2, <3>1, InHand
  <2> QED
    BY <2>2, <2>3 DEF DataTyped, TakeCrucial, reports, caches, control
<1>5. PlacesTyped'
  BY <1>1, <1>3, TheThreads DEF PlacesTyped, DataTyped, OfHandlers, InTask, TakeCrucial, reports,
     caches, queues, results, control
<1>6. NothingYet'
  <2>1. service # "down" /\ service' = service
    BY <1>1, NobodyYet DEF TakeCrucial, reports, caches, queues, results, control, NothingYet
  <2> QED
    BY <2>1 DEF NothingYet
<1>7. CountersInv'
  <2> SUFFICES ASSUME queueUp' PROVE CountersInv'
    BY DEF CountersInv
  <2>1. queueUp /\ crucialQueue # <<>> /\ crucialQueue' = Tail(crucialQueue)
          /\ UNCHANGED <<queue, taskCount, crucialTaskCount>>
    BY DEF TakeCrucial
  <2>2. Len(crucialQueue') = Len(crucialQueue) - 1 /\ Len(crucialQueue) \in Nat
    <3>1. crucialQueue \in Seq(Nat)
      BY DEF DataTyped
    <3> QED
      BY <2>1, <3>1, OfSequences
  <2>3. /\ Running("crucial") = 0 /\ Running("crucial")' = 1
        /\ Running("queue")' = Running("queue")
    BY <1>1, <1>2, <1>3, TheThreads DEF Running
  <2>4. At("count") \in Nat /\ At("submitUrgent") \in Nat
    BY AtNat
  <2>5. Len(crucialQueue') + Running("crucial")' = Len(crucialQueue) + Running("crucial")
    BY <2>2, <2>3
  <2> QED
    BY <1>3, <2>1, <2>2, <2>3, <2>4, <2>5 DEF CountersInv
<1>8. BucketsInv'
  <2>1. UNCHANGED <<tokenBucket, reports>>
    BY DEF TakeCrucial, reports, caches, queues, results, control
  <2>2. Cardinality(Spending)' = Cardinality(Spending)
    BY <1>1, <1>2, <1>3
  <2> QED
    BY <1>3, <2>1, <2>2, QuietBuckets
<1> QED
  BY <1>4, <1>5, <1>6, <1>7, <1>8

(* The flush takes the cache of the store.                                 *)
LEMMA SwapEventsInv ==
    ASSUME Inv, SwapEvents, UNCHANGED reports
    PROVE  Inv'
<1> USE DEF Inv
<1>1. /\ pc["cleaner"] = "idle" /\ pc \in [Threads -> Places] /\ "cleaner" \in Threads
         /\ "cleaner" \in Handlers
  BY TheThreads DEF PlacesTyped, SwapEvents, reports, caches, queues, results, control
<1>2. PICK l \in {"flush"} : Goto("cleaner", l)
  BY DEF SwapEvents, reports, caches, queues, results, control
<1>3. /\ pc' \in [Threads -> Places] /\ pc'["cleaner"] = l
      /\ \A u \in Threads : u # "cleaner" => pc'[u] = pc[u]
      /\ \A k : At(k)' = At(k)
      /\ Cardinality(Spending)' = Cardinality(Spending) + (IF l = "spend" THEN 1 ELSE 0)
                                     - (IF pc["cleaner"] = "spend" THEN 1 ELSE 0)
      /\ Cardinality(Spending)' \in 0 .. 3 /\ Cardinality(Spending) \in 0 .. 3
  <2>1. l \in Places
    BY DEF Places
  <2> QED
    BY <1>1, <1>2, <2>1, HandlerMoves
<1>4. DataTyped'
  <2>1. out' = [out EXCEPT !["cleaner"] = events] /\ out \in [Threads -> Seq(Nat)]
          /\ events \in Seq(Nat)
    BY DEF SwapEvents, DataTyped
  <2>2. out' \in [Threads -> Seq(Nat)]
    BY <1>1, <2>1, InHand
  <2> QED
    BY <2>2 DEF DataTyped, SwapEvents, reports, caches, queues, control
<1>5. PlacesTyped'
  BY <1>1, <1>3, TheThreads DEF PlacesTyped, DataTyped, OfHandlers, InTask, SwapEvents, reports,
     caches, queues, results, control
<1>6. NothingYet'
  <2>1. service # "down" /\ service' = service
    BY <1>1, NobodyYet DEF SwapEvents, reports, caches, queues, results, control, NothingYet
  <2> QED
    BY <2>1 DEF NothingYet
<1>7. CountersInv'
  <2>1. UNCHANGED queues
    BY DEF SwapEvents, reports, caches, queues, results, control
  <2>2. Running("queue")' = Running("queue") /\ Running("crucial")' = Running("crucial")
    BY <1>1, <1>2, <1>3, TheThreads DEF Running
  <2> QED
    BY <1>3, <2>1, <2>2, QuietCounters
<1>8. BucketsInv'
  <2>1. UNCHANGED <<tokenBucket, reports>>
    BY DEF SwapEvents, reports, caches, queues, results, control
  <2>2. Cardinality(Spending)' = Cardinality(Spending)
    BY <1>1, <1>2, <1>3
  <2> QED
    BY <1>3, <2>1, <2>2, QuietBuckets
<1> QED
  BY <1>4, <1>5, <1>6, <1>7, <1>8

(* It inserts what it took.                                                *)
LEMMA InsertFlushedInv ==
    ASSUME Inv, InsertFlushed, UNCHANGED reports
    PROVE  Inv'
<1> USE DEF Inv
<1>1. /\ pc["cleaner"] = "flush" /\ pc \in [Threads -> Places] /\ "cleaner" \in Threads
         /\ "cleaner" \in Handlers
  BY TheThreads DEF PlacesTyped, InsertFlushed, reports, caches, queues, results, control
<1>2. PICK l \in {"swap"} : Goto("cleaner", l)
  BY DEF InsertFlushed, reports, caches, queues, results, control
<1>3. /\ pc' \in [Threads -> Places] /\ pc'["cleaner"] = l
      /\ \A u \in Threads : u # "cleaner" => pc'[u] = pc[u]
      /\ \A k : At(k)' = At(k)
      /\ Cardinality(Spending)' = Cardinality(Spending) + (IF l = "spend" THEN 1 ELSE 0)
                                     - (IF pc["cleaner"] = "spend" THEN 1 ELSE 0)
      /\ Cardinality(Spending)' \in 0 .. 3 /\ Cardinality(Spending) \in 0 .. 3
  <2>1. l \in Places
    BY DEF Places
  <2> QED
    BY <1>1, <1>2, <2>1, HandlerMoves
<1>4. DataTyped'
  <2>1. out' = [out EXCEPT !["cleaner"] = <<>>] /\ out \in [Threads -> Seq(Nat)]
          /\ <<>> \in Seq(Nat)
    BY DEF InsertFlushed, DataTyped
  <2>2. out' \in [Threads -> Seq(Nat)]
    BY <1>1, <2>1, InHand
  <2> QED
    BY <2>2 DEF DataTyped, InsertFlushed, reports, caches, queues, control
<1>5. PlacesTyped'
  BY <1>1, <1>3, TheThreads DEF PlacesTyped, DataTyped, OfHandlers, InTask, InsertFlushed, reports,
     caches, queues, results, control
<1>6. NothingYet'
  <2>1. service # "down" /\ service' = service
    BY <1>1, NobodyYet DEF InsertFlushed, reports, caches, queues, results, control
  <2> QED
    BY <2>1 DEF NothingYet
<1>7. CountersInv'
  <2>1. UNCHANGED queues
    BY DEF InsertFlushed, reports, caches, queues, results, control
  <2>2. Running("queue")' = Running("queue") /\ Running("crucial")' = Running("crucial")
    BY <1>1, <1>2, <1>3, TheThreads DEF Running
  <2> QED
    BY <1>3, <2>1, <2>2, QuietCounters
<1>8. BucketsInv'
  <2>1. UNCHANGED <<tokenBucket, reports>>
    BY DEF InsertFlushed, reports, caches, queues, results, control
  <2>2. Cardinality(Spending)' = Cardinality(Spending)
    BY <1>1, <1>2, <1>3
  <2> QED
    BY <1>3, <2>1, <2>2, QuietBuckets
<1> QED
  BY <1>4, <1>5, <1>6, <1>7, <1>8

(* And takes the unfinished batch.                                         *)
LEMMA SwapNotifyEventsInv ==
    ASSUME Inv, SwapNotifyEvents, UNCHANGED reports
    PROVE  Inv'
<1> USE DEF Inv
<1>1. /\ pc["cleaner"] = "swap" /\ pc \in [Threads -> Places] /\ "cleaner" \in Threads
         /\ "cleaner" \in Handlers
  BY TheThreads DEF PlacesTyped, SwapNotifyEvents, reports, caches, queues, results, control
<1>2. PICK l \in {"task"} : Goto("cleaner", l)
  BY DEF SwapNotifyEvents, reports, caches, queues, results, control
<1>3. /\ pc' \in [Threads -> Places] /\ pc'["cleaner"] = l
      /\ \A u \in Threads : u # "cleaner" => pc'[u] = pc[u]
      /\ \A k : At(k)' = At(k)
      /\ Cardinality(Spending)' = Cardinality(Spending) + (IF l = "spend" THEN 1 ELSE 0)
                                     - (IF pc["cleaner"] = "spend" THEN 1 ELSE 0)
      /\ Cardinality(Spending)' \in 0 .. 3 /\ Cardinality(Spending) \in 0 .. 3
  <2>1. l \in Places
    BY DEF Places
  <2> QED
    BY <1>1, <1>2, <2>1, HandlerMoves
<1>4. DataTyped'
  <2>1. todo' = [todo EXCEPT !["cleaner"] = notifyEvents] /\ todo \in [Threads -> Seq(Nat)]
          /\ notifyEvents \in Seq(Nat)
    BY DEF SwapNotifyEvents, DataTyped
  <2>2. todo' \in [Threads -> Seq(Nat)]
    BY <1>1, <2>1, InHand
  <2> QED
    BY <2>2 DEF DataTyped, SwapNotifyEvents, reports, caches, queues, control
<1>5. PlacesTyped'
  BY <1>1, <1>3, TheThreads DEF PlacesTyped, DataTyped, OfHandlers, InTask, SwapNotifyEvents,
     reports, caches, queues, results, control
<1>6. NothingYet'
  <2>1. service # "down" /\ service' = service
    BY <1>1, NobodyYet DEF SwapNotifyEvents, reports, caches, queues, results, control
  <2> QED
    BY <2>1 DEF NothingYet
<1>7. CountersInv'
  <2>1. UNCHANGED queues
    BY DEF SwapNotifyEvents, reports, caches, queues, results, control
  <2>2. Running("queue")' = Running("queue") /\ Running("crucial")' = Running("crucial")
    BY <1>1, <1>2, <1>3, TheThreads DEF Running
  <2> QED
    BY <1>3, <2>1, <2>2, QuietCounters
<1>8. BucketsInv'
  <2>1. UNCHANGED <<tokenBucket, reports>>
    BY DEF SwapNotifyEvents, reports, caches, queues, results, control
  <2>2. Cardinality(Spending)' = Cardinality(Spending)
    BY <1>1, <1>2, <1>3
  <2> QED
    BY <1>3, <2>1, <2>2, QuietBuckets
<1> QED
  BY <1>4, <1>5, <1>6, <1>7, <1>8

(* A handler inserts the cache it took full.                               *)
LEMMA InsertEventInv ==
    ASSUME Inv, NEW t \in Handlers, InsertEvent(t), UNCHANGED reports
    PROVE  Inv'
<1> USE DEF Inv
<1>1. /\ pc[t] = "insert" /\ pc \in [Threads -> Places] /\ t \in Threads /\ t \in Handlers
  BY TheThreads DEF PlacesTyped, InsertEvent, reports, caches, queues, results, control
<1>2. PICK l \in {"publish"} : Goto(t, l)
  BY DEF InsertEvent, reports, caches, queues, results, control
<1>3. /\ pc' \in [Threads -> Places] /\ pc'[t] = l
      /\ \A u \in Threads : u # t => pc'[u] = pc[u]
      /\ \A k : At(k)' = At(k)
      /\ Cardinality(Spending)' = Cardinality(Spending) + (IF l = "spend" THEN 1 ELSE 0)
                                     - (IF pc[t] = "spend" THEN 1 ELSE 0)
      /\ Cardinality(Spending)' \in 0 .. 3 /\ Cardinality(Spending) \in 0 .. 3
  <2>1. l \in Places
    BY DEF Places
  <2> QED
    BY <1>1, <1>2, <2>1, HandlerMoves
<1>4. DataTyped'
  <2>1. out' = [out EXCEPT ![t] = <<>>] /\ out \in [Threads -> Seq(Nat)] /\ <<>> \in Seq(Nat)
    BY DEF InsertEvent, DataTyped
  <2>2. out' \in [Threads -> Seq(Nat)]
    BY <1>1, <2>1, InHand
  <2> QED
    BY <2>2 DEF DataTyped, InsertEvent, reports, caches, queues, control
<1>5. PlacesTyped'
  BY <1>1, <1>3, TheThreads DEF PlacesTyped, DataTyped, OfHandlers, InTask, InsertEvent, reports,
     caches, queues, results, control
<1>6. NothingYet'
  <2>1. service # "down" /\ service' = service
    BY <1>1, NobodyYet DEF InsertEvent, reports, caches, queues, results, control
  <2> QED
    BY <2>1 DEF NothingYet
<1>7. CountersInv'
  <2>1. UNCHANGED queues
    BY DEF InsertEvent, reports, caches, queues, results, control
  <2>2. Running("queue")' = Running("queue") /\ Running("crucial")' = Running("crucial")
    BY <1>1, <1>2, <1>3, TheThreads DEF Running
  <2> QED
    BY <1>3, <2>1, <2>2, QuietCounters
<1>8. BucketsInv'
  <2>1. UNCHANGED <<tokenBucket, reports>>
    BY DEF InsertEvent, reports, caches, queues, results, control
  <2>2. Cardinality(Spending)' = Cardinality(Spending)
    BY <1>1, <1>2, <1>3
  <2> QED
    BY <1>3, <2>1, <2>2, QuietBuckets
<1> QED
  BY <1>4, <1>5, <1>6, <1>7, <1>8

(* The end of a task: the queue it belongs to counts one fewer.            *)
LEMMA TaskDoneInv ==
    ASSUME Inv, NEW t \in Handlers, TaskDone(t), UNCHANGED reports
    PROVE  Inv'
<1> USE DEF Inv
<1>1. /\ pc[t] = "task" /\ pc \in [Threads -> Places] /\ t \in Threads /\ t \in Handlers
  BY TheThreads DEF PlacesTyped, TaskDone, reports, caches, queues, results, control
<1>2. PICK l \in {"off", "idle"} : Goto(t, l)
  BY DEF TaskDone, reports, caches, queues, results, control
<1>3. /\ pc' \in [Threads -> Places] /\ pc'[t] = l
      /\ \A u \in Threads : u # t => pc'[u] = pc[u]
      /\ \A k : At(k)' = At(k)
      /\ Cardinality(Spending)' = Cardinality(Spending) + (IF l = "spend" THEN 1 ELSE 0)
                                     - (IF pc[t] = "spend" THEN 1 ELSE 0)
      /\ Cardinality(Spending)' \in 0 .. 3 /\ Cardinality(Spending) \in 0 .. 3
  <2>1. l \in Places
    BY DEF Places
  <2> QED
    BY <1>1, <1>2, <2>1, HandlerMoves
<1>4. DataTyped'
  <2>1. (taskCount - 1) % Modulus \in Nat /\ (crucialTaskCount - 1) % Modulus \in Nat
    BY PipelineAssumption DEF DataTyped
  <2> QED
    BY <2>1 DEF DataTyped, TaskDone, reports, caches, control
<1>5. PlacesTyped'
  <2>1. l = "off" => t = "cleaner"
    BY <1>1, <1>3 DEF TaskDone, Goto
  <2> QED
    BY <1>1, <1>3, <2>1, TheThreads DEF PlacesTyped, DataTyped, OfHandlers, InTask, TaskDone
<1>6. NothingYet'
  <2>1. service # "down" /\ service' = service
    BY <1>1, NobodyYet DEF TaskDone, reports, caches, queues, results, control
  <2> QED
    BY <2>1 DEF NothingYet
<1>7. CountersInv'
  <2> SUFFICES ASSUME queueUp' PROVE CountersInv'
    BY DEF CountersInv
  <2>1. /\ queueUp /\ UNCHANGED <<queue, crucialQueue>>
        /\ taskCount' = IF t = "queue" THEN (taskCount - 1) % Modulus ELSE taskCount
        /\ crucialTaskCount' = IF t = "crucial" THEN (crucialTaskCount - 1) % Modulus
                                                ELSE crucialTaskCount
        /\ pc'[t] = IF t = "cleaner" /\ isStopClearCache THEN "off" ELSE "idle"
    BY <1>1 DEF TaskDone, Goto
  <2>2. /\ Len(queue) \in Nat /\ Len(crucialQueue) \in Nat /\ crucialTaskCount \in Nat
        /\ At("count") \in Nat /\ At("submitUrgent") \in Nat /\ At("urgent") \in Nat
        /\ Modulus \in Nat \ {0}
    BY AtNat, PipelineAssumption DEF DataTyped
  <2>3. CASE t = "queue"
    <3> DEFINE n == Len(queue) + Running("queue") - At("count")
    <3>1. /\ Running("queue") = 1 /\ Running("queue")' = 0
             /\ Running("crucial")' = Running("crucial")
      BY <1>1, <1>3, <2>1, <2>3, TheThreads DEF Running
    <3>2. taskCount = n % Modulus /\ n \in Int
      BY <2>1, <2>2, <3>1 DEF CountersInv
    <3>3. Len(queue') + Running("queue")' - At("count")' = n - 1
      <4>1. At("count")' = At("count") /\ queue' = queue
        BY <1>3, <2>1
      <4> QED
        BY <2>2, <3>1, <4>1
    <3>4. taskCount' = (n - 1) % Modulus
      <4> HIDE DEF n
      <4> QED
        BY <2>1, <2>2, <2>3, <3>2, WrapDown
    <3> HIDE DEF n
    <3> QED
      BY <1>3, <2>1, <2>3, <3>1, <3>3, <3>4 DEF CountersInv
  <2>4. CASE t = "crucial"
    <3>1. /\ Running("crucial") = 1 /\ Running("crucial")' = 0
             /\ Running("queue")' = Running("queue")
      BY <1>1, <1>3, <2>1, <2>4, TheThreads DEF Running
    <3>2. /\ crucialTaskCount = Len(crucialQueue) + 1 + At("submitUrgent")
          /\ crucialTaskCount + At("urgent") <= MaxTasks + Cardinality(Producers)
          /\ taskCount = (Len(queue) + Running("queue") - At("count")) % Modulus
      BY <2>1, <3>1 DEF CountersInv
    <3>3. MaxTasks \in Nat /\ Cardinality(Producers) \in Nat
            /\ MaxTasks + Cardinality(Producers) < Modulus
      BY TheThreads, PipelineAssumption
    <3>4. crucialTaskCount - 1 \in 0 .. Modulus - 1
      <4>1. crucialTaskCount - 1 >= 0
        BY <2>2, <3>2
      <4>2. crucialTaskCount <= MaxTasks + Cardinality(Producers)
        BY <2>2, <3>2, <3>3
      <4>3. crucialTaskCount \in Nat /\ Modulus \in Nat
        BY <2>2
      <4> QED
        BY <3>3, <4>1, <4>2, <4>3
    <3>5. crucialTaskCount' = crucialTaskCount - 1
      BY <2>1, <2>2, <2>4, <3>4, SmallRemainder
    <3>6. crucialTaskCount' = Len(crucialQueue') + Running("crucial")' + At("submitUrgent")'
      <4>1. At("submitUrgent")' = At("submitUrgent") /\ crucialQueue' = crucialQueue
        BY <1>3, <2>1
      <4>2. crucialTaskCount - 1 = Len(crucialQueue) + At("submitUrgent")
        BY <2>2, <3>2
      <4> QED
        BY <3>1, <3>5, <4>1, <4>2
    <3>7. crucialTaskCount' + At("urgent")' <= MaxTasks + Cardinality(Producers)
      <4>1. At("urgent")' = At("urgent") /\ At("urgent") \in Nat /\ crucialTaskCount \in Nat
        BY <1>3, <2>2, AtNat
      <4> QED
        BY <3>2, <3>3, <3>5, <4>1
    <3>8. taskCount' = (Len(queue') + Running("queue")' - At("count")') % Modulus
      BY <1>3, <2>1, <2>4, <3>1, <3>2
    <3> QED
      BY <3>6, <3>7, <3>8 DEF CountersInv
  <2>5. CASE t = "cleaner"
    <3>1. Running("queue")' = Running("queue") /\ Running("crucial")' = Running("crucial")
      BY <1>3, <2>5, TheThreads DEF Running
    <3> QED
      BY <1>3, <2>1, <2>5, <3>1 DEF CountersInv
  <2> QED
    BY <1>1, <2>3, <2>4, <2>5 DEF Handlers
<1>8. BucketsInv'
  <2>1. UNCHANGED <<tokenBucket, reports>>
    BY DEF TaskDone, reports, caches, queues, results, control
  <2>2. Cardinality(Spending)' = Cardinality(Spending)
    BY <1>1, <1>2, <1>3
  <2> QED
    BY <1>3, <2>1, <2>2, QuietBuckets
<1> QED
  BY <1>4, <1>5, <1>6, <1>7, <1>8

(* The test of the bucket: whoever passes it finds a token, though others  *)
(* may have passed it before and not yet spent theirs.                     *)
LEMMA TestBucketInv ==
    ASSUME Inv, NEW t \in Handlers, NEW uids \in BOOLEAN, NEW heard \in BOOLEAN,
           TestBucket(t, uids, heard), UNCHANGED reports
    PROVE  Inv'
<1> USE DEF Inv
<1>1. /\ pc[t] = "publish" /\ pc \in [Threads -> Places] /\ t \in Threads /\ t \in Handlers
  BY TheThreads DEF PlacesTyped, TestBucket, Next1, reports, caches, queues, results, control
<1>2. PICK l \in {"spend", "task"} : Goto(t, l)
  BY DEF TestBucket, Next1, reports, caches, queues, results, control
<1>3. /\ pc' \in [Threads -> Places] /\ pc'[t] = l
      /\ \A u \in Threads : u # t => pc'[u] = pc[u]
      /\ \A k : At(k)' = At(k)
      /\ Cardinality(Spending)' = Cardinality(Spending) + (IF l = "spend" THEN 1 ELSE 0)
                                     - (IF pc[t] = "spend" THEN 1 ELSE 0)
      /\ Cardinality(Spending)' \in 0 .. 3 /\ Cardinality(Spending) \in 0 .. 3
  <2>1. l \in Places
    BY DEF Places
  <2> QED
    BY <1>1, <1>2, <2>1, HandlerMoves
<1>4. DataTyped'
  <2>1. todo' = todo \/ todo' = [todo EXCEPT ![t] = Tail(todo[t])]
    BY DEF TestBucket, Next1
  <2>2. todo \in [Threads -> Seq(Nat)] /\ todo[t] # <<>>
    BY <1>1 DEF DataTyped, PlacesTyped, InTask
  <2>3. [todo EXCEPT ![t] = Tail(todo[t])] \in [Threads -> Seq(Nat)]
    BY <1>1, <2>2, InHand
  <2>4. todo' \in [Threads -> Seq(Nat)]
    BY <2>1, <2>2, <2>3
  <2> QED
    BY <2>4 DEF DataTyped, TestBucket, reports, caches, queues, control
<1>5. PlacesTyped'
  <2>1. l = "spend" => todo' = todo
    BY <1>1, <1>3 DEF TestBucket, Next1, Goto
  <2>2. \A u \in Threads : u # t => todo'[u] = todo[u]
    BY DEF TestBucket, Next1, DataTyped
  <2> QED
    BY <1>1, <1>3, <2>1, <2>2, TheThreads DEF PlacesTyped, OfHandlers, InTask
<1>6. NothingYet'
  <2>1. service # "down" /\ service' = service
    BY <1>1, NobodyYet DEF TestBucket, Next1, reports, caches, queues, results, control
  <2> QED
    BY <2>1 DEF NothingYet
<1>7. CountersInv'
  <2>1. UNCHANGED queues
    BY DEF TestBucket, Next1, reports, caches, queues, results, control
  <2>2. Running("queue")' = Running("queue") /\ Running("crucial")' = Running("crucial")
    BY <1>1, <1>2, <1>3, TheThreads DEF Running
  <2> QED
    BY <1>3, <2>1, <2>2, QuietCounters
<1>8. BucketsInv'
  <2>1. UNCHANGED <<tokenBucket, requestBucket, unspent>>
    BY DEF TestBucket, reports
  <2>2. tokenBucket \in Int
    BY DEF DataTyped
  <2>3. CASE l = "task"
    BY <1>1, <1>3, <2>1, <2>2, <2>3 DEF BucketsInv
  <2>4. CASE l = "spend"
    <3>1. ~(tokenBucket <= 0)
      BY <1>1, <1>3, <2>4 DEF TestBucket, Next1, Goto
    <3> QED
      BY <1>3, <2>1, <2>2, <3>1 DEF BucketsInv
  <2> QED
    BY <2>3, <2>4
<1> QED
  BY <1>4, <1>5, <1>6, <1>7, <1>8

(* The token is spent.                                                     *)
LEMMA SpendTokenInv ==
    ASSUME Inv, NEW t \in Handlers, SpendToken(t), UNCHANGED reports
    PROVE  Inv'
<1> USE DEF Inv
<1>1. /\ pc[t] = "spend" /\ pc \in [Threads -> Places] /\ t \in Threads /\ t \in Handlers
  BY TheThreads DEF PlacesTyped, SpendToken, Next1, reports, caches, queues, results, control
<1>2. PICK l \in {"task"} : Goto(t, l)
  BY DEF SpendToken, Next1, reports, caches, queues, results, control
<1>3. /\ pc' \in [Threads -> Places] /\ pc'[t] = l
      /\ \A u \in Threads : u # t => pc'[u] = pc[u]
      /\ \A k : At(k)' = At(k)
      /\ Cardinality(Spending)' = Cardinality(Spending) + (IF l = "spend" THEN 1 ELSE 0)
                                     - (IF pc[t] = "spend" THEN 1 ELSE 0)
      /\ Cardinality(Spending)' \in 0 .. 3 /\ Cardinality(Spending) \in 0 .. 3
  <2>1. l \in Places
    BY DEF Places
  <2> QED
    BY <1>1, <1>2, <2>1, HandlerMoves
<1>4. DataTyped'
  <2>1. todo' = [todo EXCEPT ![t] = Tail(todo[t])] /\ tokenBucket' = tokenBucket - 1
    BY DEF SpendToken, Next1
  <2>2. todo \in [Threads -> Seq(Nat)] /\ todo[t] # <<>>
    BY <1>1 DEF DataTyped, PlacesTyped, InTask
  <2>3. todo' \in [Threads -> Seq(Nat)]
    BY <1>1, <2>1, <2>2, InHand
  <2> QED
    BY <2>1, <2>3 DEF DataTyped, SpendToken, reports, caches, queues, control
<1>5. PlacesTyped'
  <2>1. \A u \in Threads : u # t => todo'[u] = todo[u]
    BY DEF SpendToken, Next1, DataTyped
  <2> QED
    BY <1>1, <1>3, <2>1, TheThreads DEF PlacesTyped, OfHandlers, InTask
<1>6. NothingYet'
  <2>1. service # "down" /\ service' = service
    BY <1>1, NobodyYet DEF SpendToken, Next1, reports, caches, queues, results, control
  <2> QED
    BY <2>1 DEF NothingYet
<1>7. CountersInv'
  <2>1. UNCHANGED queues
    BY DEF SpendToken, Next1, reports, caches, queues, results, control
  <2>2. Running("queue")' = Running("queue") /\ Running("crucial")' = Running("crucial")
    BY <1>1, <1>2, <1>3, TheThreads DEF Running
  <2> QED
    BY <1>3, <2>1, <2>2, QuietCounters
<1>8. BucketsInv'
  <2>1. tokenBucket' = tokenBucket - 1 /\ UNCHANGED <<requestBucket, unspent>>
          /\ tokenBucket \in Int
    BY DEF SpendToken, reports, DataTyped
  <2> QED
    BY <1>1, <1>3, <2>1 DEF BucketsInv
<1> QED
  BY <1>4, <1>5, <1>6, <1>7, <1>8

(* An event is handled up to the cache of the store, or given up.          *)
LEMMA UploadEventTaskInv ==
    ASSUME Inv, NEW t \in Handlers, UploadEventTask(t), UNCHANGED reports
    PROVE  Inv'
<1> USE DEF Inv
<1> DEFINE n == Head(todo[t])
<1>1. /\ pc[t] = "task" /\ pc \in [Threads -> Places] /\ t \in Threads /\ todo[t] # <<>>
      /\ todo \in [Threads -> Seq(Nat)] /\ out \in [Threads -> Seq(Nat)] /\ events \in Seq(Nat)
  BY TheThreads DEF PlacesTyped, DataTyped, UploadEventTask
<1>2. n \in Nat /\ Append(events, n) \in Seq(Nat) /\ <<>> \in Seq(Nat)
  <2>1. todo[t] \in Seq(Nat)
    BY <1>1
  <2> QED
    BY <1>1, <2>1
<1>3. /\ UNCHANGED <<notifyEvents, queues, tokenBucket, store, control, reports>>
      /\ \/ pc' = pc /\ UNCHANGED <<events, out>> /\ todo' = [todo EXCEPT ![t] = Tail(todo[t])]
         \/ Goto(t, "publish") /\ UNCHANGED <<out, todo>> /\ events' = Append(events, n)
         \/ /\ Goto(t, "insert") /\ UNCHANGED todo /\ events' = <<>>
            /\ out' = [out EXCEPT ![t] = Append(events, n)]
  BY DEF UploadEventTask
<1>4. DataTyped'
  <2>1. events' \in Seq(Nat)
    BY <1>1, <1>2, <1>3
  <2>2. todo' \in [Threads -> Seq(Nat)] /\ out' \in [Threads -> Seq(Nat)]
    <3>1. [todo EXCEPT ![t] = Tail(todo[t])] \in [Threads -> Seq(Nat)]
      BY <1>1, InHand
    <3>2. [out EXCEPT ![t] = Append(events, n)] \in [Threads -> Seq(Nat)]
      <4> HIDE DEF n
      <4> QED
        BY <1>1, <1>2, InHand
    <3> QED
      BY <1>1, <1>3, <3>1, <3>2
  <2> QED
    BY <1>3, <2>1, <2>2 DEF DataTyped, queues, control, reports
<1>5. /\ pc' \in [Threads -> Places] /\ pc'[t] \in {"task", "publish", "insert"}
      /\ \A u \in Threads : u # t => pc'[u] = pc[u]
      /\ \A k : At(k)' = At(k)
      /\ Cardinality(Spending)' = Cardinality(Spending)
  <2>1. CASE pc' = pc
    BY <1>1, <2>1 DEF At, Spending
  <2>2. CASE \E l \in {"publish", "insert"} : Goto(t, l)
    <3>1. PICK l \in {"publish", "insert"} : Goto(t, l)
      BY <2>2
    <3>2. l \in Places /\ l # "spend"
      BY DEF Places
    <3>3. /\ pc' \in [Threads -> Places] /\ pc'[t] = l
          /\ \A u \in Threads : u # t => pc'[u] = pc[u]
          /\ \A k : At(k)' = At(k)
          /\ Cardinality(Spending)' = Cardinality(Spending) + (IF l = "spend" THEN 1 ELSE 0)
                                         - (IF pc[t] = "spend" THEN 1 ELSE 0)
          /\ Cardinality(Spending) \in 0 .. 3
      BY <1>1, <3>1, <3>2, HandlerMoves
    <3>4. Cardinality(Spending)' = Cardinality(Spending)
      BY <1>1, <3>2, <3>3
    <3> QED
      BY <3>1, <3>3, <3>4
  <2> QED
    BY <1>3, <2>1, <2>2
<1>6. PlacesTyped'
  <2>1. \A u \in Threads : u # t => todo'[u] = todo[u]
    BY <1>1, <1>3
  <2>2. pc'[t] # "task" => todo'[t] # <<>>
    BY <1>1, <1>3
  <2> QED
    BY <1>1, <1>5, <2>1, <2>2, TheThreads DEF PlacesTyped, OfHandlers, InTask
<1>7. NothingYet'
  <2>1. service # "down" /\ service' = service
    BY <1>1, <1>3, NobodyYet DEF control
  <2> QED
    BY <2>1 DEF NothingYet
<1>8. CountersInv'
  <2>1. Running("queue")' = Running("queue") /\ Running("crucial")' = Running("crucial")
    BY <1>1, <1>5, TheThreads DEF Running
  <2> QED
    BY <1>3, <1>5, <2>1, QuietCounters
<1>9. BucketsInv'
  BY <1>3, <1>5, QuietBuckets
<1> QED
  BY <1>4, <1>6, <1>7, <1>8, <1>9

(* A step that moves no thread.                                            *)
LEMMA Still ==
    ASSUME pc' = pc
    PROVE  /\ \A k : At(k)' = At(k) /\ Running(k)' = Running(k)
           /\ Cardinality(Spending)' = Cardinality(Spending)
  BY DEF At, Running, Spending

(* The buckets are filled.                                                 *)
LEMMA FillInv ==
    ASSUME Inv, FillRequestBucket \/ (FillBucket /\ UNCHANGED reports)
    PROVE  Inv'
<1> USE DEF Inv
<1>1. /\ pc' = pc /\ UNCHANGED <<caches, queues, results, control, locals>>
      /\ requestBucket' - requestBucket = unspent' - unspent
      /\ requestBucket' \in Int /\ unspent' \in Int /\ requestBucket' >= requestBucket
      /\ tokenBucket' \in Int /\ tokenBucket' >= tokenBucket
  BY PipelineAssumption DEF FillRequestBucket, FillBucket, locals, reports, DataTyped
<1>2. DataTyped' /\ PlacesTyped' /\ NothingYet'
  BY <1>1 DEF DataTyped, PlacesTyped, InTask, NothingYet, caches, queues, control, locals
<1>3. CountersInv'
  BY <1>1, Still, QuietCounters
<1>4. BucketsInv'
  <2>1. Cardinality(Spending) \in Nat /\ At("giveBack") \in Nat /\ At("upload") \in Nat
    <3>1. Spending \in SUBSET Handlers
      BY DEF Spending
    <3> QED
      BY <3>1, TheThreads, FS_Subset, FS_CardinalityType, AtNat
  <2>2. tokenBucket \in Int /\ requestBucket \in Int /\ unspent \in Int
    BY DEF DataTyped
  <2> QED
    BY <1>1, <2>1, <2>2, Still DEF BucketsInv
<1> QED
  BY <1>2, <1>3, <1>4

(* OnStart and OnStop.                                                     *)
LEMMA ServiceInv ==
    ASSUME Inv, Start \/ Stop
    PROVE  Inv'
<1> USE DEF Inv
<1>1. CASE InitEventQueue /\ UNCHANGED reports
  <2>1. /\ pc' = pc /\ service = "down" /\ service' = "queues" /\ queueUp' = TRUE
        /\ UNCHANGED <<caches, queue, crucialQueue, taskCount, crucialTaskCount, tokenBucket, sent,
                       todo, out, reports>>
    BY <1>1 DEF InitEventQueue, locals
  <2>2. DataTyped' /\ PlacesTyped' /\ NothingYet'
    BY <2>1 DEF DataTyped, PlacesTyped, InTask, NothingYet, caches, reports
  <2>3. /\ queue = <<>> /\ crucialQueue = <<>> /\ taskCount = 0 /\ crucialTaskCount = 0
        /\ Running("queue") = 0 /\ Running("crucial") = 0
        /\ \A p \in Producers : pc[p] = "idle"
    BY <2>1, TheThreads DEF NothingYet, Running
  <2>4. \A k : k # "idle" => At(k) = 0
    <3> SUFFICES ASSUME NEW k, k # "idle" PROVE At(k) = 0
      OBVIOUS
    <3>1. {p \in Producers : pc[p] = k} = {}
      BY <2>3
    <3> QED
      BY <3>1, FS_EmptySet DEF At
  <2>5. At("count")' = 0 /\ At("urgent")' = 0 /\ At("submitUrgent")' = 0
    BY <2>1, <2>4, Still
  <2>6. Running("queue")' = 0 /\ Running("crucial")' = 0
    BY <2>1, <2>3, Still
  <2>7. Len(queue') = 0 /\ Len(crucialQueue') = 0
    BY <2>1, <2>3
  <2>8. /\ (0 + 0 - 0) % Modulus = 0 /\ 0 <= MaxTasks + Cardinality(Producers)
    BY PipelineAssumption, TheThreads, SmallRemainder
  <2>9. CountersInv'
    BY <2>1, <2>3, <2>5, <2>6, <2>7, <2>8 DEF CountersInv
  <2>10. BucketsInv'
    BY <2>1, Still, QuietBuckets
  <2> QED
    BY <2>2, <2>9, <2>10
<1>2. CASE StartClearEventCache /\ UNCHANGED reports
  <2>1. /\ pc \in [Threads -> Places] /\ "cleaner" \in Threads /\ Goto("cleaner", "idle")
        /\ "idle" \in Places /\ service' = "up"
        /\ UNCHANGED <<caches, queues, tokenBucket, sent, todo, out, reports>>
    BY <1>2, TheThreads DEF StartClearEventCache, PlacesTyped, Places
  <2>2. /\ pc' \in [Threads -> Places] /\ pc'["cleaner"] = "idle"
        /\ \A u \in Threads : u # "cleaner" => pc'[u] = pc[u]
        /\ \A k : At(k)' = At(k)
        /\ Cardinality(Spending)' = Cardinality(Spending) - (IF pc["cleaner"] = "spend" THEN 1 ELSE 0)
        /\ Cardinality(Spending) \in 0 .. 3 /\ Cardinality(Spending)' \in 0 .. 3
    BY <2>1, TheThreads, HandlerMoves
  <2>3. DataTyped' /\ PlacesTyped' /\ NothingYet'
    BY <2>1, <2>2, TheThreads DEF DataTyped, PlacesTyped, OfHandlers, InTask, NothingYet, caches,
       queues, reports
  <2>4. Running("queue")' = Running("queue") /\ Running("crucial")' = Running("crucial")
    BY <2>2, TheThreads DEF Running
  <2>5. CountersInv'
    BY <2>1, <2>2, <2>4, QuietCounters
  <2>6. BucketsInv'
    <3>1. tokenBucket \in Int
      BY DEF DataTyped
    <3> QED
      BY <2>1, <2>2, <3>1 DEF BucketsInv, reports
  <2> QED
    BY <2>3, <2>5, <2>6
<1>3. CASE StopClearEventCache /\ UNCHANGED reports
  <2>1. /\ pc' = pc /\ service' = "joining"
        /\ UNCHANGED <<caches, queues, tokenBucket, sent, todo, out, reports>>
    BY <1>3 DEF StopClearEventCache, locals
  <2>2. DataTyped' /\ PlacesTyped' /\ NothingYet'
    BY <2>1 DEF DataTyped, PlacesTyped, InTask, NothingYet, caches, queues, reports
  <2>3. CountersInv' /\ BucketsInv'
    BY <2>1, Still, QuietCounters, QuietBuckets
  <2> QED
    BY <2>2, <2>3
<1>4. CASE DeInitEventQueue /\ UNCHANGED reports
  <2>1. /\ pc' = pc /\ service' = "stopped" /\ queueUp' = FALSE /\ queue' = <<>>
           /\ crucialQueue' = <<>>
        /\ UNCHANGED <<caches, taskCount, crucialTaskCount, tokenBucket, sent, todo, out, reports>>
    BY <1>4 DEF DeInitEventQueue, locals
  <2>2. <<>> \in Seq(Nat) /\ <<>> \in Seq(Seq(Nat))
    OBVIOUS
  <2>3. DataTyped' /\ PlacesTyped' /\ NothingYet' /\ CountersInv'
    BY <2>1, <2>2 DEF DataTyped, PlacesTyped, InTask, NothingYet, CountersInv, caches, reports
  <2>4. BucketsInv'
    BY <2>1, Still, QuietBuckets
  <2> QED
    BY <2>3, <2>4
<1> QED
  BY <1>1, <1>2, <1>3, <1>4 DEF Start, Stop

(* A step that touches only the configuration, or nothing.                 *)
LEMMA SameInv ==
    ASSUME Inv, UNCHANGED <<caches, queues, tokenBucket, service, sent, locals, reports>>
    PROVE  Inv'
<1> USE DEF Inv
<1>1. DataTyped' /\ PlacesTyped' /\ NothingYet'
  BY DEF DataTyped, PlacesTyped, InTask, NothingYet, caches, queues, locals, reports
<1>2. pc' = pc
  BY DEF locals
<1>3. CountersInv' /\ BucketsInv'
  BY <1>2, Still, QuietCounters, QuietBuckets
<1> QED
  BY <1>1, <1>3

(* Nothing is there before OnStart.                                        *)
LEMMA InitInv == Init => Inv
<1> SUFFICES ASSUME Init PROVE Inv
  OBVIOUS
<1>1. <<>> \in Seq(Nat) /\ <<>> \in Seq(Seq(Nat)) /\ <<>> \in Seq(Kinds)
  OBVIOUS
<1>2. DataTyped
  <2>1. todo \in [Threads -> Seq(Nat)] /\ out \in [Threads -> Seq(Nat)]
    BY <1>1 DEF Init
  <2>2. sent \in Seq(Kinds) /\ notifyEvents \in Seq(Nat) /\ events \in Seq(Nat)
    BY <1>1 DEF Init
  <2>3. queue \in Seq(Seq(Nat)) /\ crucialQueue \in Seq(Nat) /\ queueUp \in BOOLEAN
    BY <1>1 DEF Init
  <2>4. /\ taskCount \in Nat /\ crucialTaskCount \in Nat
        /\ tokenBucket \in Int /\ requestBucket \in Int /\ unspent \in Int
    BY DEF Init
  <2> QED
    BY <2>1, <2>2, <2>3, <2>4 DEF DataTyped
<1>3. PlacesTyped /\ NothingYet /\ CountersInv
  BY TheThreads DEF Init, PlacesTyped, NothingYet, CountersInv, Places, OfHandlers, InTask
<1>4. Spending = {} /\ \A p \in Producers : pc[p] = "idle"
  BY TheThreads DEF Init, Spending
<1>5. At("giveBack") = 0 /\ At("upload") = 0 /\ Cardinality(Spending) = 0
  <2>1. {p \in Producers : pc[p] = "giveBack"} = {} /\ {p \in Producers : pc[p] = "upload"} = {}
    BY <1>4
  <2> QED
    BY <1>4, <2>1, FS_EmptySet DEF At
<1>6. BucketsInv
  BY <1>5 DEF Init, BucketsInv
<1> QED
  BY <1>2, <1>3, <1>6 DEF Inv

(* Every step keeps the inductive invariant.                               *)
LEMMA NextInv == Inv /\ [Next]_vars => Inv'
<1> SUFFICES ASSUME Inv, [Next]_vars PROVE Inv'
  OBVIOUS
<1>1. CASE Start \/ Stop \/ FillRequestBucket \/ (FillBucket /\ UNCHANGED reports)
  BY <1>1, ServiceInv, FillInv
<1>2. CASE Take \/ Flush
  BY <1>2, TakeBatchInv, TakeCrucialInv, SwapEventsInv, InsertFlushedInv, SwapNotifyEventsInv
     DEF Take, Flush
<1>3. CASE \E k \in Forgettable : ForgetConfig(k) /\ UNCHANGED reports
  BY <1>3, SameInv DEF ForgetConfig
<1>4. CASE \E p \in Producers : Produce(p)
  BY <1>4, TestTaskCountInv, SubmitBatchInv, CountTaskInv, CountCrucialTaskInv, SubmitCrucialInv
     DEF Produce
<1>5. CASE \E p \in Producers : ReportSecurityEvent(p) \/ Report(p)
  BY <1>5, ReportInv, TakeRequestTokenInv, GiveBackTokenInv, RequestDataSubmitInv DEF Report
<1>6. CASE \E p \in Producers, k \in Kinds : OnNotify(p, k)
  BY <1>6, OnNotifyInv
<1>7. CASE \E t \in Handlers : Handle(t)
  BY <1>7, UploadEventTaskInv, InsertEventInv, SpendTokenInv, TaskDoneInv, TestBucketInv DEF Handle
<1>8. CASE UNCHANGED vars
  BY <1>8, SameInv DEF vars, control
<1> QED
  BY <1>1, <1>2, <1>3, <1>4, <1>5, <1>6, <1>7, <1>8 DEF Next

-------------------------------------------------------------------------------
(* The places where events may be, with one for each batch that may ever   *)
(* wait; and how full they are.                                            *)
Spots == ({"notifyEvents", "events", "crucialQueue"} \X {0}) \union ({"queue"} \X (Nat \ {0}))
           \union ({"todo", "out"} \X Threads)
Notify == <<"notifyEvents", 0>>
Cache == <<"events", 0>>
Crucial == <<"crucialQueue", 0>>
Batch(i) == <<"queue", i>>
Hand(t) == <<"todo", t>>
Taken(t) == <<"out", t>>

On(L, n) == \E h \in Spots : \E i \in DOMAIN L[h] : L[h][i] = n
Apart(L) == \A g, h \in Spots : \A i \in DOMAIN L[g], j \in DOMAIN L[h] :
               L[g][i] = L[h][j] => g = h /\ i = j

(* What NothingLost says, of lists L, events dr given up, numbers st of    *)
(* insertions and k events in all.                                         *)
Flow(L, dr, st, k) ==
    /\ L \in [Spots -> Seq(Nat)] /\ k \in 0 .. MaxEvents /\ dr \subseteq 1 .. k
    /\ Apart(L)
    /\ \A n : On(L, n) => n \in 1 .. k /\ n \notin dr
    /\ st = [n \in 1 .. MaxEvents |-> IF n \in 1 .. k /\ n \notin dr /\ ~On(L, n) THEN 1 ELSE 0]

-------------------------------------------------------------------------------
(* What may happen to an event.                                            *)

(* The elements of a list of events that grows or shrinks at its end.    *)
LEMMA Elements ==
    ASSUME NEW s \in Seq(Nat)
    PROVE  /\ DOMAIN s = 1 .. Len(s) /\ Len(s) \in Nat /\ <<>> \in Seq(Nat) /\ DOMAIN <<>> = {}
           /\ \A x \in Nat : /\ Append(s, x) \in Seq(Nat) /\ DOMAIN Append(s, x) = 1 .. Len(s) + 1
                             /\ \A i \in 1 .. Len(s) : Append(s, x)[i] = s[i]
                             /\ Append(s, x)[Len(s) + 1] = x
           /\ s # <<>> => /\ Tail(s) \in Seq(Nat) /\ DOMAIN Tail(s) = 1 .. Len(s) - 1 /\ Len(s) >= 1
                          /\ Head(s) = s[1] /\ \A i \in 1 .. Len(s) - 1 : Tail(s)[i] = s[i + 1]
  OBVIOUS

(* A new event is put at the end of a list.                                *)
LEMMA Arrives ==
    ASSUME NEW L, NEW dr, NEW st, NEW k, Flow(L, dr, st, k), k + 1 <= MaxEvents, NEW a \in Spots
    PROVE  Flow([L EXCEPT ![a] = Append(L[a], k + 1)], dr, st, k + 1)
<1> DEFINE M == [L EXCEPT ![a] = Append(L[a], k + 1)]
           l == Len(L[a])
<1>1. /\ L \in [Spots -> Seq(Nat)] /\ k \in 0 .. MaxEvents /\ MaxEvents \in Nat /\ k + 1 \in Nat
      /\ L[a] \in Seq(Nat)
  BY PipelineAssumption DEF Flow
<1>2. M \in [Spots -> Seq(Nat)] /\ M[a] = Append(L[a], k + 1)
  BY <1>1, Elements
<1>3. \A h \in Spots : h # a => M[h] = L[h]
  BY <1>1
<1>4. /\ DOMAIN M[a] = 1 .. l + 1 /\ DOMAIN L[a] = 1 .. l /\ l \in Nat
      /\ \A i \in 1 .. l : M[a][i] = L[a][i]
      /\ M[a][l + 1] = k + 1
  BY <1>1, <1>2, Elements
<1> HIDE DEF M, l
<1>5. \A h \in Spots : \A i \in DOMAIN M[h] :
         \/ i \in DOMAIN L[h] /\ M[h][i] = L[h][i]
         \/ h = a /\ i = l + 1 /\ M[h][i] = k + 1
  BY <1>3, <1>4
<1>6. \A h \in Spots : \A i \in DOMAIN L[h] : i \in DOMAIN M[h] /\ M[h][i] = L[h][i]
  BY <1>3, <1>4
<1>7. ~On(L, k + 1) /\ Apart(L)
  BY <1>1 DEF Flow
<1>8. Apart(M)
  BY <1>5, <1>7 DEF Apart, On
<1>9. l + 1 \in DOMAIN M[a] /\ M[a][l + 1] = k + 1
  BY <1>4
<1>10. \A n : On(M, n) <=> On(L, n) \/ n = k + 1
  BY <1>5, <1>6, <1>9 DEF On
<1>11. st = [n \in 1 .. MaxEvents |-> IF n \in 1 .. k + 1 /\ n \notin dr /\ ~On(M, n) THEN 1 ELSE 0]
  <2>1. \A n \in 1 .. MaxEvents : (n \in 1 .. k + 1 /\ n \notin dr /\ ~On(M, n))
                                    <=> (n \in 1 .. k /\ n \notin dr /\ ~On(L, n))
    BY <1>1, <1>10
  <2> QED
    BY <2>1 DEF Flow
<1>12. dr \subseteq 1 .. k + 1 /\ \A n : On(M, n) => n \in 1 .. k + 1 /\ n \notin dr
  BY <1>1, <1>10 DEF Flow
<1>13. Flow(M, dr, st, k + 1)
  <2>1. k + 1 \in 0 .. MaxEvents
    BY <1>1
  <2> QED
    BY <1>2, <1>8, <1>11, <1>12, <2>1 DEF Flow
<1> QED
  BY <1>13 DEF M

(* A new event is given up.                                                *)
LEMMA Refused ==
    ASSUME NEW L, NEW dr, NEW st, NEW k, Flow(L, dr, st, k), k + 1 <= MaxEvents
    PROVE  Flow(L, dr \union {k + 1}, st, k + 1)
<1>1. k \in Nat /\ MaxEvents \in Nat /\ \A n : On(L, n) => n \in 1 .. k
  BY PipelineAssumption DEF Flow
<1>2. \A n \in 1 .. MaxEvents : (n \in 1 .. k + 1 /\ n \notin dr \union {k + 1} /\ ~On(L, n))
                                  <=> (n \in 1 .. k /\ n \notin dr /\ ~On(L, n))
  BY <1>1
<1> QED
  BY <1>1, <1>2 DEF Flow

(* A list goes to an empty place.                                          *)
LEMMA Moves ==
    ASSUME NEW L, NEW dr, NEW st, NEW k, Flow(L, dr, st, k), NEW a \in Spots, NEW b \in Spots,
           a # b, L[b] = <<>>
    PROVE  Flow([L EXCEPT ![a] = <<>>, ![b] = L[a]], dr, st, k)
<1> DEFINE M == [L EXCEPT ![a] = <<>>, ![b] = L[a]]
<1>1. M \in [Spots -> Seq(Nat)]
  BY Elements DEF Flow
<1>2. /\ DOMAIN L[b] = {} /\ DOMAIN M[a] = {} /\ M[b] = L[a]
      /\ \A h \in Spots : h # a /\ h # b => M[h] = L[h]
  BY Elements DEF Flow
<1> HIDE DEF M
<1>3. Apart(L)
  BY DEF Flow
<1>4. Apart(M)
  BY <1>2, <1>3 DEF Apart
<1>5. \A n : On(M, n) <=> On(L, n)
  BY <1>2 DEF On
<1> QED
  BY <1>1, <1>4, <1>5 DEF Flow, M

(* The first of a list goes to the end of another.                         *)
LEMMA HeadMoves ==
    ASSUME NEW L, NEW dr, NEW st, NEW k, Flow(L, dr, st, k), NEW a \in Spots, NEW b \in Spots,
           a # b, L[a] # <<>>
    PROVE  Flow([L EXCEPT ![a] = Tail(L[a]), ![b] = Append(L[b], Head(L[a]))], dr, st, k)
<1> DEFINE M == [L EXCEPT ![a] = Tail(L[a]), ![b] = Append(L[b], Head(L[a]))]
           la == Len(L[a])
           lb == Len(L[b])
<1>1. L \in [Spots -> Seq(Nat)] /\ L[a] \in Seq(Nat) /\ L[b] \in Seq(Nat)
  BY DEF Flow
<1>2. /\ la \in Nat \ {0} /\ DOMAIN L[a] = 1 .. la /\ Head(L[a]) = L[a][1] /\ L[a][1] \in Nat
      /\ Tail(L[a]) \in Seq(Nat) /\ DOMAIN Tail(L[a]) = 1 .. la - 1
      /\ \A i \in 1 .. la - 1 : Tail(L[a])[i] = L[a][i + 1]
  <2>1. Len(L[a]) >= 1 /\ Len(L[a]) \in Nat /\ DOMAIN L[a] = 1 .. Len(L[a]) /\ Head(L[a]) = L[a][1]
    BY <1>1, Elements
  <2>2. L[a][1] \in Nat
    BY <1>1, <2>1
  <2> QED
    BY <1>1, <2>1, <2>2, Elements
<1>3. /\ M \in [Spots -> Seq(Nat)] /\ M[a] = Tail(L[a]) /\ M[b] = Append(L[b], L[a][1])
  BY <1>1, <1>2, Elements
<1>4. \A h \in Spots : h # a /\ h # b => M[h] = L[h]
  BY <1>1
<1>5. /\ DOMAIN M[a] = 1 .. la - 1 /\ DOMAIN L[a] = 1 .. la /\ la \in Nat \ {0}
      /\ \A i \in 1 .. la - 1 : M[a][i] = L[a][i + 1]
  BY <1>2, <1>3
<1>6. /\ DOMAIN M[b] = 1 .. lb + 1 /\ DOMAIN L[b] = 1 .. lb /\ lb \in Nat
      /\ \A i \in 1 .. lb : M[b][i] = L[b][i]
      /\ M[b][lb + 1] = L[a][1]
  BY <1>1, <1>2, <1>3, Elements
<1> HIDE DEF M, la, lb
<1>7. \A h \in Spots : \A i \in DOMAIN M[h] :
         \/ h # a /\ i \in DOMAIN L[h] /\ M[h][i] = L[h][i]
         \/ h = a /\ i \in Nat \ {0} /\ i + 1 \in DOMAIN L[a] /\ M[h][i] = L[a][i + 1]
         \/ h = b /\ i = lb + 1 /\ M[h][i] = L[a][1]
  BY <1>4, <1>5, <1>6
<1>8. \A h \in Spots : \A i \in DOMAIN L[h] :
         \/ h # a /\ i \in DOMAIN M[h] /\ M[h][i] = L[h][i]
         \/ h = a /\ i = 1
         \/ h = a /\ i # 1 /\ i - 1 \in DOMAIN M[a] /\ M[a][i - 1] = L[h][i]
  <2>1. \A i \in DOMAIN L[a] : i = 1 \/ (i - 1 \in DOMAIN M[a] /\ M[a][i - 1] = L[a][i])
    BY <1>5
  <2>2. \A i \in DOMAIN L[b] : i \in DOMAIN M[b] /\ M[b][i] = L[b][i]
    BY <1>6
  <2> QED
    BY <1>4, <2>1, <2>2
<1>9. lb + 1 \in DOMAIN M[b] /\ lb + 1 \notin DOMAIN L[b] /\ 1 \in DOMAIN L[a]
  BY <1>5, <1>6
<1>10. Apart(L)
  BY DEF Flow
<1>11. Apart(M)
  <2> SUFFICES ASSUME NEW g \in Spots, NEW h \in Spots, NEW i \in DOMAIN M[g],
                        NEW j \in DOMAIN M[h],
                      M[g][i] = M[h][j]
               PROVE  g = h /\ i = j
    BY DEF Apart
  <2> QED
    BY <1>7, <1>9, <1>10 DEF Apart
<1>12. \A n : On(M, n) <=> On(L, n)
  <2>1. \A n : On(M, n) => On(L, n)
    BY <1>7, <1>9 DEF On
  <2>2. M[b][lb + 1] = L[a][1]
    BY <1>6
  <2>3. \A n : On(L, n) => On(M, n)
    BY <1>8, <1>9, <2>2 DEF On
  <2> QED
    BY <2>1, <2>3
<1> QED
  BY <1>3, <1>11, <1>12 DEF Flow, M

(* The first of a list is given up.                                        *)
LEMMA HeadDropped ==
    ASSUME NEW L, NEW dr, NEW st, NEW k, Flow(L, dr, st, k), NEW a \in Spots, L[a] # <<>>
    PROVE  Flow([L EXCEPT ![a] = Tail(L[a])], dr \union {Head(L[a])}, st, k)
<1> DEFINE M == [L EXCEPT ![a] = Tail(L[a])]
           la == Len(L[a])
<1>1. L \in [Spots -> Seq(Nat)] /\ L[a] \in Seq(Nat)
  BY DEF Flow
<1>2. M \in [Spots -> Seq(Nat)] /\ M[a] = Tail(L[a]) /\ Head(L[a]) = L[a][1]
  BY <1>1, Elements
<1>3. \A h \in Spots : h # a => M[h] = L[h]
  BY <1>1
<1>4. /\ DOMAIN M[a] = 1 .. la - 1 /\ DOMAIN L[a] = 1 .. la /\ la \in Nat \ {0}
      /\ \A i \in 1 .. la - 1 : M[a][i] = L[a][i + 1]
  BY <1>1, <1>2, Elements
<1> HIDE DEF M, la
<1>5. \A h \in Spots : \A i \in DOMAIN M[h] :
         \/ h # a /\ i \in DOMAIN L[h] /\ M[h][i] = L[h][i]
         \/ h = a /\ i \in Nat \ {0} /\ i + 1 \in DOMAIN L[a] /\ M[h][i] = L[a][i + 1]
  BY <1>3, <1>4
<1>6. \A h \in Spots : \A i \in DOMAIN L[h] :
         \/ h # a /\ i \in DOMAIN M[h] /\ M[h][i] = L[h][i]
         \/ h = a /\ i = 1
         \/ h = a /\ i # 1 /\ i - 1 \in DOMAIN M[a] /\ M[a][i - 1] = L[h][i]
  BY <1>3, <1>4
<1>7. Apart(L) /\ 1 \in DOMAIN L[a]
  BY <1>4 DEF Flow
<1>8. Apart(M)
  BY <1>5, <1>7 DEF Apart
<1>9. \A n : On(M, n) <=> On(L, n) /\ n # L[a][1]
  <2>1. \A n : On(M, n) => On(L, n) /\ n # L[a][1]
    BY <1>5, <1>7 DEF On, Apart
  <2>2. \A n : On(L, n) /\ n # L[a][1] => On(M, n)
    BY <1>6 DEF On
  <2> QED
    BY <2>1, <2>2
<1>10. On(L, L[a][1])
  BY <1>7 DEF On
<1>11. \A n \in 1 .. MaxEvents : (n \in 1 .. k /\ n \notin dr \union {L[a][1]} /\ ~On(M, n))
                                   <=> (n \in 1 .. k /\ n \notin dr /\ ~On(L, n))
  BY <1>9, <1>10
<1> QED
  BY <1>2, <1>8, <1>9, <1>10, <1>11 DEF Flow, M

(* All that is in some places is given up.                                 *)
LEMMA Dropped ==
    ASSUME NEW L, NEW dr, NEW st, NEW k, Flow(L, dr, st, k), NEW A \in SUBSET Spots, NEW gone,
           \A n : n \in gone <=> \E h \in A : \E i \in DOMAIN L[h] : L[h][i] = n
    PROVE  Flow([h \in Spots |-> IF h \in A THEN <<>> ELSE L[h]], dr \union gone, st, k)
<1> DEFINE M == [h \in Spots |-> IF h \in A THEN <<>> ELSE L[h]]
<1>1. M \in [Spots -> Seq(Nat)]
  BY Elements DEF Flow
<1>2. \A h \in Spots : IF h \in A THEN DOMAIN M[h] = {} ELSE M[h] = L[h]
  BY Elements
<1> HIDE DEF M
<1>3. Apart(L)
  BY DEF Flow
<1>4. Apart(M)
  BY <1>2, <1>3 DEF Apart
<1>5. \A n : On(M, n) <=> On(L, n) /\ n \notin gone
  <2>1. \A n : On(M, n) => On(L, n) /\ n \notin gone
    BY <1>2, <1>3 DEF On, Apart
  <2>2. \A n : On(L, n) /\ n \notin gone => On(M, n)
    BY <1>2 DEF On
  <2> QED
    BY <2>1, <2>2
<1>6. \A n : n \in gone => On(L, n)
  BY DEF On
<1>7. \A n \in 1 .. MaxEvents : (n \in 1 .. k /\ n \notin dr \union gone /\ ~On(M, n))
                                  <=> (n \in 1 .. k /\ n \notin dr /\ ~On(L, n))
  BY <1>5, <1>6
<1> QED
  BY <1>1, <1>4, <1>5, <1>6, <1>7 DEF Flow, M

(* A list is inserted into the store.                                      *)
LEMMA Stored ==
    ASSUME NEW L, NEW dr, NEW st, NEW k, Flow(L, dr, st, k), NEW a \in Spots
    PROVE  Flow([L EXCEPT ![a] = <<>>], dr,
                [n \in 1 .. MaxEvents |-> st[n] + IF n \in ToSet(L[a]) THEN 1 ELSE 0], k)
<1> DEFINE M == [L EXCEPT ![a] = <<>>]
<1>1. M \in [Spots -> Seq(Nat)]
  BY Elements DEF Flow
<1>2. DOMAIN M[a] = {} /\ \A h \in Spots : h # a => M[h] = L[h]
  BY Elements DEF Flow
<1> HIDE DEF M
<1>3. Apart(L)
  BY DEF Flow
<1>4. Apart(M)
  BY <1>2, <1>3 DEF Apart
<1>5. \A n : On(M, n) <=> On(L, n) /\ n \notin ToSet(L[a])
  <2>1. \A n : On(M, n) => On(L, n) /\ n \notin ToSet(L[a])
    BY <1>2, <1>3 DEF On, Apart, ToSet
  <2>2. \A n : On(L, n) /\ n \notin ToSet(L[a]) => On(M, n)
    BY <1>2 DEF On, ToSet
  <2> QED
    BY <2>1, <2>2
<1>6. \A n : n \in ToSet(L[a]) => On(L, n)
  BY DEF On, ToSet
<1>7. \A n \in 1 .. MaxEvents :
         st[n] + (IF n \in ToSet(L[a]) THEN 1 ELSE 0)
           = IF n \in 1 .. k /\ n \notin dr /\ ~On(M, n) THEN 1 ELSE 0
  <2> SUFFICES ASSUME NEW n \in 1 .. MaxEvents
               PROVE  st[n] + (IF n \in ToSet(L[a]) THEN 1 ELSE 0)
                        = IF n \in 1 .. k /\ n \notin dr /\ ~On(M, n) THEN 1 ELSE 0
    OBVIOUS
  <2>1. st[n] = IF n \in 1 .. k /\ n \notin dr /\ ~On(L, n) THEN 1 ELSE 0
    BY DEF Flow
  <2>2. On(L, n) => n \in 1 .. k /\ n \notin dr
    BY DEF Flow
  <2> QED
    BY <1>5, <1>6, <2>1, <2>2
<1> QED
  BY <1>1, <1>4, <1>5, <1>7 DEF Flow, M

(* The places are named anew, and the one that is dropped is empty.        *)
LEMMA Renamed ==
    ASSUME NEW L, NEW dr, NEW st, NEW k, Flow(L, dr, st, k), NEW m \in [Spots -> Spots],
           \A g, h \in Spots : m[g] = m[h] => g = h,
           \A h \in Spots : L[h] = <<>> \/ \E g \in Spots : m[g] = h
    PROVE  Flow([h \in Spots |-> L[m[h]]], dr, st, k)
<1> DEFINE M == [h \in Spots |-> L[m[h]]]
<1>1. M \in [Spots -> Seq(Nat)]
  BY DEF Flow
<1>2. \A h \in Spots : m[h] \in Spots /\ M[h] = L[m[h]]
  OBVIOUS
<1> HIDE DEF M
<1>3. Apart(L)
  BY DEF Flow
<1>4. Apart(M)
  BY <1>2, <1>3 DEF Apart
<1>5. \A n : On(M, n) <=> On(L, n)
  <2>1. \A h \in Spots : DOMAIN L[h] = {} \/ \E g \in Spots : m[g] = h
    BY Elements
  <2> QED
    BY <1>2, <2>1 DEF On
<1> QED
  BY <1>1, <1>4, <1>5 DEF Flow, M
-------------------------------------------------------------------------------
(* Where the events are in a state                                         *)

Hands == [t \in Threads |-> Unstored(t)]
Listed(h) == CASE h[1] = "notifyEvents" -> notifyEvents
               [] h[1] = "events" -> events
               [] h[1] = "crucialQueue" -> crucialQueue
               [] h[1] = "queue" -> IF h[2] \in DOMAIN queue THEN queue[h[2]] ELSE <<>>
               [] h[1] = "todo" -> Unstored(h[2])
               [] h[1] = "out" -> out[h[2]]
Here == [h \in Spots |-> Listed(h)]

(* What a thread has in hand at each place.                                *)
ProducerPlaces == {"idle", "request", "giveBack", "upload", "batch", "submit", "count", "urgent",
                   "submitUrgent"}
HandsInv ==
    /\ \A p \in Producers :
         /\ pc[p] \in ProducerPlaces /\ out[p] = <<>>
         /\ pc[p] \notin {"batch", "submit", "urgent", "submitUrgent"} => todo[p] = <<>>
         /\ pc[p] \in {"urgent", "submitUrgent"} => Len(todo[p]) = 1
    /\ \A t \in Handlers :
         /\ pc[t] \in {"idle", "off", "flush", "swap"} => todo[t] = <<>>
         /\ pc[t] \notin {"insert", "flush"} => out[t] = <<>>
(* There is room in the bound for the events that are being reported.      *)
RoomInv == Len(sent) + Cardinality(Reporting) <= MaxEvents
FlowInv == Flow(Here, dropped, store, Len(sent))

(* The places by name.                                                   *)
LEMMA TheSpots ==
    /\ Notify \in Spots /\ Cache \in Spots /\ Crucial \in Spots
    /\ \A i \in Nat \ {0} : Batch(i) \in Spots
    /\ \A t \in Threads : Hand(t) \in Spots /\ Taken(t) \in Spots
    /\ \A h \in Spots : \/ h \in {Notify, Cache, Crucial}
                        \/ \E i \in Nat \ {0} : h = Batch(i)
                        \/ \E t \in Threads : h = Hand(t) \/ h = Taken(t)
  BY DEF Spots, Notify, Cache, Crucial, Batch, Hand, Taken

(* They are different places.                                            *)
LEMMA SpotsApart ==
    /\ Notify # Cache /\ Notify # Crucial /\ Cache # Crucial
    /\ \A i : Batch(i) \notin {Notify, Cache, Crucial}
    /\ \A t : Hand(t) \notin {Notify, Cache, Crucial} /\ Taken(t) \notin {Notify, Cache, Crucial}
    /\ \A t, u : Hand(t) # Taken(u) /\ Batch(t) # Hand(u) /\ Batch(t) # Taken(u)
    /\ \A t, u : (Hand(t) = Hand(u) => t = u) /\ (Taken(t) = Taken(u) => t = u)
       /\ (Batch(t) = Batch(u) => t = u)
  BY DEF Notify, Cache, Crucial, Batch, Hand, Taken

(* What a thread has still to pass on is a list of events.                *)
LEMMA HandsTyped == Inv => Hands \in [Threads -> Seq(Nat)]
<1> SUFFICES ASSUME Inv, NEW t \in Threads PROVE Unstored(t) \in Seq(Nat)
  BY DEF Hands
<1>1. todo[t] \in Seq(Nat) /\ (InTask(t) => todo[t] # <<>>)
  BY DEF Inv, DataTyped, PlacesTyped
<1> QED
  BY <1>1, Elements DEF Unstored

(* What is in each place.                                                  *)
HereIs ==
    /\ Here \in [Spots -> Seq(Nat)] /\ Here = [h \in Spots |-> Here[h]]
    /\ Here[Notify] = notifyEvents /\ Here[Cache] = events /\ Here[Crucial] = crucialQueue
    /\ \A i \in Nat \ {0} : Here[Batch(i)] = IF i \in 1 .. Len(queue) THEN queue[i] ELSE <<>>
    /\ \A t \in Threads : Here[Hand(t)] = Unstored(t) /\ Here[Taken(t)] = out[t]

(* The lists by place.                                                    *)
LEMMA HereTyped == Inv => HereIs
<1> SUFFICES ASSUME Inv PROVE HereIs
  OBVIOUS
<1>1. /\ notifyEvents \in Seq(Nat) /\ events \in Seq(Nat) /\ crucialQueue \in Seq(Nat)
      /\ queue \in Seq(Seq(Nat)) /\ Hands \in [Threads -> Seq(Nat)] /\ out \in [Threads -> Seq(Nat)]
  BY HandsTyped DEF Inv, DataTyped
<1>2. \A h \in Spots : Here[h] = Listed(h)
  BY DEF Here
<1>3. Here = [h \in Spots |-> Here[h]]
  BY DEF Here
<1>4. Here[Notify] = notifyEvents /\ Here[Cache] = events /\ Here[Crucial] = crucialQueue
  BY <1>2, TheSpots DEF Listed, Notify, Cache, Crucial
<1>5. ASSUME NEW i \in Nat \ {0}
      PROVE Here[Batch(i)] = IF i \in 1 .. Len(queue) THEN queue[i] ELSE <<>>
  <2>1. Here[Batch(i)] = IF i \in DOMAIN queue THEN queue[i] ELSE <<>>
    BY <1>2, TheSpots DEF Listed, Batch
  <2>2. DOMAIN queue = 1 .. Len(queue)
    BY <1>1
  <2> QED
    BY <2>1, <2>2
<1>6. ASSUME NEW t \in Threads PROVE Here[Hand(t)] = Unstored(t) /\ Here[Taken(t)] = out[t]
  BY <1>2, TheSpots DEF Listed, Hand, Taken
<1>7. <<>> \in Seq(Nat) /\ \A i \in 1 .. Len(queue) : queue[i] \in Seq(Nat)
  BY <1>1
<1>8. \A t \in Threads : Unstored(t) \in Seq(Nat)
  BY <1>1 DEF Hands
<1>9. \A h \in Spots : Here[h] \in Seq(Nat)
  <2> SUFFICES ASSUME NEW h \in Spots PROVE Here[h] \in Seq(Nat)
    OBVIOUS
  <2>1. CASE h \in {Notify, Cache, Crucial}
    BY <1>1, <1>4, <2>1
  <2>2. CASE \E i \in Nat \ {0} : h = Batch(i)
    BY <1>5, <1>7, <2>2
  <2>3. CASE \E t \in Threads : h = Hand(t) \/ h = Taken(t)
    BY <1>1, <1>6, <1>8, <2>3
  <2> QED
    BY <2>1, <2>2, <2>3, TheSpots
<1>10. Here \in [Spots -> Seq(Nat)]
  BY <1>3, <1>9
<1> QED
  BY <1>3, <1>4, <1>5, <1>6, <1>10 DEF HereIs

(* What a thread has in its hands, by itself.                              *)
LEMMA HereHands ==
    ASSUME Inv
    PROVE  \A t \in Threads : /\ Hand(t) \in Spots /\ Here[Hand(t)] = Unstored(t)
                              /\ Taken(t) \in Spots /\ Here[Taken(t)] = out[t]
  BY HereTyped, TheSpots DEF HereIs

(* The lists after a step: what M says of each place is what is there.     *)
LEMMA HereNext ==
    ASSUME Inv', NEW M, M = [h \in Spots |-> M[h]],
           M[Notify] = notifyEvents', M[Cache] = events', M[Crucial] = crucialQueue',
           \A i \in Nat \ {0} : M[Batch(i)] = IF i \in 1 .. Len(queue') THEN queue'[i] ELSE <<>>,
           \A t \in Threads : M[Hand(t)] = Unstored(t)' /\ M[Taken(t)] = out'[t]
    PROVE  M = Here'
<1>1. (Inv => HereIs)'
  BY HereTyped, PTL
<1>2. ASSUME NEW h \in Spots PROVE M[h] = Here'[h]
  <2>1. CASE h \in {Notify, Cache, Crucial}
    BY <1>1, <2>1 DEF HereIs
  <2>2. CASE \E i \in Nat \ {0} : h = Batch(i)
    BY <1>1, <2>2 DEF HereIs
  <2>3. CASE \E t \in Threads : h = Hand(t) \/ h = Taken(t)
    BY <1>1, <2>3 DEF HereIs
  <2> QED
    BY <2>1, <2>2, <2>3, TheSpots
<1>3. Here' = [h \in Spots |-> Here'[h]]
  BY <1>1 DEF HereIs
<1> QED
  BY <1>2, <1>3

-------------------------------------------------------------------------------
(* The steps, and where they take the events                               *)

Busy == {"batch", "submit", "urgent", "submitUrgent"}

(* What the parts of the invariant say, for one thread.                    *)
LEMMA TheirTypes ==
    ASSUME Inv
    PROVE  /\ pc \in [Threads -> Places] /\ todo \in [Threads -> Seq(Nat)]
              /\ out \in [Threads -> Seq(Nat)]
           /\ \A t \in Threads : todo[t] \in Seq(Nat) /\ (InTask(t) => todo[t] # <<>>)
           /\ \A t \in Handlers : pc[t] \in OfHandlers
              /\ (pc[t] \in {"off", "flush", "swap"} => t = "cleaner")
  BY DEF Inv, DataTyped, PlacesTyped

(* A step moves one thread.                                                *)
LEMMA OneMoves ==
    ASSUME Inv, NEW t \in Threads, NEW l, Goto(t, l)
    PROVE  pc'[t] = l /\ \A u \in Threads : u # t => pc'[u] = pc[u]
  BY TheirTypes DEF Goto

(* What a step leaves where it is.                                         *)
LEMMA OthersKeep ==
    ASSUME NEW t, \A u \in Threads : u # t => pc'[u] = pc[u] /\ todo'[u] = todo[u]
    PROVE  \A u \in Threads : u # t => Unstored(u)' = Unstored(u)
  BY DEF Unstored, InTask

(* A step that leaves every list as it is.                                *)
LEMMA SameFlow ==
    ASSUME Inv, Inv', FlowInv, UNCHANGED <<caches, queue, crucialQueue, out, results, sent>>,
           \A t \in Threads : Unstored(t)' = Unstored(t)
    PROVE  FlowInv'
<1>1. /\ notifyEvents' = notifyEvents /\ events' = events /\ queue' = queue
      /\ crucialQueue' = crucialQueue /\ out' = out
  BY DEF caches
<1>2. Here = Here'
  BY <1>1, HereTyped, HereNext DEF HereIs
<1> QED
  BY <1>2 DEF FlowInv, results

(* A thread that reports goes on with nothing more, and nothing less, in   *)
(* hand than before.                                                       *)
LEMMA ProducerGoes ==
    ASSUME Inv, Inv', HandsInv, FlowInv, NEW p \in Producers, NEW l \in ProducerPlaces, Goto(p, l),
           UNCHANGED <<caches, queue, crucialQueue, out, results, sent, todo>>,
           l \notin Busy => pc[p] \notin Busy,
           l \in {"urgent", "submitUrgent"} => pc[p] \in {"urgent", "submitUrgent"}
    PROVE  HandsInv' /\ FlowInv'
<1>1. p \in Threads /\ \A t \in Handlers : t # p /\ t \in Threads
  BY TheThreads
<1>2. pc'[p] = l /\ \A u \in Threads : u # p => pc'[u] = pc[u]
  BY <1>1, OneMoves
<1>3. \A u \in Threads : Unstored(u)' = Unstored(u)
  <2>1. pc[p] \in ProducerPlaces
    BY DEF HandsInv
  <2>2. ~InTask(p) /\ ~InTask(p)'
    BY <1>2, <2>1 DEF InTask, ProducerPlaces
  <2> QED
    BY <1>2, <2>2, OthersKeep DEF Unstored
<1>4. HandsInv'
  BY <1>1, <1>2, TheThreads DEF HandsInv, Busy
<1> QED
  BY <1>3, <1>4, SameFlow

(* So does a thread that handles events.                                   *)
LEMMA HandlerGoes ==
    ASSUME Inv, Inv', HandsInv, FlowInv, NEW t \in Handlers, NEW l, Goto(t, l),
           UNCHANGED <<caches, queue, crucialQueue, out, results, sent>>,
           \A u \in Threads : u # t => todo'[u] = todo[u],
           Unstored(t)' = Unstored(t), pc[t] \notin {"insert", "flush"},
           l \in {"idle", "off", "flush", "swap"} => todo'[t] = <<>>
    PROVE  HandsInv' /\ FlowInv'
<1>1. t \in Threads /\ \A p \in Producers : t # p /\ p \in Threads
  BY TheThreads
<1>2. pc'[t] = l /\ \A u \in Threads : u # t => pc'[u] = pc[u]
  BY <1>1, OneMoves
<1>3. \A u \in Threads : Unstored(u)' = Unstored(u)
  BY <1>2, OthersKeep
<1>4. HandsInv'
  BY <1>1, <1>2, TheThreads DEF HandsInv
<1> QED
  BY <1>3, <1>4, SameFlow

(* An event is uploaded: it joins the batch, or leaves with it, or is      *)
(* taken in hand, or refused for too many tasks.                           *)
LEMMA UploadFlow ==
    ASSUME Inv, Inv', HandsInv, FlowInv, NEW p \in Producers, NEW k \in Kinds,
           pc[p] \in {"idle", "upload"}, Len(sent) + 1 <= MaxEvents, UploadEvent(p, k)
    PROVE  HandsInv' /\ FlowInv'
<1> DEFINE n == Len(sent) + 1
           M == [Here EXCEPT ![Notify] = Append(notifyEvents, n)]
<1>1. p \in Threads /\ \A t \in Handlers : t # p /\ t \in Threads
  BY TheThreads
<1>2. Len(sent') = n /\ n \in Nat
  <2>1. sent \in Seq(Kinds) /\ sent' = Append(sent, k)
    BY DEF Inv, DataTyped, UploadEvent
  <2> QED
    BY <2>1
<1>3. HereIs /\ notifyEvents \in Seq(Nat) /\ todo \in [Threads -> Seq(Nat)]
  BY HereTyped DEF Inv, DataTyped
<1>4. Unstored(p) = <<>> /\ todo[p] = <<>>
  <2>1. todo[p] = <<>> /\ ~InTask(p)
    BY DEF HandsInv, InTask
  <2> QED
    BY <2>1 DEF Unstored
<1>5. CASE UploadBatched(p, k) /\ Len(notifyEvents) + 1 < NotifyBatch
  <2>1. /\ notifyEvents' = Append(notifyEvents, n) /\ todo' = [todo EXCEPT ![p] = <<>>]
        /\ Goto(p, "idle") /\ UNCHANGED <<events, queue, crucialQueue, results, out>>
    <3>1. ~(Len(notifyEvents) + 1 >= NotifyBatch)
      BY <1>3, <1>5, PipelineAssumption
    <3> QED
      BY <1>5, <3>1 DEF UploadBatched, queues
  <2>2. pc'[p] = "idle" /\ \A u \in Threads : u # p => pc'[u] = pc[u]
    BY <1>1, <2>1, OneMoves
  <2>3. \A u \in Threads : Unstored(u)' = Unstored(u)
    <3>1. ~InTask(p)' /\ todo'[p] = <<>> /\ \A u \in Threads : u # p => todo'[u] = todo[u]
      BY <1>1, <1>3, <2>1, <2>2 DEF InTask
    <3> QED
      BY <1>4, <2>2, <3>1, OthersKeep DEF Unstored
  <2>4. M = Here'
    <3>1. /\ M = [h \in Spots |-> M[h]] /\ M[Notify] = Append(notifyEvents, n)
          /\ \A h \in Spots : h # Notify => M[h] = Here[h]
      BY <1>3, TheSpots DEF HereIs
    <3> HIDE DEF M
    <3>2. M[Notify] = notifyEvents' /\ M[Cache] = events' /\ M[Crucial] = crucialQueue'
      BY <1>3, <2>1, <2>3, <3>1, TheSpots, SpotsApart DEF HereIs
    <3>3. \A i \in Nat \ {0} : M[Batch(i)] = IF i \in 1 .. Len(queue') THEN queue'[i] ELSE <<>>
      <4>1. \A i \in Nat \ {0} : M[Batch(i)] = Here[Batch(i)]
        BY <1>1, <3>1, TheSpots, SpotsApart
      <4> QED
        BY <1>3, <2>1, <4>1 DEF HereIs
    <3>4. \A t \in Threads : M[Hand(t)] = Unstored(t)' /\ M[Taken(t)] = out'[t]
      BY <1>3, <2>1, <2>3, <3>1, HereHands, SpotsApart
    <3> QED
      BY <3>1, <3>2, <3>3, <3>4, HereNext
  <2>5. Flow(M, dropped, store, n)
    BY <1>3, TheSpots, Arrives DEF FlowInv, HereIs
  <2>6. HandsInv'
    BY <1>1, <1>3, <2>1, <2>2, TheThreads DEF HandsInv, ProducerPlaces
  <2> QED
    BY <1>2, <2>1, <2>4, <2>5, <2>6 DEF FlowInv, results
<1>6. CASE UploadBatched(p, k) /\ Len(notifyEvents) + 1 >= NotifyBatch
  <2>1. /\ notifyEvents' = <<>> /\ todo' = [todo EXCEPT ![p] = Append(notifyEvents, n)]
        /\ Goto(p, "batch") /\ UNCHANGED <<events, queue, crucialQueue, results, out>>
    BY <1>6 DEF UploadBatched, queues
  <2>2. pc'[p] = "batch" /\ \A u \in Threads : u # p => pc'[u] = pc[u]
    BY <1>1, <2>1, OneMoves
  <2>3. Unstored(p)' = Append(notifyEvents, n)
          /\ \A u \in Threads : u # p => Unstored(u)' = Unstored(u)
    <3>1. ~InTask(p)' /\ todo'[p] = Append(notifyEvents, n)
            /\ \A u \in Threads : u # p => todo'[u] = todo[u]
      BY <1>1, <1>3, <2>1, <2>2 DEF InTask
    <3> QED
      BY <2>2, <3>1, OthersKeep DEF Unstored
  <2> DEFINE M2 == [M EXCEPT ![Notify] = <<>>, ![Hand(p)] = M[Notify]]
  <2>4. /\ M[Notify] = Append(notifyEvents, n) /\ M[Hand(p)] = <<>>
        /\ M = [h \in Spots |-> M[h]] /\ \A h \in Spots : h # Notify => M[h] = Here[h]
    BY <1>1, <1>3, <1>4, TheSpots, SpotsApart DEF HereIs
  <2>5. Flow(M, dropped, store, n)
    BY <1>3, TheSpots, Arrives DEF FlowInv, HereIs
  <2> HIDE DEF M
  <2>6. Flow(M2, dropped, store, n)
    BY <1>1, <2>4, <2>5, TheSpots, SpotsApart, Moves
  <2>7. M2 = Here'
    <3>1. /\ M2 = [h \in Spots |-> M2[h]] /\ M2[Notify] = <<>>
             /\ M2[Hand(p)] = Append(notifyEvents, n)
          /\ \A h \in Spots : h # Notify /\ h # Hand(p) => M2[h] = Here[h]
      BY <1>1, <2>4, TheSpots, SpotsApart
    <3> HIDE DEF M2
    <3>2. M2[Notify] = notifyEvents' /\ M2[Cache] = events' /\ M2[Crucial] = crucialQueue'
      BY <1>1, <1>3, <2>1, <2>3, <3>1, TheSpots, SpotsApart DEF HereIs
    <3>3. \A i \in Nat \ {0} : M2[Batch(i)] = IF i \in 1 .. Len(queue') THEN queue'[i] ELSE <<>>
      <4>1. \A i \in Nat \ {0} : M2[Batch(i)] = Here[Batch(i)]
        BY <1>1, <3>1, TheSpots, SpotsApart
      <4> QED
        BY <1>3, <2>1, <4>1 DEF HereIs
    <3>4. \A t \in Threads : M2[Hand(t)] = Unstored(t)' /\ M2[Taken(t)] = out'[t]
      BY <1>1, <1>3, <2>1, <2>3, <3>1, HereHands, SpotsApart
    <3> QED
      BY <3>1, <3>2, <3>3, <3>4, HereNext
  <2>8. HandsInv'
    BY <1>1, <1>3, <2>1, <2>2, TheThreads DEF HandsInv, ProducerPlaces
  <2> QED
    BY <1>2, <2>1, <2>6, <2>7, <2>8 DEF FlowInv, results
<1>7. CASE UploadUrgent(p, k) /\ crucialTaskCount > MaxTasks
  <2>1. /\ dropped' = dropped \union {n} /\ Goto(p, "idle")
        /\ UNCHANGED <<caches, queue, crucialQueue, store, out, todo>>
    BY <1>7 DEF UploadUrgent, queues
  <2>2. pc'[p] = "idle" /\ \A u \in Threads : u # p => pc'[u] = pc[u]
    BY <1>1, <2>1, OneMoves
  <2>3. \A u \in Threads : Unstored(u)' = Unstored(u)
    <3>1. ~InTask(p)' /\ todo' = todo
      BY <2>1, <2>2 DEF InTask
    <3> QED
      BY <1>4, <2>2, <3>1, OthersKeep DEF Unstored
  <2>4. Here = Here'
    BY <1>3, <2>1, <2>3, HereNext DEF HereIs, caches
  <2>5. Flow(Here, dropped \union {n}, store, n)
    BY Refused DEF FlowInv
  <2>6. HandsInv'
    BY <1>1, <1>4, <2>1, <2>2, TheThreads DEF HandsInv, ProducerPlaces
  <2> QED
    BY <1>2, <2>1, <2>4, <2>5, <2>6 DEF FlowInv
<1>8. CASE UploadUrgent(p, k) /\ ~(crucialTaskCount > MaxTasks)
  <2>1. /\ todo' = [todo EXCEPT ![p] = <<n>>] /\ Goto(p, "urgent")
        /\ UNCHANGED <<caches, queue, crucialQueue, results, out>>
    BY <1>8 DEF UploadUrgent, queues, results
  <2>2. pc'[p] = "urgent" /\ \A u \in Threads : u # p => pc'[u] = pc[u]
    BY <1>1, <2>1, OneMoves
  <2>3. Unstored(p)' = <<n>> /\ \A u \in Threads : u # p => Unstored(u)' = Unstored(u)
    <3>1. ~InTask(p)' /\ todo'[p] = <<n>> /\ \A u \in Threads : u # p => todo'[u] = todo[u]
      BY <1>1, <1>3, <2>1, <2>2 DEF InTask
    <3> QED
      BY <2>2, <3>1, OthersKeep DEF Unstored
  <2> DEFINE N == [Here EXCEPT ![Hand(p)] = Append(<<>>, n)]
  <2>4. Here[Hand(p)] = <<>>
    BY <1>1, <1>3, <1>4 DEF HereIs
  <2>5. Flow(N, dropped, store, n)
    BY <1>1, <2>4, TheSpots, Arrives DEF FlowInv
  <2>6. N = Here'
    <3>1. /\ N = [h \in Spots |-> N[h]] /\ N[Hand(p)] = <<n>>
          /\ \A h \in Spots : h # Hand(p) => N[h] = Here[h]
      <4>1. Append(<<>>, n) = <<n>>
        OBVIOUS
      <4> QED
        BY <1>1, <1>3, <4>1, TheSpots DEF HereIs
    <3> HIDE DEF N
    <3>2. N[Notify] = notifyEvents' /\ N[Cache] = events' /\ N[Crucial] = crucialQueue'
      BY <1>1, <1>3, <2>1, <2>3, <3>1, TheSpots, SpotsApart DEF HereIs, caches
    <3>3. \A i \in Nat \ {0} : N[Batch(i)] = IF i \in 1 .. Len(queue') THEN queue'[i] ELSE <<>>
      <4>1. \A i \in Nat \ {0} : N[Batch(i)] = Here[Batch(i)]
        BY <1>1, <3>1, TheSpots, SpotsApart
      <4> QED
        BY <1>3, <2>1, <4>1 DEF HereIs, caches
    <3>4. \A t \in Threads : N[Hand(t)] = Unstored(t)' /\ N[Taken(t)] = out'[t]
      BY <1>1, <1>3, <2>1, <2>3, <3>1, HereHands, SpotsApart DEF caches
    <3> QED
      BY <3>1, <3>2, <3>3, <3>4, HereNext
  <2>7. HandsInv'
    <3>1. todo'[p] = <<n>> /\ Len(<<n>>) = 1 /\ \A u \in Threads : u # p => todo'[u] = todo[u]
      BY <1>1, <1>3, <2>1
    <3> QED
      BY <1>1, <2>1, <2>2, <3>1, TheThreads DEF HandsInv, ProducerPlaces
  <2> QED
    BY <1>2, <2>1, <2>5, <2>6, <2>7 DEF FlowInv, results
<1>9. NotifyBatch \in Nat /\ Len(notifyEvents) \in Nat
  BY <1>3, PipelineAssumption
<1> QED
  BY <1>5, <1>6, <1>7, <1>8, <1>9 DEF UploadEvent

(* A list of one.                                                        *)
LEMMA Single ==
    ASSUME NEW s \in Seq(Nat), Len(s) = 1
    PROVE  s # <<>> /\ Tail(s) = <<>> /\ Head(s) = s[1]
<1>1. s # <<>> /\ Head(s) = s[1]
  <2>1. s = <<>> => 1 .. 1 = {}
    BY Elements
  <2>2. s # <<>>
    BY <2>1
  <2> QED
    BY <2>2, Elements
<1>2. Tail(s) \in Seq(Nat) /\ Len(Tail(s)) = 0
  BY <1>1, OfSequences
<1>3. \A e \in Seq(Nat) : Len(e) = 0 => e = <<>>
  OBVIOUS
<1> QED
  BY <1>1, <1>2, <1>3

(* A thread gives up what it has in hand.                                  *)
LEMMA GivenUp ==
    ASSUME Inv, Inv', HandsInv, FlowInv, NEW p \in Producers, Goto(p, "idle"),
           pc[p] \in {"batch", "submit"}, todo' = [todo EXCEPT ![p] = <<>>],
           dropped' = dropped \union ToSet(todo[p]),
           UNCHANGED <<caches, queue, crucialQueue, out, store, sent>>
    PROVE  HandsInv' /\ FlowInv'
<1>1. p \in Threads /\ HereIs /\ todo \in [Threads -> Seq(Nat)]
        /\ \A t \in Handlers : t # p /\ t \in Threads
  BY HereTyped, TheThreads DEF Inv, DataTyped
<1>2. pc'[p] = "idle" /\ \A u \in Threads : u # p => pc'[u] = pc[u] /\ todo'[u] = todo[u]
  BY <1>1, OneMoves
<1>3. Unstored(p) = todo[p] /\ Unstored(p)' = <<>>
        /\ \A u \in Threads : u # p => Unstored(u)' = Unstored(u)
  BY <1>1, <1>2, OthersKeep DEF Unstored, InTask
<1> DEFINE A == {Hand(p)}
           gone == ToSet(todo[p])
           M == [h \in Spots |-> IF h \in A THEN <<>> ELSE Here[h]]
<1>4. Flow(M, dropped \union gone, store, Len(sent))
  <2>1. A \in SUBSET Spots /\ Here[Hand(p)] = todo[p]
    BY <1>1, <1>3, TheSpots DEF HereIs
  <2>2. \A n : n \in gone <=> \E h \in A : \E i \in DOMAIN Here[h] : Here[h][i] = n
    BY <2>1 DEF ToSet
  <2> HIDE DEF A, gone
  <2> QED
    BY <2>1, <2>2, Dropped DEF FlowInv
<1>5. M = Here'
  <2>1. /\ M = [h \in Spots |-> M[h]]
        /\ M[Hand(p)] = <<>>
        /\ \A h \in Spots : h # Hand(p) => M[h] = Here[h]
    BY <1>1, TheSpots
  <2> HIDE DEF M
  <2>2. M[Notify] = notifyEvents' /\ M[Cache] = events' /\ M[Crucial] = crucialQueue'
    BY <1>1, <1>3, <2>1, TheSpots, SpotsApart DEF HereIs, caches
  <2>3. \A i \in Nat \ {0} : M[Batch(i)] = IF i \in 1 .. Len(queue') THEN queue'[i] ELSE <<>>
    <3>1. \A i \in Nat \ {0} : M[Batch(i)] = Here[Batch(i)]
      BY <2>1, TheSpots, SpotsApart
    <3> QED
      BY <1>1, <1>3, <3>1 DEF HereIs, caches
  <2>4. \A u \in Threads : M[Hand(u)] = Unstored(u)' /\ M[Taken(u)] = out'[u]
    <3>1. \A u \in Threads : M[Hand(u)] = Unstored(u)'
      BY <1>1, <1>3, <2>1, HereHands, SpotsApart
    <3>2. \A u \in Threads : M[Taken(u)] = out'[u]
      BY <1>1, <1>3, <2>1, HereHands, SpotsApart
    <3> QED
      BY <3>1, <3>2
  <2> QED
    BY <2>1, <2>2, <2>3, <2>4, HereNext
<1>6. HandsInv'
  BY <1>1, <1>2, TheThreads DEF HandsInv, ProducerPlaces
<1> QED
  BY <1>4, <1>5, <1>6 DEF FlowInv

(* A batch is put in the queue, or given up for want of one.               *)
LEMMA BatchFlow ==
    ASSUME Inv, Inv', HandsInv, FlowInv, NEW p \in Producers, SubmitBatch(p)
    PROVE  HandsInv' /\ FlowInv'
<1>1. p \in Threads /\ HereIs /\ todo \in [Threads -> Seq(Nat)] /\ queue \in Seq(Seq(Nat))
      /\ \A t \in Handlers : t # p /\ t \in Threads
  BY HereTyped, TheThreads DEF Inv, DataTyped
<1>2. CASE ~queueUp
  BY <1>2, GivenUp DEF SubmitBatch, control
<1>3. CASE queueUp
  <2>1. /\ todo' = [todo EXCEPT ![p] = <<>>] /\ queue' = Append(queue, todo[p]) /\ Goto(p, "count")
        /\ pc[p] = "submit" /\ UNCHANGED <<caches, crucialQueue, out, results, sent>>
    BY <1>3 DEF SubmitBatch, control, results
  <2>2. pc'[p] = "count" /\ \A u \in Threads : u # p => pc'[u] = pc[u] /\ todo'[u] = todo[u]
    BY <1>1, <2>1, OneMoves
  <2>3. Unstored(p) = todo[p] /\ Unstored(p)' = <<>>
          /\ \A u \in Threads : u # p => Unstored(u)' = Unstored(u)
    BY <1>1, <2>1, <2>2, OthersKeep DEF Unstored, InTask
  <2> DEFINE l == Len(queue) + 1
             M == [Here EXCEPT ![Hand(p)] = <<>>, ![Batch(l)] = Here[Hand(p)]]
  <2>4. /\ l \in Nat \ {0} /\ Len(queue') = l /\ queue'[l] = todo[p] /\ l \notin 1 .. Len(queue)
        /\ \A i \in 1 .. Len(queue) : queue'[i] = queue[i]
        /\ \A i \in Nat \ {0} : i # l => (i \in 1 .. l <=> i \in 1 .. Len(queue))
    <3>1. todo[p] \in Seq(Nat)
      BY <1>1
    <3> QED
      BY <1>1, <2>1, <3>1
  <2> HIDE DEF l
  <2>5. Here[Batch(l)] = <<>> /\ Here[Hand(p)] = todo[p] /\ Batch(l) \in Spots /\ Hand(p) \in Spots
          /\ Batch(l) # Hand(p)
    BY <1>1, <2>3, <2>4, TheSpots, SpotsApart DEF HereIs
  <2>6. Flow(M, dropped, store, Len(sent))
    BY <2>5, Moves DEF FlowInv
  <2>7. M = Here'
    <3>1. /\ M = [h \in Spots |-> M[h]] /\ M[Hand(p)] = <<>> /\ M[Batch(l)] = todo[p]
          /\ \A h \in Spots : h # Hand(p) /\ h # Batch(l) => M[h] = Here[h]
      BY <1>1, <2>5 DEF HereIs
    <3> HIDE DEF M
    <3>2. M[Notify] = notifyEvents' /\ M[Cache] = events' /\ M[Crucial] = crucialQueue'
      BY <1>1, <2>1, <3>1, TheSpots, SpotsApart DEF HereIs, caches
    <3>3. ASSUME NEW i \in Nat \ {0}
          PROVE  M[Batch(i)] = IF i \in 1 .. Len(queue') THEN queue'[i] ELSE <<>>
      <4>1. CASE i = l
        BY <2>4, <3>1, <4>1
      <4>2. CASE i # l
        <5>1. M[Batch(i)] = Here[Batch(i)]
          BY <3>1, <4>2, TheSpots, SpotsApart
        <5>2. Here[Batch(i)] = IF i \in 1 .. Len(queue) THEN queue[i] ELSE <<>>
          BY <1>1 DEF HereIs
        <5>3. i \in 1 .. Len(queue') <=> i \in 1 .. Len(queue)
          BY <2>4, <4>2
        <5> QED
          BY <2>4, <5>1, <5>2, <5>3
      <4> QED
        BY <4>1, <4>2
    <3>4. \A u \in Threads : M[Hand(u)] = Unstored(u)' /\ M[Taken(u)] = out'[u]
      <4>1. ASSUME NEW u \in Threads, u # p PROVE M[Hand(u)] = Unstored(u)'
        <5>1. M[Hand(u)] = Here[Hand(u)] /\ Here[Hand(u)] = Unstored(u)
          BY <1>1, <3>1, <4>1, HereHands, SpotsApart
        <5> QED
          BY <2>3, <4>1, <5>1
      <4>2. \A u \in Threads : M[Taken(u)] = out'[u]
        BY <1>1, <2>1, <3>1, HereHands, SpotsApart
      <4> QED
        BY <2>3, <3>1, <4>1, <4>2
    <3> QED
      BY <3>1, <3>2, <3>3, <3>4, HereNext
  <2>8. HandsInv'
    BY <1>1, <2>1, <2>2, TheThreads DEF HandsInv, ProducerPlaces
  <2> QED
    BY <2>1, <2>6, <2>7, <2>8 DEF FlowInv, results
<1> QED
  BY <1>2, <1>3 DEF SubmitBatch

(* An urgent event is put in its queue, or given up for want of one.       *)
LEMMA CrucialFlow ==
    ASSUME Inv, Inv', HandsInv, FlowInv, NEW p \in Producers, SubmitCrucial(p)
    PROVE  HandsInv' /\ FlowInv'
<1>1. crucialQueue \in Seq(Nat) /\ p \in Threads /\ HereIs /\ todo \in [Threads -> Seq(Nat)] 
      /\ \A t \in Handlers : t # p /\ t \in Threads
  BY HereTyped, TheThreads DEF Inv, DataTyped
<1>2. /\ pc[p] = "submitUrgent" /\ todo' = [todo EXCEPT ![p] = <<>>] /\ Goto(p, "idle")
      /\ UNCHANGED <<caches, queue, out, store, sent>>
  BY DEF SubmitCrucial, control
<1>3. pc'[p] = "idle" /\ \A u \in Threads : u # p => pc'[u] = pc[u] /\ todo'[u] = todo[u]
  BY <1>1, <1>2, OneMoves
<1>4. Unstored(p) = todo[p] /\ Unstored(p)' = <<>>
        /\ \A u \in Threads : u # p => Unstored(u)' = Unstored(u)
  BY <1>1, <1>2, <1>3, OthersKeep DEF Unstored, InTask
<1>5. todo[p] # <<>> /\ Tail(todo[p]) = <<>> /\ Head(todo[p]) = todo[p][1]
  <2>1. todo[p] \in Seq(Nat) /\ Len(todo[p]) = 1
    BY <1>1, <1>2 DEF HandsInv
  <2> QED
    BY <2>1, Single
<1>6. Here[Hand(p)] = todo[p] /\ Here[Crucial] = crucialQueue /\ Hand(p) \in Spots
        /\ Crucial \in Spots /\ Hand(p) # Crucial
  BY <1>1, <1>4, TheSpots, SpotsApart DEF HereIs
<1>7. HandsInv'
  BY <1>1, <1>2, <1>3, TheThreads DEF HandsInv, ProducerPlaces
<1>8. CASE queueUp
  <2>1. crucialQueue' = Append(crucialQueue, todo[p][1]) /\ dropped' = dropped
    BY <1>8 DEF SubmitCrucial
  <2> DEFINE M == [Here EXCEPT ![Hand(p)] = Tail(Here[Hand(p)]),
                               ![Crucial] = Append(Here[Crucial], Head(Here[Hand(p)]))]
  <2>2. Flow(M, dropped, store, Len(sent))
    BY <1>5, <1>6, HeadMoves DEF FlowInv
  <2>3. M = Here'
    <3>1. /\ M = [h \in Spots |-> M[h]]
          /\ M[Hand(p)] = <<>> /\ M[Crucial] = crucialQueue'
          /\ \A h \in Spots : h # Hand(p) /\ h # Crucial => M[h] = Here[h]
      BY <1>1, <1>5, <1>6, <2>1 DEF HereIs
    <3> HIDE DEF M
    <3>2. M[Notify] = notifyEvents' /\ M[Cache] = events' /\ M[Crucial] = crucialQueue'
      BY <1>1, <1>2, <3>1, TheSpots, SpotsApart DEF HereIs, caches
    <3>3. \A i \in Nat \ {0} : M[Batch(i)] = IF i \in 1 .. Len(queue') THEN queue'[i] ELSE <<>>
      <4>1. \A i \in Nat \ {0} : M[Batch(i)] = Here[Batch(i)]
        BY <3>1, TheSpots, SpotsApart
      <4> QED
        BY <1>1, <1>2, <4>1 DEF HereIs, caches
    <3>4. \A u \in Threads : M[Hand(u)] = Unstored(u)' /\ M[Taken(u)] = out'[u]
      <4>1. \A u \in Threads : M[Hand(u)] = Unstored(u)'
        BY <1>1, <1>4, <3>1, HereHands, SpotsApart
      <4>2. \A u \in Threads : M[Taken(u)] = out'[u]
        BY <1>1, <1>2, <3>1, HereHands, SpotsApart
      <4> QED
        BY <4>1, <4>2
    <3> QED
      BY <3>1, <3>2, <3>3, <3>4, HereNext
  <2> QED
    BY <1>2, <1>7, <2>1, <2>2, <2>3 DEF FlowInv
<1>9. CASE ~queueUp
  <2>1. dropped' = dropped \union {todo[p][1]} /\ crucialQueue' = crucialQueue
    BY <1>9 DEF SubmitCrucial
  <2> DEFINE M == [Here EXCEPT ![Hand(p)] = Tail(Here[Hand(p)])]
  <2>2. Flow(M, dropped \union {todo[p][1]}, store, Len(sent))
    BY <1>5, <1>6, HeadDropped DEF FlowInv
  <2>3. M = Here'
    <3>1. /\ M = [h \in Spots |-> M[h]]
          /\ M[Hand(p)] = <<>>
          /\ \A h \in Spots : h # Hand(p) => M[h] = Here[h]
      BY <1>1, <1>5, <1>6 DEF HereIs
    <3> HIDE DEF M
    <3>2. M[Notify] = notifyEvents' /\ M[Cache] = events' /\ M[Crucial] = crucialQueue'
      BY <1>1, <1>2, <2>1, <3>1, TheSpots, SpotsApart DEF HereIs, caches
    <3>3. \A i \in Nat \ {0} : M[Batch(i)] = IF i \in 1 .. Len(queue') THEN queue'[i] ELSE <<>>
      <4>1. \A i \in Nat \ {0} : M[Batch(i)] = Here[Batch(i)]
        BY <3>1, TheSpots, SpotsApart
      <4> QED
        BY <1>1, <1>2, <2>1, <4>1 DEF HereIs, caches
    <3>4. \A u \in Threads : M[Hand(u)] = Unstored(u)' /\ M[Taken(u)] = out'[u]
      <4>1. \A u \in Threads : M[Hand(u)] = Unstored(u)'
        BY <1>1, <1>4, <3>1, HereHands, SpotsApart
      <4>2. \A u \in Threads : M[Taken(u)] = out'[u]
        BY <1>1, <1>2, <2>1, <3>1, HereHands, SpotsApart
      <4> QED
        BY <4>1, <4>2
    <3> QED
      BY <3>1, <3>2, <3>3, <3>4, HereNext
  <2> QED
    BY <1>2, <1>7, <2>1, <2>2, <2>3 DEF FlowInv
<1> QED
  BY <1>8, <1>9

(* The flush takes the cache of the store.                                 *)
LEMMA SwapEventsFlow ==
    ASSUME Inv, Inv', HandsInv, FlowInv, SwapEvents
    PROVE  HandsInv' /\ FlowInv'
<1>0. todo \in [Threads -> Seq(Nat)] /\ out \in [Threads -> Seq(Nat)]
  BY DEF Inv, DataTyped
<1>1. "cleaner" \in Threads /\ "cleaner" \in Handlers /\ HereIs
        /\ \A p \in Producers : p \in Threads /\ p # "cleaner"
  BY HereTyped, TheThreads
<1>2. /\ pc["cleaner"] = "idle" /\ events' = <<>> /\ out' = [out EXCEPT !["cleaner"] = events]
      /\ Goto("cleaner", "flush")
         /\ UNCHANGED <<notifyEvents, queue, crucialQueue, results, sent, todo>>
  BY DEF SwapEvents, queues, control
<1>3. /\ pc'["cleaner"] = "flush"
         /\ \A u \in Threads : u # "cleaner" => pc'[u] = pc[u] /\ out'[u] = out[u]
      /\ notifyEvents' = notifyEvents /\ queue' = queue /\ crucialQueue' = crucialQueue
         /\ events' = <<>>
  BY <1>0, <1>1, <1>2, OneMoves
<1>4. out["cleaner"] = <<>> /\ out'["cleaner"] = events /\ todo["cleaner"] = <<>>
  BY <1>0, <1>1, <1>2 DEF HandsInv
<1>5. \A u \in Threads : Unstored(u)' = Unstored(u)
  <2>1. ~InTask("cleaner") /\ ~InTask("cleaner")'
    BY <1>2, <1>3 DEF InTask
  <2> QED
    BY <1>2, <1>3, <2>1, OthersKeep DEF Unstored
<1> DEFINE a == Taken("cleaner")
           M == [Here EXCEPT ![Cache] = <<>>, ![a] = Here[Cache]]
<1>6. a \in Spots /\ Cache \in Spots /\ Cache # a /\ Here[a] = <<>> /\ Here[Cache] = events
  BY <1>1, <1>4, TheSpots, SpotsApart DEF HereIs
<1>a. \A u \in Threads : Hand(u) # a /\ (u # "cleaner" => Taken(u) # a)
  BY SpotsApart
<1>7. Flow(M, dropped, store, Len(sent))
  BY <1>6, Moves DEF FlowInv
<1>8. M = Here'
  <2>1. /\ M = [h \in Spots |-> M[h]]
        /\ M[Cache] = <<>> /\ M[a] = events
        /\ \A h \in Spots : h # Cache /\ h # a => M[h] = Here[h]
    BY <1>1, <1>6 DEF HereIs
  <2> HIDE DEF M
  <2>2. M[Notify] = notifyEvents' /\ M[Cache] = events' /\ M[Crucial] = crucialQueue'
    BY <1>1, <1>3, <1>4, <1>a, <2>1, TheSpots, SpotsApart DEF HereIs
  <2>3. \A i \in Nat \ {0} : M[Batch(i)] = IF i \in 1 .. Len(queue') THEN queue'[i] ELSE <<>>
    <3>1. \A i \in Nat \ {0} : M[Batch(i)] = Here[Batch(i)]
      BY <2>1, TheSpots, SpotsApart
    <3> QED
      BY <1>1, <1>3, <1>4, <1>a, <3>1 DEF HereIs
  <2>4. \A u \in Threads : M[Hand(u)] = Unstored(u)' /\ M[Taken(u)] = out'[u]
    <3>1. \A u \in Threads : M[Hand(u)] = Unstored(u)'
      BY <1>1, <1>5, <2>1, HereHands, SpotsApart
    <3>2. \A u \in Threads : M[Taken(u)] = out'[u]
      BY <1>1, <1>3, <1>4, <1>a, <2>1, HereHands, SpotsApart
    <3> QED
      BY <3>1, <3>2
  <2> QED
    BY <2>1, <2>2, <2>3, <2>4, HereNext
<1>9. HandsInv'
  BY <1>0, <1>1, <1>2, <1>3, <1>4, TheThreads DEF HandsInv
<1> QED
  BY <1>2, <1>7, <1>8, <1>9 DEF FlowInv, results

(* The flush takes the unfinished batch.                                   *)
LEMMA SwapNotifyFlow ==
    ASSUME Inv, Inv', HandsInv, FlowInv, SwapNotifyEvents
    PROVE  HandsInv' /\ FlowInv'
<1>0. todo \in [Threads -> Seq(Nat)] /\ out \in [Threads -> Seq(Nat)]
  BY DEF Inv, DataTyped
<1>1. "cleaner" \in Threads /\ "cleaner" \in Handlers /\ HereIs
        /\ \A p \in Producers : p \in Threads /\ p # "cleaner"
  BY HereTyped, TheThreads
<1>2. /\ pc["cleaner"] = "swap" /\ notifyEvents' = <<>>
         /\ todo' = [todo EXCEPT !["cleaner"] = notifyEvents]
      /\ Goto("cleaner", "task") /\ UNCHANGED <<events, queue, crucialQueue, results, sent, out>>
  BY DEF SwapNotifyEvents, queues, control
<1>3. pc'["cleaner"] = "task"
        /\ \A u \in Threads : u # "cleaner" => pc'[u] = pc[u] /\ todo'[u] = todo[u]
  BY <1>0, <1>1, <1>2, OneMoves
<1>4. out["cleaner"] = <<>> /\ todo'["cleaner"] = notifyEvents /\ todo["cleaner"] = <<>>
  BY <1>0, <1>1, <1>2 DEF HandsInv
<1>5. /\ Unstored("cleaner") = <<>> /\ Unstored("cleaner")' = notifyEvents
      /\ \A u \in Threads : u # "cleaner" => Unstored(u)' = Unstored(u)
  BY <1>2, <1>3, <1>4, OthersKeep DEF Unstored, InTask
<1> DEFINE a == Hand("cleaner")
           M == [Here EXCEPT ![Notify] = <<>>, ![a] = Here[Notify]]
<1>6. a \in Spots /\ Notify \in Spots /\ Notify # a /\ Here[a] = <<>> /\ Here[Notify] = notifyEvents
  BY <1>1, <1>5, TheSpots, SpotsApart DEF HereIs
<1>7. Flow(M, dropped, store, Len(sent))
  BY <1>6, Moves DEF FlowInv
<1>8. M = Here'
  <2>1. /\ M = [h \in Spots |-> M[h]]
        /\ M[Notify] = <<>> /\ M[a] = notifyEvents
        /\ \A h \in Spots : h # Notify /\ h # a => M[h] = Here[h]
    BY <1>1, <1>6 DEF HereIs
  <2> HIDE DEF M
  <2>2. M[Notify] = notifyEvents' /\ M[Cache] = events' /\ M[Crucial] = crucialQueue'
    BY <1>1, <1>2, <2>1, TheSpots, SpotsApart DEF HereIs
  <2>3. \A i \in Nat \ {0} : M[Batch(i)] = IF i \in 1 .. Len(queue') THEN queue'[i] ELSE <<>>
    <3>1. \A i \in Nat \ {0} : M[Batch(i)] = Here[Batch(i)]
      BY <2>1, TheSpots, SpotsApart
    <3> QED
      BY <1>1, <1>2, <3>1 DEF HereIs
  <2>4. \A u \in Threads : M[Hand(u)] = Unstored(u)' /\ M[Taken(u)] = out'[u]
    <3>1. \A u \in Threads : M[Hand(u)] = Unstored(u)'
      BY <1>1, <1>5, <2>1, HereHands, SpotsApart
    <3>2. \A u \in Threads : M[Taken(u)] = out'[u]
      BY <1>1, <1>2, <2>1, HereHands, SpotsApart
    <3> QED
      BY <3>1, <3>2
  <2> QED
    BY <2>1, <2>2, <2>3, <2>4, HereNext
<1>9. HandsInv'
  BY <1>0, <1>1, <1>2, <1>3, <1>4, TheThreads DEF HandsInv
<1> QED
  BY <1>2, <1>7, <1>8, <1>9 DEF FlowInv, results

(* What a thread has taken from the cache is inserted.                     *)
LEMMA StoredFlow ==
    ASSUME Inv, Inv', HandsInv, FlowInv, NEW t \in Handlers, NEW l,
           (pc[t] = "insert" /\ l = "publish") \/ (pc[t] = "flush" /\ l = "swap"), Goto(t, l),
           store' = Inserted(out[t]), out' = [out EXCEPT ![t] = <<>>],
           UNCHANGED <<caches, queue, crucialQueue, dropped, sent, todo>>
    PROVE  HandsInv' /\ FlowInv'
<1>0. todo \in [Threads -> Seq(Nat)] /\ out \in [Threads -> Seq(Nat)]
  BY DEF Inv, DataTyped
<1>1. t \in Threads /\ HereIs /\ \A p \in Producers : p \in Threads /\ p # t
  BY HereTyped, TheThreads
<1>2. pc'[t] = l /\ out'[t] = <<>> /\ \A u \in Threads : u # t => pc'[u] = pc[u] /\ out'[u] = out[u]
  BY <1>0, <1>1, OneMoves
<1>3. \A u \in Threads : Unstored(u)' = Unstored(u)
  <2>1. InTask(t)' <=> InTask(t)
    BY <1>2 DEF InTask
  <2> QED
    BY <1>2, <2>1, OthersKeep DEF Unstored
<1> DEFINE a == Taken(t)
           M == [Here EXCEPT ![a] = <<>>]
<1>4. a \in Spots /\ Here[a] = out[t]
  BY <1>1, TheSpots DEF HereIs
<1>a. \A u \in Threads : Hand(u) # a /\ (u # t => Taken(u) # a)
  BY SpotsApart
<1>5. Flow(M, dropped, store', Len(sent))
  BY <1>4, Stored DEF FlowInv, Inserted
<1>6. M = Here'
  <2>1. /\ M = [h \in Spots |-> M[h]]
        /\ M[a] = <<>>
        /\ \A h \in Spots : h # a => M[h] = Here[h]
    BY <1>1, <1>4 DEF HereIs
  <2> HIDE DEF M
  <2>2. M[Notify] = notifyEvents' /\ M[Cache] = events' /\ M[Crucial] = crucialQueue'
    BY <1>1, <1>2, <1>a, <2>1, TheSpots, SpotsApart DEF HereIs, caches
  <2>3. \A i \in Nat \ {0} : M[Batch(i)] = IF i \in 1 .. Len(queue') THEN queue'[i] ELSE <<>>
    <3>1. \A i \in Nat \ {0} : M[Batch(i)] = Here[Batch(i)]
      BY <2>1, TheSpots, SpotsApart
    <3> QED
      BY <1>1, <1>2, <1>a, <3>1 DEF HereIs, caches
  <2>4. \A u \in Threads : M[Hand(u)] = Unstored(u)' /\ M[Taken(u)] = out'[u]
    <3>1. \A u \in Threads : M[Hand(u)] = Unstored(u)'
      BY <1>1, <1>3, <1>a, <2>1, HereHands, SpotsApart
    <3>2. \A u \in Threads : M[Taken(u)] = out'[u]
      BY <1>1, <1>2, <1>a, <2>1, HereHands, SpotsApart
    <3> QED
      BY <3>1, <3>2
  <2> QED
    BY <2>1, <2>2, <2>3, <2>4, HereNext
<1>7. HandsInv'
  BY <1>0, <1>1, <1>2, TheThreads DEF HandsInv
<1> QED
  BY <1>5, <1>6, <1>7 DEF FlowInv

(* A task takes an urgent event.                                           *)
LEMMA TakeCrucialFlow ==
    ASSUME Inv, Inv', HandsInv, FlowInv, TakeCrucial
    PROVE  HandsInv' /\ FlowInv'
<1>0. todo \in [Threads -> Seq(Nat)] /\ out \in [Threads -> Seq(Nat)]
  BY DEF Inv, DataTyped
<1>1. "crucial" \in Threads /\ "crucial" \in Handlers /\ HereIs
        /\ \A p \in Producers : p \in Threads /\ p # "crucial"
  BY HereTyped, TheThreads
<1>2. /\ pc["crucial"] = "idle" /\ crucialQueue # <<>> /\ crucialQueue' = Tail(crucialQueue)
      /\ todo' = [todo EXCEPT !["crucial"] = <<Head(crucialQueue)>>] /\ Goto("crucial", "task")
      /\ UNCHANGED <<caches, queue, results, sent, out>>
  BY DEF TakeCrucial, control
<1>3. pc'["crucial"] = "task"
        /\ \A u \in Threads : u # "crucial" => pc'[u] = pc[u] /\ todo'[u] = todo[u]
  BY <1>0, <1>1, <1>2, OneMoves
<1>4. todo["crucial"] = <<>> /\ todo'["crucial"] = <<Head(crucialQueue)>>
  BY <1>0, <1>1, <1>2 DEF HandsInv
<1>5. /\ Unstored("crucial") = <<>> /\ Unstored("crucial")' = <<Head(crucialQueue)>>
      /\ \A u \in Threads : u # "crucial" => Unstored(u)' = Unstored(u)
  BY <1>2, <1>3, <1>4, OthersKeep DEF Unstored, InTask
<1> DEFINE a == Hand("crucial")
           M == [Here EXCEPT ![Crucial] = Tail(Here[Crucial]),
                             ![a] = Append(Here[a], Head(Here[Crucial]))]
<1>6. a \in Spots /\ Crucial \in Spots /\ Crucial # a /\ Here[a] = <<>>
        /\ Here[Crucial] = crucialQueue
  BY <1>1, <1>5, TheSpots, SpotsApart DEF HereIs
<1>a. \A u \in Threads : Taken(u) # a /\ (u # "crucial" => Hand(u) # a)
  BY SpotsApart
<1>b. Append(<<>>, Head(crucialQueue)) = <<Head(crucialQueue)>>
  OBVIOUS
<1>7. Flow(M, dropped, store, Len(sent))
  BY <1>2, <1>6, HeadMoves DEF FlowInv
<1>8. M = Here'
  <2>1. /\ M = [h \in Spots |-> M[h]]
        /\ M[Crucial] = Tail(crucialQueue) /\ M[a] = <<Head(crucialQueue)>>
        /\ \A h \in Spots : h # Crucial /\ h # a => M[h] = Here[h]
    BY <1>1, <1>6, <1>b DEF HereIs
  <2> HIDE DEF M
  <2>2. M[Notify] = notifyEvents' /\ M[Cache] = events' /\ M[Crucial] = crucialQueue'
    BY <1>1, <1>2, <1>a, <2>1, TheSpots, SpotsApart DEF HereIs, caches
  <2>3. \A i \in Nat \ {0} : M[Batch(i)] = IF i \in 1 .. Len(queue') THEN queue'[i] ELSE <<>>
    <3>1. \A i \in Nat \ {0} : M[Batch(i)] = Here[Batch(i)]
      BY <2>1, TheSpots, SpotsApart
    <3> QED
      BY <1>1, <1>2, <1>a, <3>1 DEF HereIs, caches
  <2>4. \A u \in Threads : M[Hand(u)] = Unstored(u)' /\ M[Taken(u)] = out'[u]
    <3>1. \A u \in Threads : M[Hand(u)] = Unstored(u)'
      BY <1>1, <1>5, <1>a, <2>1, HereHands, SpotsApart
    <3>2. \A u \in Threads : M[Taken(u)] = out'[u]
      BY <1>1, <1>2, <1>a, <2>1, HereHands, SpotsApart
    <3> QED
      BY <3>1, <3>2
  <2> QED
    BY <2>1, <2>2, <2>3, <2>4, HereNext
<1>9. HandsInv'
  BY <1>0, <1>1, <1>2, <1>3, <1>4, TheThreads DEF HandsInv
<1> QED
  BY <1>2, <1>7, <1>8, <1>9 DEF FlowInv, results

(* A task takes the first batch, and the others move up.                   *)
LEMMA TakeBatchFlow ==
    ASSUME Inv, Inv', HandsInv, FlowInv, TakeBatch
    PROVE  HandsInv' /\ FlowInv'
<1>0. todo \in [Threads -> Seq(Nat)] /\ out \in [Threads -> Seq(Nat)]
  BY DEF Inv, DataTyped
<1>1. "queue" \in Threads /\ "queue" \in Handlers /\ HereIs
        /\ \A p \in Producers : p \in Threads /\ p # "queue"
  BY HereTyped, TheThreads
<1>2. /\ pc["queue"] = "idle" /\ queue # <<>> /\ queue' = Tail(queue)
      /\ todo' = [todo EXCEPT !["queue"] = Head(queue)] /\ Goto("queue", "task")
      /\ UNCHANGED <<caches, crucialQueue, results, sent, out>>
  BY DEF TakeBatch, control
<1>3. pc'["queue"] = "task"
        /\ \A u \in Threads : u # "queue" => pc'[u] = pc[u] /\ todo'[u] = todo[u]
  BY <1>0, <1>1, <1>2, OneMoves
<1>4. todo["queue"] = <<>> /\ todo'["queue"] = Head(queue)
  BY <1>0, <1>1, <1>2 DEF HandsInv
<1>5. /\ Unstored("queue") = <<>> /\ Unstored("queue")' = Head(queue)
      /\ \A u \in Threads : u # "queue" => Unstored(u)' = Unstored(u)
  BY <1>2, <1>3, <1>4, OthersKeep DEF Unstored, InTask
<1>6. /\ Len(queue) \in Nat /\ Len(queue) >= 1 /\ Len(queue') = Len(queue) - 1
         /\ Head(queue) = queue[1]
      /\ \A i \in 1 .. Len(queue) - 1 : queue'[i] = queue[i + 1]
  <2>1. queue \in Seq(Seq(Nat))
    BY DEF Inv, DataTyped
  <2>2. Len(queue) # 0
    BY <1>2, <2>1
  <2> QED
    BY <1>2, <2>1, <2>2
<1> DEFINE a == Hand("queue")
           b == Batch(1)
           M == [Here EXCEPT ![b] = <<>>, ![a] = Here[b]]
           m == [h \in Spots |-> IF h[1] = "queue" THEN Batch(h[2] + 1) ELSE h]
           N == [h \in Spots |-> M[m[h]]]
<1>7. a \in Spots /\ b \in Spots /\ b # a /\ Here[a] = <<>> /\ Here[b] = Head(queue)
  <2>1. a \in Spots /\ b \in Spots /\ b # a
    BY <1>1, TheSpots, SpotsApart
  <2>2. 1 \in Nat \ {0} /\ 1 \in 1 .. Len(queue)
    BY <1>6
  <2>3. Here[b] = queue[1] /\ Here[a] = <<>>
    BY <1>1, <1>5, <2>2 DEF HereIs
  <2> QED
    BY <1>6, <2>1, <2>3
<1>8. Flow(M, dropped, store, Len(sent))
  BY <1>7, Moves DEF FlowInv
<1>9. M[b] = <<>> /\ M[a] = Head(queue) /\ \A h \in Spots : h # b /\ h # a => M[h] = Here[h]
  BY <1>1, <1>7 DEF HereIs
<1> HIDE DEF M
<1>10. /\ \A i \in Nat \ {0} : m[Batch(i)] = Batch(i + 1)
       /\ \A h \in {Notify, Cache, Crucial} : m[h] = h
       /\ \A u \in Threads : m[Hand(u)] = Hand(u) /\ m[Taken(u)] = Taken(u)
  <2>1. \A i \in Nat \ {0} : m[Batch(i)] = Batch(i + 1)
    BY TheSpots DEF Batch
  <2>2. m[Notify] = Notify /\ m[Cache] = Cache /\ m[Crucial] = Crucial
    BY TheSpots DEF Notify, Cache, Crucial
  <2>3. \A u \in Threads : m[Hand(u)] = Hand(u) /\ m[Taken(u)] = Taken(u)
    BY TheSpots DEF Hand, Taken
  <2> HIDE DEF m
  <2> QED
    BY <2>1, <2>2, <2>3
<1>11. m \in [Spots -> Spots]
  <2> SUFFICES ASSUME NEW h \in Spots PROVE m[h] \in Spots
    OBVIOUS
  <2> HIDE DEF m
  <2>1. CASE h \in {Notify, Cache, Crucial} \/ \E u \in Threads : h = Hand(u) \/ h = Taken(u)
    BY <1>10, <2>1
  <2>2. CASE \E i \in Nat \ {0} : h = Batch(i)
    BY <1>10, <2>2, TheSpots
  <2> QED
    BY <2>1, <2>2, TheSpots
<1>12. \A g, h \in Spots : m[g] = m[h] => g = h
  BY DEF Spots, Batch
<1>13. \A h \in Spots : M[h] = <<>> \/ \E g \in Spots : m[g] = h
  <2> SUFFICES ASSUME NEW h \in Spots, M[h] # <<>> PROVE \E g \in Spots : m[g] = h
    OBVIOUS
  <2> HIDE DEF m
  <2>1. CASE h \in {Notify, Cache, Crucial} \/ \E u \in Threads : h = Hand(u) \/ h = Taken(u)
    BY <1>10, <2>1
  <2>2. CASE \E i \in Nat \ {0} : h = Batch(i)
    <3>1. PICK i \in Nat \ {0} : h = Batch(i)
      BY <2>2
    <3>2. i # 1
      BY <1>9, <3>1
    <3>3. i - 1 \in Nat \ {0} /\ (i - 1) + 1 = i
      BY <3>2
    <3> QED
      BY <1>10, <3>1, <3>3, TheSpots
  <2> QED
    BY <2>1, <2>2, TheSpots
<1> HIDE DEF m
<1>14. Flow(N, dropped, store, Len(sent))
  BY <1>8, <1>11, <1>12, <1>13, Renamed
<1>15. N = Here'
  <2>1. N = [h \in Spots |-> N[h]] /\ \A h \in Spots : N[h] = M[m[h]]
    OBVIOUS
  <2> HIDE DEF N
  <2>2. N[Notify] = notifyEvents' /\ N[Cache] = events' /\ N[Crucial] = crucialQueue'
    <3>1. \A h \in {Notify, Cache, Crucial} : N[h] = Here[h]
      BY <1>9, <1>10, <2>1, TheSpots, SpotsApart
    <3> QED
      BY <1>1, <1>2, <3>1 DEF HereIs, caches
  <2>3. ASSUME NEW i \in Nat \ {0}
        PROVE  N[Batch(i)] = IF i \in 1 .. Len(queue') THEN queue'[i] ELSE <<>>
    <3>1. N[Batch(i)] = M[Batch(i + 1)]
      BY <1>10, <2>1, TheSpots
    <3>2. i + 1 \in Nat \ {0} /\ i + 1 # 1
      OBVIOUS
    <3>3. Batch(i + 1) # b /\ Batch(i + 1) # a /\ Batch(i + 1) \in Spots
      BY <3>2, TheSpots, SpotsApart
    <3>4. M[Batch(i + 1)] = IF i + 1 \in 1 .. Len(queue) THEN queue[i + 1] ELSE <<>>
      BY <1>1, <1>9, <3>2, <3>3 DEF HereIs
    <3>5. i + 1 \in 1 .. Len(queue) <=> i \in 1 .. Len(queue) - 1
      BY <1>6
    <3> QED
      BY <1>6, <3>1, <3>4, <3>5
  <2>4. \A u \in Threads : N[Hand(u)] = Unstored(u)' /\ N[Taken(u)] = out'[u]
    <3>1. \A u \in Threads : N[Hand(u)] = M[Hand(u)] /\ N[Taken(u)] = M[Taken(u)]
      BY <1>10, <2>1, TheSpots
    <3>2. \A u \in Threads : Hand(u) # b /\ Taken(u) # b /\ Taken(u) # a
            /\ (u # "queue" => Hand(u) # a)
      BY SpotsApart
    <3>3. \A u \in Threads : M[Hand(u)] = Unstored(u)'
      BY <1>1, <1>5, <1>9, <3>2, TheSpots DEF HereIs
    <3>4. \A u \in Threads : M[Taken(u)] = out'[u]
      BY <1>1, <1>2, <1>9, <3>2, TheSpots DEF HereIs
    <3> QED
      BY <3>1, <3>3, <3>4
  <2> QED
    BY <2>1, <2>2, <2>3, <2>4, HereNext
<1>16. HandsInv'
  BY <1>0, <1>1, <1>2, <1>3, <1>4, TheThreads DEF HandsInv
<1> QED
  BY <1>2, <1>14, <1>15, <1>16 DEF FlowInv, results

(* An event goes to the cache of the store, and may take all of it along.  *)
LEMMA TaskFlow ==
    ASSUME Inv, Inv', HandsInv, FlowInv, NEW t \in Handlers, UploadEventTask(t)
    PROVE  HandsInv' /\ FlowInv'
<1>0. todo \in [Threads -> Seq(Nat)] /\ out \in [Threads -> Seq(Nat)]
  BY DEF Inv, DataTyped
<1>1. t \in Threads /\ HereIs /\ \A p \in Producers : p \in Threads /\ p # t
  BY HereTyped, TheThreads
<1> DEFINE n == Head(todo[t])
           cached == Append(events, n)
           a == Hand(t)
           b == Taken(t)
<1>2. /\ pc[t] = "task" /\ todo[t] # <<>>
         /\ UNCHANGED <<notifyEvents, queue, crucialQueue, store, sent>>
      /\ \/ /\ dropped' = dropped \union {n} /\ todo' = [todo EXCEPT ![t] = Tail(todo[t])]
            /\ UNCHANGED <<events, out, pc>>
         \/ /\ events' = cached /\ Goto(t, "publish") /\ UNCHANGED <<dropped, todo, out>>
         \/ /\ events' = <<>> /\ out' = [out EXCEPT ![t] = cached] /\ Goto(t, "insert")
            /\ UNCHANGED <<dropped, todo>>
  BY DEF UploadEventTask, queues, control
<1>3. Unstored(t) = todo[t] /\ out[t] = <<>>
  BY <1>1, <1>2 DEF Unstored, InTask, HandsInv
<1>4. /\ a \in Spots /\ b \in Spots /\ Cache \in Spots /\ a # Cache /\ b # Cache /\ a # b
      /\ Here[a] = todo[t] /\ Here[Cache] = events /\ Here[b] = <<>>
  BY <1>1, <1>3, TheSpots, SpotsApart DEF HereIs
<1>5. \A u \in Threads : Hand(u) # b /\ Taken(u) # a /\ (u # t => Hand(u) # a /\ Taken(u) # b)
  BY SpotsApart
<1>6. CASE dropped' = dropped \union {n} /\ todo' = [todo EXCEPT ![t] = Tail(todo[t])]
             /\ UNCHANGED <<events, out, pc>>
  <2>1. pc' = pc /\ todo'[t] = Tail(todo[t]) /\ \A u \in Threads : u # t => todo'[u] = todo[u]
    BY <1>0, <1>1, <1>6
  <2>2. Unstored(t)' = Tail(todo[t]) /\ \A u \in Threads : u # t => Unstored(u)' = Unstored(u)
    BY <1>2, <2>1, OthersKeep DEF Unstored, InTask
  <2> DEFINE M == [Here EXCEPT ![a] = Tail(Here[a])]
  <2>3. Flow(M, dropped \union {n}, store, Len(sent))
    BY <1>2, <1>4, HeadDropped DEF FlowInv
  <2>4. M = Here'
    <3>1. /\ M = [h \in Spots |-> M[h]]
          /\ M[a] = Tail(todo[t])
          /\ \A h \in Spots : h # a => M[h] = Here[h]
      BY <1>1, <1>4 DEF HereIs
    <3> HIDE DEF M
    <3>2. M[Notify] = notifyEvents' /\ M[Cache] = events' /\ M[Crucial] = crucialQueue'
      BY <1>1, <1>2, <1>5, <1>6, <3>1, TheSpots, SpotsApart DEF HereIs
    <3>3. \A i \in Nat \ {0} : M[Batch(i)] = IF i \in 1 .. Len(queue') THEN queue'[i] ELSE <<>>
      <4>1. \A i \in Nat \ {0} : M[Batch(i)] = Here[Batch(i)]
        BY <3>1, TheSpots, SpotsApart
      <4> QED
        BY <1>1, <1>2, <1>5, <1>6, <4>1 DEF HereIs
    <3>4. \A u \in Threads : M[Hand(u)] = Unstored(u)' /\ M[Taken(u)] = out'[u]
      <4>1. \A u \in Threads : M[Hand(u)] = Unstored(u)'
        BY <1>1, <1>5, <2>2, <3>1, HereHands, SpotsApart
      <4>2. \A u \in Threads : M[Taken(u)] = out'[u]
        BY <1>1, <1>2, <1>5, <1>6, <3>1, HereHands, SpotsApart
      <4> QED
        BY <4>1, <4>2
    <3> QED
      BY <3>1, <3>2, <3>3, <3>4, HereNext
  <2>5. HandsInv'
    BY <1>1, <1>2, <1>6, <2>1, TheThreads DEF HandsInv
  <2> QED
    BY <1>2, <1>6, <2>3, <2>4, <2>5 DEF FlowInv
<1> DEFINE M == [Here EXCEPT ![a] = Tail(Here[a]), ![Cache] = Append(Here[Cache], Head(Here[a]))]
<1>7. Flow(M, dropped, store, Len(sent))
  BY <1>2, <1>4, HeadMoves DEF FlowInv
<1>8. /\ M = [h \in Spots |-> M[h]] /\ M[a] = Tail(todo[t]) /\ M[Cache] = cached
      /\ \A h \in Spots : h # a /\ h # Cache => M[h] = Here[h]
  BY <1>1, <1>4 DEF HereIs
<1> HIDE DEF M
<1>9. CASE events' = cached /\ Goto(t, "publish") /\ UNCHANGED <<dropped, todo, out>>
  <2>1. pc'[t] = "publish" /\ \A u \in Threads : u # t => pc'[u] = pc[u]
    BY <1>1, <1>9, OneMoves
  <2>2. Unstored(t)' = Tail(todo[t]) /\ \A u \in Threads : u # t => Unstored(u)' = Unstored(u)
    BY <1>9, <2>1, OthersKeep DEF Unstored, InTask
  <2>3. M = Here'
    <3>2. M[Notify] = notifyEvents' /\ M[Cache] = events' /\ M[Crucial] = crucialQueue'
      BY <1>1, <1>2, <1>5, <1>9, <1>8, TheSpots, SpotsApart DEF HereIs
    <3>3. \A i \in Nat \ {0} : M[Batch(i)] = IF i \in 1 .. Len(queue') THEN queue'[i] ELSE <<>>
      <4>1. \A i \in Nat \ {0} : M[Batch(i)] = Here[Batch(i)]
        BY <1>8, TheSpots, SpotsApart
      <4> QED
        BY <1>1, <1>2, <1>5, <1>9, <4>1 DEF HereIs
    <3>4. \A u \in Threads : M[Hand(u)] = Unstored(u)' /\ M[Taken(u)] = out'[u]
      <4>1. \A u \in Threads : M[Hand(u)] = Unstored(u)'
        BY <1>1, <1>5, <2>2, <1>8, HereHands, SpotsApart
      <4>2. \A u \in Threads : M[Taken(u)] = out'[u]
        BY <1>1, <1>2, <1>5, <1>9, <1>8, HereHands, SpotsApart
      <4> QED
        BY <4>1, <4>2
    <3> QED
      BY <1>8, <3>2, <3>3, <3>4, HereNext
  <2>4. HandsInv'
    BY <1>1, <1>2, <1>9, <2>1, TheThreads DEF HandsInv
  <2> QED
    BY <1>2, <1>7, <1>9, <2>3, <2>4 DEF FlowInv
<1>10. CASE events' = <<>> /\ out' = [out EXCEPT ![t] = cached] /\ Goto(t, "insert")
              /\ UNCHANGED <<dropped, todo>>
  <2>1. pc'[t] = "insert" /\ \A u \in Threads : u # t => pc'[u] = pc[u]
    BY <1>1, <1>10, OneMoves
  <2>2. Unstored(t)' = Tail(todo[t]) /\ \A u \in Threads : u # t => Unstored(u)' = Unstored(u)
    BY <1>10, <2>1, OthersKeep DEF Unstored, InTask
  <2>3. out'[t] = cached /\ \A u \in Threads : u # t => out'[u] = out[u]
    BY <1>0, <1>1, <1>10
  <2> DEFINE N == [M EXCEPT ![Cache] = <<>>, ![b] = M[Cache]]
  <2>4. Flow(N, dropped, store, Len(sent))
    BY <1>4, <1>7, <1>8, Moves
  <2>5. N = Here'
    <3>1. /\ N = [h \in Spots |-> N[h]]
          /\ N[Cache] = <<>> /\ N[b] = cached /\ N[a] = Tail(todo[t])
          /\ \A h \in Spots : h # Cache /\ h # b /\ h # a => N[h] = Here[h]
      BY <1>4, <1>8
    <3> HIDE DEF N
    <3>2. N[Notify] = notifyEvents' /\ N[Cache] = events' /\ N[Crucial] = crucialQueue'
      BY <1>1, <1>2, <1>5, <1>10, <2>3, <3>1, TheSpots, SpotsApart DEF HereIs
    <3>3. \A i \in Nat \ {0} : N[Batch(i)] = IF i \in 1 .. Len(queue') THEN queue'[i] ELSE <<>>
      <4>1. \A i \in Nat \ {0} : N[Batch(i)] = Here[Batch(i)]
        BY <3>1, TheSpots, SpotsApart
      <4> QED
        BY <1>1, <1>2, <1>5, <1>10, <2>3, <4>1 DEF HereIs
    <3>4. \A u \in Threads : N[Hand(u)] = Unstored(u)' /\ N[Taken(u)] = out'[u]
      <4>1. \A u \in Threads : N[Hand(u)] = Unstored(u)'
        BY <1>1, <1>5, <2>2, <3>1, HereHands, SpotsApart
      <4>2. \A u \in Threads : N[Taken(u)] = out'[u]
        BY <1>1, <1>2, <1>5, <1>10, <2>3, <3>1, HereHands, SpotsApart
      <4> QED
        BY <4>1, <4>2
    <3> QED
      BY <3>1, <3>2, <3>3, <3>4, HereNext
  <2>6. HandsInv'
    BY <1>1, <1>2, <1>10, <2>1, <2>3, TheThreads DEF HandsInv
  <2> QED
    BY <1>2, <1>10, <2>4, <2>5, <2>6 DEF FlowInv
<1> QED
  BY <1>2, <1>6, <1>9, <1>10

(* The queues go, and what waits in them is given up.                      *)
LEMMA QueuesGoFlow ==
    ASSUME Inv, Inv', HandsInv, FlowInv, DeInitEventQueue
    PROVE  HandsInv' /\ FlowInv'
<1>1. HereIs /\ DOMAIN queue = 1 .. Len(queue) /\ Len(queue) \in Nat
  <2>1. queue \in Seq(Seq(Nat))
    BY DEF Inv, DataTyped
  <2> QED
    BY <2>1, HereTyped
<1> DEFINE waiting == UNION {ToSet(batch) : batch \in ToSet(queue)}
           gone == ToSet(crucialQueue) \union waiting
           A == {Crucial} \union {Batch(i) : i \in Nat \ {0}}
           M == [h \in Spots |-> IF h \in A THEN <<>> ELSE Here[h]]
<1>2. /\ queue' = <<>> /\ crucialQueue' = <<>> /\ dropped' = dropped \union gone
      /\ pc' = pc /\ todo' = todo /\ out' = out
      /\ UNCHANGED <<caches, store, sent>>
  BY DEF DeInitEventQueue, locals
<1>3. ASSUME NEW n PROVE n \in gone <=> \E h \in A : \E i \in DOMAIN Here[h] : Here[h][i] = n
  <2>1. n \in ToSet(crucialQueue) <=> \E i \in DOMAIN Here[Crucial] : Here[Crucial][i] = n
    BY <1>1 DEF HereIs, ToSet
  <2>2. ASSUME n \in waiting
        PROVE \E i \in Nat \ {0} : \E j \in DOMAIN Here[Batch(i)] : Here[Batch(i)][j] = n
    <3>1. PICK i \in DOMAIN queue : n \in ToSet(queue[i])
      BY <2>2 DEF ToSet
    <3>2. i \in Nat \ {0} /\ i \in 1 .. Len(queue)
      BY <1>1
    <3>3. Here[Batch(i)] = queue[i]
      BY <1>1, <3>2 DEF HereIs
    <3> QED
      BY <3>1, <3>2, <3>3 DEF ToSet
  <2>3. ASSUME NEW i \in Nat \ {0}, NEW j \in DOMAIN Here[Batch(i)], Here[Batch(i)][j] = n
        PROVE n \in waiting
    <3>1. i \in DOMAIN queue /\ Here[Batch(i)] = queue[i]
      <4>1. DOMAIN <<>> = {}
        BY Elements
      <4> QED
        BY <1>1, <4>1 DEF HereIs
    <3> QED
      BY <2>3, <3>1 DEF ToSet
  <2> QED
    BY <2>1, <2>2, <2>3
<1>4. Flow(M, dropped \union gone, store, Len(sent))
  <2>1. A \in SUBSET Spots
    BY TheSpots
  <2> HIDE DEF gone, A
  <2> QED
    BY <1>3, <2>1, Dropped DEF FlowInv
<1>5. M = Here'
  <2>1. /\ M = [h \in Spots |-> M[h]]
        /\ \A h \in Spots : M[h] = IF h \in A THEN <<>> ELSE Here[h]
    OBVIOUS
  <2>2. /\ Notify \notin A /\ Cache \notin A /\ Crucial \in A
        /\ \A i \in Nat \ {0} : Batch(i) \in A
        /\ \A t \in Threads : Hand(t) \notin A /\ Taken(t) \notin A
    BY SpotsApart
  <2>3. \A t \in Threads : Unstored(t)' = Unstored(t)
    BY <1>2 DEF Unstored, InTask
  <2> HIDE DEF M, A
  <2>4. M[Notify] = notifyEvents' /\ M[Cache] = events' /\ M[Crucial] = crucialQueue'
    BY <1>1, <1>2, <2>1, <2>2, TheSpots DEF HereIs, caches
  <2>5. ASSUME NEW i \in Nat \ {0}
        PROVE  M[Batch(i)] = IF i \in 1 .. Len(queue') THEN queue'[i] ELSE <<>>
    <3>1. M[Batch(i)] = <<>> /\ Len(queue') = 0
      BY <1>2, <2>1, <2>2, TheSpots
    <3> QED
      BY <3>1
  <2>6. \A t \in Threads : M[Hand(t)] = Unstored(t)' /\ M[Taken(t)] = out'[t]
    BY <1>1, <1>2, <2>1, <2>2, <2>3, TheSpots DEF HereIs
  <2> QED
    BY <2>1, <2>4, <2>5, <2>6, HereNext
<1>6. HandsInv'
  BY <1>2 DEF HandsInv
<1> QED
  BY <1>2, <1>4, <1>5, <1>6 DEF FlowInv

(* A step on which no event goes anywhere.                                 *)
LEMMA AsideFlow ==
    ASSUME Inv, Inv', HandsInv, FlowInv,
             UNCHANGED <<caches, queue, crucialQueue, locals, results, sent>>
    PROVE  HandsInv' /\ FlowInv'
<1>1. pc' = pc /\ todo' = todo /\ out' = out
  BY DEF locals
<1>2. \A t \in Threads : Unstored(t)' = Unstored(t)
  BY <1>1 DEF Unstored, InTask
<1>3. HandsInv'
  BY <1>1 DEF HandsInv
<1> QED
  BY <1>1, <1>2, <1>3, SameFlow

(* The flush begins when OnStart starts it.                                *)
FlushInv == service \in {"down", "queues"} => pc["cleaner"] = "off"

(* OnStart, OnStop, and the threads that fill the buckets.                 *)
LEMMA ServiceFlow ==
    ASSUME Inv, Inv', HandsInv, FlushInv, FlowInv,
           \/ Start \/ Stop \/ FillRequestBucket \/ FillBucket
           \/ \E k \in Forgettable : ForgetConfig(k)
           \/ UNCHANGED vars
    PROVE  HandsInv' /\ FlowInv'
<1>1. CASE InitEventQueue
  BY <1>1, AsideFlow DEF InitEventQueue
<1>2. CASE StartClearEventCache
  <2>1. "cleaner" \in Handlers /\ "cleaner" \in Threads /\ pc["cleaner"] \in OfHandlers
    BY TheThreads, TheirTypes
  <2>2. /\ Goto("cleaner", "idle") /\ todo' = todo /\ out' = out
        /\ UNCHANGED <<caches, queue, crucialQueue, results, sent>>
    BY <1>2 DEF StartClearEventCache, queues
  <2>3. pc["cleaner"] = "off" /\ pc'["cleaner"] = "idle"
    BY <1>2, <2>1, <2>2, OneMoves DEF StartClearEventCache, FlushInv
  <2>4. todo["cleaner"] = <<>>
    BY <2>1, <2>3 DEF HandsInv
  <2>5. Unstored("cleaner")' = Unstored("cleaner")
    BY <2>2, <2>3 DEF Unstored, InTask
  <2> QED
    BY <2>1, <2>2, <2>3, <2>4, <2>5, HandlerGoes
<1>3. CASE StopClearEventCache
  BY <1>3, AsideFlow DEF StopClearEventCache, queues
<1>4. CASE DeInitEventQueue
  BY <1>4, QueuesGoFlow
<1>5. CASE FillRequestBucket \/ FillBucket
  BY <1>5, AsideFlow DEF FillRequestBucket, FillBucket, queues, control
<1>6. CASE \E k \in Forgettable : ForgetConfig(k)
  BY <1>6, AsideFlow DEF ForgetConfig, queues
<1>7. CASE UNCHANGED vars
  BY <1>7, AsideFlow DEF vars, queues, control
<1> QED
  BY <1>1, <1>2, <1>3, <1>4, <1>5, <1>6, <1>7 DEF Start, Stop

(* The steps of a thread that reports, up to the upload of an event.       *)
LEMMA ProduceFlow ==
    ASSUME Inv, Inv', HandsInv, FlowInv, NEW p \in Producers, Produce(p)
    PROVE  HandsInv' /\ FlowInv'
<1>1. CASE TestTaskCount(p) /\ taskCount > MaxTasks
  BY <1>1, GivenUp DEF TestTaskCount, queues, control
<1>2. CASE TestTaskCount(p) /\ ~(taskCount > MaxTasks)
  <2>1. /\ pc[p] = "batch" /\ Goto(p, "submit")
        /\ UNCHANGED <<caches, queue, crucialQueue, out, results, sent, todo>>
    BY <1>2 DEF TestTaskCount, queues, control, results
  <2> QED
    BY <2>1, ProducerGoes DEF Busy, ProducerPlaces
<1>3. CASE SubmitBatch(p)
  BY <1>3, BatchFlow
<1>4. CASE CountTask(p)
  <2>1. /\ pc[p] = "count" /\ Goto(p, "idle")
        /\ UNCHANGED <<caches, queue, crucialQueue, out, results, sent, todo>>
    BY <1>4 DEF CountTask, control
  <2> QED
    BY <2>1, ProducerGoes DEF Busy, ProducerPlaces
<1>5. CASE CountCrucialTask(p)
  <2>1. /\ pc[p] = "urgent" /\ Goto(p, "submitUrgent")
        /\ UNCHANGED <<caches, queue, crucialQueue, out, results, sent, todo>>
    BY <1>5 DEF CountCrucialTask, control
  <2> QED
    BY <2>1, ProducerGoes DEF Busy, ProducerPlaces
<1>6. CASE SubmitCrucial(p)
  BY <1>6, CrucialFlow
<1> QED
  BY <1>1, <1>2, <1>3, <1>4, <1>5, <1>6 DEF Produce

(* An application that is reporting counts as an event to come.            *)
LEMMA ReportingCounted ==
    IsFiniteSet(Reporting) /\ Cardinality(Reporting) \in Nat /\ Reporting \subseteq Producers
<1>1. Reporting \subseteq Producers
  BY DEF Reporting
<1> QED
  BY <1>1, TheThreads, FS_Subset, FS_CardinalityType

(* The steps of a report, and an event that is handed in.                  *)
LEMMA ReportFlow ==
    ASSUME Inv, Inv', HandsInv, RoomInv, FlowInv, NEW p \in Producers,
           \/ ReportSecurityEvent(p) \/ Report(p)
           \/ \E k \in Kinds : OnNotify(p, k)
    PROVE  HandsInv' /\ FlowInv'
<1>1. Len(sent) \in Nat /\ MaxEvents \in Nat
  <2>1. sent \in Seq(Kinds)
    BY DEF Inv, DataTyped
  <2> QED
    BY <2>1, PipelineAssumption
<1>2. CASE \/ ReportSecurityEvent(p) \/ TakeRequestToken(p) \/ GiveBackToken(p)
           \/ RequestDataSubmit(p) /\ ~\E k \in Reported : Accepted(k) /\ UploadEvent(p, k)
  <2>1. PICK l \in {"request", "giveBack", "upload", "idle"} : Goto(p, l)
    BY <1>2 DEF ReportSecurityEvent, TakeRequestToken, GiveBackToken, RequestDataSubmit
  <2>2. pc[p] \in {"idle", "request", "giveBack", "upload"}
    BY <1>2 DEF ReportSecurityEvent, TakeRequestToken, GiveBackToken, RequestDataSubmit
  <2>3. UNCHANGED <<caches, queue, crucialQueue, out, results, sent, todo>>
    BY <1>2 DEF ReportSecurityEvent, TakeRequestToken, GiveBackToken, RequestDataSubmit, queues,
       control
  <2> QED
    BY <2>1, <2>2, <2>3, ProducerGoes DEF Busy, ProducerPlaces
<1>3. ASSUME RequestDataSubmit(p), NEW k \in Reported, UploadEvent(p, k)
      PROVE  HandsInv' /\ FlowInv'
  <2>1. k \in Kinds /\ pc[p] = "upload"
    BY <1>3, PipelineAssumption DEF RequestDataSubmit
  <2>2. Cardinality(Reporting) # 0
    <3>1. p \in Reporting
      BY <2>1 DEF Reporting
    <3> QED
      BY <3>1, ReportingCounted, FS_EmptySet
  <2>3. Len(sent) + 1 <= MaxEvents
    BY <1>1, <2>2, ReportingCounted DEF RoomInv
  <2> QED
    BY <1>3, <2>1, <2>3, UploadFlow
<1>4. ASSUME NEW k \in Kinds, OnNotify(p, k)
      PROVE  HandsInv' /\ FlowInv'
  <2>1. pc[p] = "idle" /\ Room /\ UploadEvent(p, k)
    BY <1>4 DEF OnNotify
  <2>2. Len(sent) + 1 <= MaxEvents
    BY <1>1, <2>1, ReportingCounted DEF Room
  <2> QED
    BY <2>1, <2>2, UploadFlow
<1> QED
  BY <1>2, <1>3, <1>4 DEF Report

(* The steps of a thread that handles events.                              *)
LEMMA HandleFlow ==
    ASSUME Inv, Inv', HandsInv, FlowInv, NEW t \in Handlers, Handle(t)
    PROVE  HandsInv' /\ FlowInv'
<1>1. t \in Threads /\ todo \in [Threads -> Seq(Nat)] /\ \A u \in Threads : u # t => u \in Threads
  BY TheThreads, TheirTypes
<1>2. CASE UploadEventTask(t)
  BY <1>2, TaskFlow
<1>3. CASE InsertEvent(t)
  <2>1. /\ pc[t] = "insert" /\ Goto(t, "publish")
        /\ store' = Inserted(out[t]) /\ out' = [out EXCEPT ![t] = <<>>]
        /\ UNCHANGED <<caches, queue, crucialQueue, dropped, sent, todo>>
    BY <1>3 DEF InsertEvent, queues, control
  <2> QED
    BY <2>1, StoredFlow
<1>4. CASE TaskDone(t)
  <2>1. PICK l \in {"idle", "off"} : Goto(t, l)
    BY <1>4 DEF TaskDone
  <2>2. /\ pc[t] = "task" /\ todo[t] = <<>> /\ todo' = todo
        /\ UNCHANGED <<caches, queue, crucialQueue, out, results, sent>>
    BY <1>4 DEF TaskDone, control
  <2>3. pc'[t] = l
    BY <1>1, <2>1, OneMoves
  <2>4. Unstored(t)' = Unstored(t)
    BY <2>2, <2>3 DEF Unstored, InTask
  <2> QED
    BY <2>1, <2>2, <2>4, HandlerGoes
<1>5. CASE SpendToken(t) \/ \E uids, heard \in BOOLEAN : TestBucket(t, uids, heard)
  <2>1. /\ pc[t] \in {"publish", "spend"}
        /\ UNCHANGED <<caches, queue, crucialQueue, out, results, sent>>
    BY <1>5 DEF SpendToken, TestBucket, queues, control
  <2>2. CASE Next1(t)
    <3>1. Goto(t, "task") /\ todo' = [todo EXCEPT ![t] = Tail(todo[t])]
      BY <2>2 DEF Next1
    <3>2. pc'[t] = "task" /\ todo'[t] = Tail(todo[t])
            /\ \A u \in Threads : u # t => todo'[u] = todo[u]
      BY <1>1, <3>1, OneMoves
    <3>3. Unstored(t)' = Unstored(t)
      BY <2>1, <3>2 DEF Unstored, InTask
    <3> QED
      BY <2>1, <3>1, <3>2, <3>3, HandlerGoes
  <2>3. CASE Goto(t, "spend") /\ UNCHANGED todo
    <3>1. pc'[t] = "spend"
      BY <1>1, <2>3, OneMoves
    <3>2. Unstored(t)' = Unstored(t)
      BY <2>1, <2>3, <3>1 DEF Unstored, InTask
    <3> QED
      BY <2>1, <2>3, <3>2, HandlerGoes
  <2> QED
    BY <1>5, <2>2, <2>3 DEF SpendToken, TestBucket
<1> QED
  BY <1>2, <1>3, <1>4, <1>5 DEF Handle

(* The flush, and the tasks that the queues start.                         *)
LEMMA FlushFlow ==
    ASSUME Inv, Inv', HandsInv, FlowInv, Take \/ Flush
    PROVE  HandsInv' /\ FlowInv'
<1>1. CASE InsertFlushed
  <2>1. /\ pc["cleaner"] = "flush"
        /\ Goto("cleaner", "swap") /\ store' = Inserted(out["cleaner"])
        /\ out' = [out EXCEPT !["cleaner"] = <<>>]
        /\ UNCHANGED <<caches, queue, crucialQueue, dropped, sent, todo>>
    BY <1>1 DEF InsertFlushed, queues, control
  <2> QED
    BY <2>1, TheThreads, StoredFlow
<1> QED
  BY <1>1, TakeBatchFlow, TakeCrucialFlow, SwapEventsFlow, SwapNotifyFlow DEF Take, Flush

(* Wherever a step takes the events, none is lost on the way.              *)
LEMMA NextFlow ==
    ASSUME Inv, Inv', HandsInv, FlushInv, RoomInv, FlowInv, [Next]_vars
    PROVE  HandsInv' /\ FlowInv'
<1>1. CASE \/ Start \/ Stop \/ FillRequestBucket \/ (FillBucket /\ UNCHANGED reports)
           \/ (\E k \in Forgettable : ForgetConfig(k) /\ UNCHANGED reports)
           \/ UNCHANGED vars
  BY <1>1, ServiceFlow
<1>2. CASE Take \/ Flush
  BY <1>2, FlushFlow
<1>3. CASE \E p \in Producers : Produce(p)
  BY <1>3, ProduceFlow
<1>4. CASE \/ \E p \in Producers : ReportSecurityEvent(p) \/ Report(p)
           \/ \E p \in Producers, k \in Kinds : OnNotify(p, k)
  BY <1>4, ReportFlow
<1>5. CASE \E t \in Handlers : Handle(t)
  BY <1>5, HandleFlow
<1> QED
  BY <1>1, <1>2, <1>3, <1>4, <1>5 DEF Next

(* The flush is off until OnStart starts it.                               *)
LEMMA NextFlush == Inv /\ FlushInv /\ [Next]_vars => FlushInv'
<1> SUFFICES ASSUME Inv, FlushInv, [Next]_vars PROVE FlushInv'
  OBVIOUS
<1>1. CASE service' = service /\ pc'["cleaner"] = pc["cleaner"]
  BY <1>1 DEF FlushInv
<1>2. CASE service' = service /\ pc["cleaner"] # "off"
  BY <1>2 DEF FlushInv
<1>3. \A t \in Threads : t # "cleaner" => \A l : Goto(t, l) => pc'["cleaner"] = pc["cleaner"]
  BY TheThreads, OneMoves
<1>4. \A p \in Producers : p \in Threads /\ p # "cleaner"
  BY TheThreads
<1>5. CASE Start \/ Stop
  <2>1. CASE InitEventQueue
    BY <2>1 DEF InitEventQueue, FlushInv, locals
  <2>2. CASE StartClearEventCache \/ StopClearEventCache \/ DeInitEventQueue
    BY <2>2 DEF StartClearEventCache, StopClearEventCache, DeInitEventQueue, FlushInv
  <2> QED
    BY <1>5, <2>1, <2>2 DEF Start, Stop
<1>6. CASE \/ FillRequestBucket \/ FillBucket \/ UNCHANGED vars
           \/ \E k \in Forgettable : ForgetConfig(k)
  BY <1>1, <1>6 DEF FillRequestBucket, FillBucket, ForgetConfig, vars, control, locals
<1>7. CASE Take
  <2>1. "queue" # "cleaner" /\ "crucial" # "cleaner"
    OBVIOUS
  <2>2. pc'["cleaner"] = pc["cleaner"]
    BY <1>3, <1>7, <2>1, TheThreads DEF Take, TakeBatch, TakeCrucial
  <2> QED
    BY <1>1, <1>7, <2>2 DEF Take, TakeBatch, TakeCrucial, control
<1>8. CASE Flush
  BY <1>2, <1>8 DEF Flush, SwapEvents, InsertFlushed, SwapNotifyEvents, control
<1>9. ASSUME NEW p \in Producers,
             \/ Produce(p) \/ ReportSecurityEvent(p) \/ Report(p)
             \/ \E k \in Kinds : OnNotify(p, k)
      PROVE  FlushInv'
  <2>1. ASSUME NEW k, UploadEvent(p, k) PROVE (\E l : Goto(p, l)) /\ service' = service
    BY <2>1 DEF UploadEvent, UploadBatched, UploadUrgent
  <2>2. (\E l : Goto(p, l)) /\ service' = service
    <3>1. CASE Produce(p)
      BY <3>1 DEF Produce, TestTaskCount, SubmitBatch, CountTask, CountCrucialTask, SubmitCrucial,
         control
    <3>2. CASE ReportSecurityEvent(p) \/ TakeRequestToken(p) \/ GiveBackToken(p)
      BY <3>2 DEF ReportSecurityEvent, TakeRequestToken, GiveBackToken, control
    <3>3. CASE RequestDataSubmit(p)
      BY <2>1, <3>3 DEF RequestDataSubmit, control
    <3>4. CASE \E k \in Kinds : OnNotify(p, k)
      BY <2>1, <3>4 DEF OnNotify
    <3> QED
      BY <1>9, <3>1, <3>2, <3>3, <3>4 DEF Report
  <2> QED
    BY <1>1, <1>3, <1>4, <2>2
<1>10. ASSUME NEW t \in Handlers, Handle(t)
       PROVE  FlushInv'
  <2>1. pc[t] # "off" /\ service' = service /\ ((\E l : Goto(t, l)) \/ pc' = pc)
    <3>1. CASE UploadEventTask(t)
      BY <3>1 DEF UploadEventTask, control
    <3>2. CASE InsertEvent(t) \/ TaskDone(t)
      BY <3>2 DEF InsertEvent, TaskDone, control
    <3>3. CASE SpendToken(t) \/ \E uids, heard \in BOOLEAN : TestBucket(t, uids, heard)
      BY <3>3 DEF SpendToken, TestBucket, Next1, control
    <3> QED
      BY <1>10, <3>1, <3>2, <3>3 DEF Handle
  <2> QED
    BY <1>1, <1>2, <1>3, <2>1, TheThreads
<1> QED
  BY <1>5, <1>6, <1>7, <1>8, <1>9, <1>10 DEF Next

(* The steps on which no report begins and no event arrives.               *)
LEMMA RoomKept ==
    ASSUME RoomInv, sent' = sent,
           \A p \in Producers : pc'[p] \in {"request", "giveBack", "upload"} => p \in Reporting,
           Len(sent) \in Nat
    PROVE  RoomInv'
<1>1. Reporting' \subseteq Reporting
  BY DEF Reporting
<1>2. Cardinality(Reporting') <= Cardinality(Reporting) /\ Cardinality(Reporting') \in Nat
  BY <1>1, ReportingCounted, FS_Subset, FS_CardinalityType
<1> QED
  BY <1>2, ReportingCounted, PipelineAssumption DEF RoomInv

(* The step of a thread that handles events, or of none.                   *)
LEMMA RoomAside ==
    ASSUME Inv, RoomInv, sent' = sent, pc' = pc \/ \E t \in Handlers : \E l : Goto(t, l)
    PROVE  RoomInv'
<1>1. \A p \in Producers : pc'[p] = pc[p]
  BY TheThreads, OneMoves
<1>2. Len(sent) \in Nat
  BY DEF Inv, DataTyped
<1> QED
  BY <1>1, <1>2, RoomKept DEF Reporting

(* Every report that is begun has its room, and gives it to its event.     *)
LEMMA ReportRoom ==
    ASSUME Inv, RoomInv, NEW p \in Producers,
           \/ Produce(p) \/ ReportSecurityEvent(p) \/ Report(p)
           \/ \E k \in Kinds : OnNotify(p, k)
    PROVE  RoomInv'
<1>1. p \in Threads /\ \A q \in Producers : q \in Threads
  BY TheThreads
<1>2. sent \in Seq(Kinds) /\ Len(sent) \in Nat /\ MaxEvents \in Nat
  BY PipelineAssumption DEF Inv, DataTyped
<1>3. ASSUME sent' = sent, NEW l, Goto(p, l), l \in {"request", "giveBack", "upload"}
               => p \in Reporting
      PROVE  RoomInv'
  <2>1. pc'[p] = l /\ \A q \in Producers : q # p => pc'[q] = pc[q]
    BY <1>1, <1>3, OneMoves
  <2> QED
    BY <1>2, <1>3, <2>1, RoomKept DEF Reporting
<1>4. CASE Produce(p)
  <2>1. sent' = sent /\ \E l \in {"idle", "submit", "count", "submitUrgent"} : Goto(p, l)
    BY <1>4 DEF Produce, TestTaskCount, SubmitBatch, CountTask, CountCrucialTask, SubmitCrucial,
       control
  <2> QED
    BY <1>3, <2>1
<1>5. CASE ReportSecurityEvent(p)
  <2>1. sent' = sent /\ Goto(p, "request") /\ Room
    BY <1>5 DEF ReportSecurityEvent, control
  <2>2. pc'[p] = "request" /\ \A q \in Producers : q # p => pc'[q] = pc[q]
    BY <1>1, <2>1, OneMoves
  <2>3. Reporting' = Reporting \cup {p} /\ p \notin Reporting
    BY <1>5, <2>2 DEF ReportSecurityEvent, Reporting
  <2>4. Cardinality(Reporting') = Cardinality(Reporting) + 1
    BY <2>3, ReportingCounted, FS_AddElement
  <2> QED
    BY <1>2, <2>1, <2>4, ReportingCounted DEF Room, RoomInv
<1>6. CASE TakeRequestToken(p) \/ GiveBackToken(p)
  <2>1. sent' = sent /\ p \in Reporting /\ \E l : Goto(p, l)
    BY <1>6 DEF TakeRequestToken, GiveBackToken, Reporting, control
  <2> QED
    BY <1>3, <2>1
<1>7. ASSUME NEW k \in Kinds, UploadEvent(p, k)
      PROVE  /\ Len(sent') = Len(sent) + 1
             /\ pc'[p] \notin {"request", "giveBack", "upload"}
             /\ \A q \in Producers : q # p => pc'[q] = pc[q]
  <2>1. sent' = Append(sent, k) /\ \E l \in {"idle", "batch", "urgent"} : Goto(p, l)
    BY <1>7 DEF UploadEvent, UploadBatched, UploadUrgent
  <2>2. Len(sent') = Len(sent) + 1
    BY <1>2, <2>1
  <2> QED
    BY <1>1, <2>1, <2>2, OneMoves
<1>8. ASSUME RequestDataSubmit(p), NEW k \in Reported, UploadEvent(p, k)
      PROVE  RoomInv'
  <2>1. k \in Kinds /\ p \in Reporting
    BY <1>8, PipelineAssumption DEF RequestDataSubmit, Reporting
  <2>2. Reporting' = Reporting \ {p}
    BY <1>7, <1>8, <2>1 DEF Reporting
  <2>3. Cardinality(Reporting') = Cardinality(Reporting) - 1
    BY <2>1, <2>2, ReportingCounted, FS_RemoveElement
  <2> QED
    BY <1>2, <1>7, <1>8, <2>1, <2>3, ReportingCounted DEF RoomInv
<1>9. CASE RequestDataSubmit(p) /\ ~\E k \in Reported : UploadEvent(p, k)
  <2>1. sent' = sent /\ Goto(p, "idle")
    BY <1>9 DEF RequestDataSubmit, control
  <2> QED
    BY <1>3, <2>1
<1>10. ASSUME NEW k \in Kinds, OnNotify(p, k)
       PROVE  RoomInv'
  <2>1. p \notin Reporting /\ Room /\ UploadEvent(p, k)
    BY <1>10 DEF OnNotify, Reporting
  <2>2. Reporting' = Reporting
    BY <1>7, <2>1 DEF Reporting
  <2> QED
    BY <1>2, <1>7, <2>1, <2>2, ReportingCounted DEF Room, RoomInv
<1> QED
  BY <1>4, <1>5, <1>6, <1>8, <1>9, <1>10 DEF Report

(* No step takes the room of a report.                                    *)
LEMMA NextRoom == Inv /\ RoomInv /\ [Next]_vars => RoomInv'
<1> SUFFICES ASSUME Inv, RoomInv, [Next]_vars PROVE RoomInv'
  OBVIOUS
<1>1. CASE Start \/ Stop
  BY <1>1, TheThreads, RoomAside
     DEF Start, Stop, InitEventQueue, StartClearEventCache, StopClearEventCache, DeInitEventQueue,
        locals
<1>2. CASE \/ FillRequestBucket \/ FillBucket \/ UNCHANGED vars
           \/ \E k \in Forgettable : ForgetConfig(k)
  BY <1>2, RoomAside DEF FillRequestBucket, FillBucket, ForgetConfig, vars, control, locals
<1>3. CASE Take \/ Flush
  BY <1>3, TheThreads, RoomAside
     DEF Take, Flush, TakeBatch, TakeCrucial, SwapEvents, InsertFlushed, SwapNotifyEvents, control
<1>4. CASE \/ \E p \in Producers : Produce(p) \/ ReportSecurityEvent(p) \/ Report(p)
           \/ \E p \in Producers, k \in Kinds : OnNotify(p, k)
  BY <1>4, ReportRoom
<1>5. ASSUME NEW t \in Handlers, Handle(t)
      PROVE  RoomInv'
  <2>1. sent' = sent /\ ((\E l : Goto(t, l)) \/ pc' = pc)
    <3>1. CASE UploadEventTask(t)
      BY <3>1 DEF UploadEventTask, control
    <3>2. CASE InsertEvent(t) \/ TaskDone(t)
      BY <3>2 DEF InsertEvent, TaskDone, control
    <3>3. CASE SpendToken(t) \/ \E uids, heard \in BOOLEAN : TestBucket(t, uids, heard)
      BY <3>3 DEF SpendToken, TestBucket, Next1, control
    <3> QED
      BY <1>5, <3>1, <3>2, <3>3 DEF Handle
  <2> QED
    BY <2>1, RoomAside
<1> QED
  BY <1>1, <1>2, <1>3, <1>4, <1>5 DEF Next

(* At the start there are no events.                                       *)
LEMMA InitFlow == Init => HandsInv /\ FlushInv /\ RoomInv /\ FlowInv
<1> SUFFICES ASSUME Init PROVE HandsInv /\ FlushInv /\ RoomInv /\ FlowInv
  OBVIOUS
<1>1. /\ \A t \in Threads : pc[t] \in {"idle", "off"} /\ todo[t] = <<>> /\ out[t] = <<>>
      /\ \A p \in Producers : p \in Threads /\ pc[p] = "idle"
      /\ pc["cleaner"] = "off" /\ Handlers \subseteq Threads
  BY TheThreads DEF Init
<1>2. HandsInv /\ FlushInv
  BY <1>1 DEF HandsInv, FlushInv, ProducerPlaces
<1>3. RoomInv
  <2>1. Reporting = {}
    BY <1>1 DEF Reporting
  <2>2. Len(sent) = 0 /\ Cardinality(Reporting) = 0
    BY <2>1, FS_EmptySet DEF Init
  <2> QED
    BY <2>2, PipelineAssumption DEF RoomInv
<1>4. HereIs
  BY InitInv, HereTyped
<1>5. \A h \in Spots : Here[h] = <<>>
  <2>1. notifyEvents = <<>> /\ events = <<>> /\ crucialQueue = <<>> /\ Len(queue) = 0
    BY DEF Init
  <2>2. \A i \in Nat \ {0} : i \notin 1 .. Len(queue)
    BY <2>1
  <2>3. \A t \in Threads : Unstored(t) = <<>>
    BY <1>1 DEF Unstored, InTask
  <2>4. Here[Notify] = <<>> /\ Here[Cache] = <<>> /\ Here[Crucial] = <<>>
    BY <1>4, <2>1 DEF HereIs
  <2>5. \A i \in Nat \ {0} : Here[Batch(i)] = <<>>
    BY <1>4, <2>2 DEF HereIs
  <2>6. \A t \in Threads : Here[Hand(t)] = <<>> /\ Here[Taken(t)] = <<>>
    BY <1>1, <1>4, <2>3 DEF HereIs
  <2> QED
    BY <2>4, <2>5, <2>6, TheSpots
<1>6. FlowInv
  <2>1. \A h \in Spots : DOMAIN Here[h] = {}
    BY <1>5, Elements
  <2>2. Apart(Here) /\ \A n : ~On(Here, n)
    BY <2>1 DEF Apart, On
  <2>3. Here \in [Spots -> Seq(Nat)]
    BY <1>4 DEF HereIs
  <2>4. Len(sent) = 0 /\ dropped = {} /\ store = [n \in 1 .. MaxEvents |-> 0]
    BY DEF Init
  <2>5. 0 \in 0 .. MaxEvents /\ 1 .. 0 = {}
    BY PipelineAssumption
  <2>6. Flow(Here, {}, [n \in 1 .. MaxEvents |-> 0], 0)
    BY <2>2, <2>3, <2>5 DEF Flow
  <2> QED
    BY <2>4, <2>6 DEF FlowInv
<1> QED
  BY <1>2, <1>3, <1>6

(* What the flow says is what NothingLost asks.                            *)
LEMMA FlowIsNothingLost == Inv /\ FlowInv => NothingLost
<1> SUFFICES ASSUME Inv, FlowInv PROVE NothingLost
  OBVIOUS
<1> DEFINE list == InFlight
           places == UNION {{h} \X DOMAIN list[h] : h \in Holders}
           event(at) == list[at[1]][at[2]]
           onTheWay == {event(at) : at \in places}
<1>1. Holders \subseteq Spots /\ \A h \in Holders : list[h] = Here[h]
  <2>1. DOMAIN queue \subseteq Nat \ {0}
    <3>1. queue \in Seq(Seq(Nat))
      BY DEF Inv, DataTyped
    <3>2. DOMAIN queue = 1 .. Len(queue) /\ Len(queue) \in Nat
      BY <3>1
    <3> QED
      BY <3>2
  <2>2. Holders \subseteq Spots
    BY <2>1 DEF Holders, Spots
  <2>3. \A h \in Holders : h[1] = "queue" => h[2] \in DOMAIN queue
    BY DEF Holders
  <2>4. \A h \in Holders :
           h[1] \in {"notifyEvents", "events", "crucialQueue", "queue", "todo", "out"}
    BY DEF Holders
  <2>5. \A h \in Holders : list[h] = Listed(h)
    BY <2>3, <2>4 DEF InFlight, Listed
  <2> QED
    BY <2>2, <2>5 DEF Here
<1>2. \A h \in Spots : h \in Holders \/ DOMAIN Here[h] = {}
  <2>1. ASSUME NEW h \in Spots, h \notin Holders PROVE DOMAIN Here[h] = {}
    <3>1. h[1] = "queue" /\ h[2] \notin DOMAIN queue
      BY <2>1 DEF Spots, Holders
    <3>2. Here[h] = <<>>
      BY <3>1 DEF Here, Listed
    <3> QED
      BY <3>2, Elements
  <2> QED
    BY <2>1
<1>3. \A at \in places : /\ at = <<at[1], at[2]>> /\ at[1] \in Spots /\ at[2] \in DOMAIN Here[at[1]]
                         /\ event(at) = Here[at[1]][at[2]]
  BY <1>1
<1>4. ASSUME NEW h \in Spots, NEW i \in DOMAIN Here[h]
      PROVE  <<h, i>> \in places /\ event(<<h, i>>) = Here[h][i]
  BY <1>1, <1>2
<1> HIDE DEF list, places
<1>5. ASSUME NEW n PROVE n \in onTheWay <=> On(Here, n)
  <2>1. ASSUME n \in onTheWay PROVE On(Here, n)
    <3>1. PICK at \in places : event(at) = n
      BY <2>1
    <3> QED
      BY <1>3, <3>1 DEF On
  <2>2. ASSUME On(Here, n) PROVE n \in onTheWay
    <3>1. PICK h \in Spots : \E i \in DOMAIN Here[h] : Here[h][i] = n
      BY <2>2 DEF On
    <3>2. PICK i \in DOMAIN Here[h] : Here[h][i] = n
      BY <3>1
    <3>3. <<h, i>> \in places /\ event(<<h, i>>) = n
      BY <1>4, <3>2
    <3> HIDE DEF event
    <3> QED
      BY <3>3
  <2> QED
    BY <2>1, <2>2
<1>6. \A here, there \in places : event(here) = event(there) => here = there
  <2> SUFFICES ASSUME NEW here \in places, NEW there \in places, event(here) = event(there)
               PROVE  here = there
    OBVIOUS
  <2>1. Apart(Here)
    BY DEF FlowInv, Flow
  <2>2. here[1] = there[1] /\ here[2] = there[2]
    BY <1>3, <2>1 DEF Apart
  <2> QED
    BY <1>3, <2>2
<1> HIDE DEF onTheWay
<1>7. \A n \in 1 .. MaxEvents :
         IF n \in onTheWay \union dropped THEN store[n] = 0
                                          ELSE store[n] = IF n \in Numbers THEN 1 ELSE 0
  BY <1>5 DEF FlowInv, Flow, Numbers
<1>8. onTheWay \intersect dropped = {}
  BY <1>5 DEF FlowInv, Flow
<1> QED
  BY <1>6, <1>7, <1>8 DEF NothingLost, list, places, onTheWay

-------------------------------------------------------------------------------
(* The counters that the limits test are exact while the queues exist, but *)
(* for the batches not yet counted: g_taskCount may wrap for a moment, and *)
(* g_crucialTaskCount never does, however many threads report at once.     *)
THEOREM CountersAreExact == Spec => []CountersExact
<1>1. Inv => CountersExact
  BY DEF Inv, CountersInv, CountersExact
<1> QED
  BY InitInv, NextInv, <1>1, PTL DEF Spec

(* Each bucket goes below zero by no more than the threads that test it    *)
(* and spend from it later, and no more reports pass than tokens were put  *)
(* into the bucket of the service.                                         *)
THEOREM BucketsHoldTheFloor == Spec => []BucketFloor
<1>1. Inv => BucketFloor
  <2> SUFFICES ASSUME Inv PROVE BucketFloor
    OBVIOUS
  <2>1. At("giveBack") \in Nat /\ At("upload") \in Nat /\ Cardinality(Spending) \in Nat
    <3>1. Spending \in SUBSET Handlers
      BY DEF Spending
    <3> QED
      BY <3>1, TheThreads, FS_Subset, FS_CardinalityType, AtNat
  <2>2. tokenBucket \in Int /\ requestBucket \in Int /\ unspent \in Int
    BY DEF Inv, DataTyped
  <2>3. tokenBucket >= 1 - Cardinality(Handlers)
    BY <2>1, <2>2, TheThreads DEF Inv, BucketsInv
  <2>4. requestBucket >= -At("giveBack") /\ At("upload") <= unspent
    BY <2>1, <2>2 DEF Inv, BucketsInv
  <2> QED
    BY <2>3, <2>4 DEF BucketFloor, At
<1> QED
  BY InitInv, NextInv, <1>1, PTL DEF Spec

(* No event is lost in a swap of the caches or between the queues, none is *)
(* inserted twice, and none is both given up and inserted, however the     *)
(* threads that report, the two queues and the flush overlap: an event     *)
(* accepted is in one place on its way, or was given up, or is in the      *)
(* store once.                                                             *)
THEOREM NoEventLost == Spec => []NothingLost
<1> DEFINE All == Inv /\ HandsInv /\ FlushInv /\ RoomInv /\ FlowInv
<1>1. Init => All
  BY InitInv, InitFlow
<1>2. All /\ [Next]_vars => All'
  BY NextInv, NextFlow, NextFlush, NextRoom
<1>3. All => NothingLost
  BY FlowIsNothingLost
<1> HIDE DEF All
<1> QED
  BY <1>1, <1>2, <1>3, PTL DEF Spec

===============================================================================
