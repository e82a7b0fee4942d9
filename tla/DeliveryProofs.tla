--------------------------- MODULE DeliveryProofs ---------------------------
(***************************************************************************)
(* Proofs about Delivery, for queues of any capacity and any number of       *)
(* changes and losses.                                                     *)
(***************************************************************************)
EXTENDS Delivery, TLAPS

USE ConfigAssumption DEF Connections, Closed

(* A task that is delivering has a connection, and deliver is at work only   *)
(* while it is.                                                            *)
TasksConnected ==
  /\ \A c \in Connections : hand[c] # 0 => line[c] # Closed
  /\ step # "idle" => hand["shared"] # 0

(* Between the flag and the health, the flag is up or a repair has begun.  *)
FlaggedIsPending ==
  step = "flagged" /\ ~isolated => lagging \/ resync \/ consumer = "asking"

LagInv == TypeOK /\ TasksConnected /\ FlaggedIsPending /\ ShownLagIsFlagged

LEMMA InitLag == Init => LagInv
  <1> SUFFICES ASSUME Init PROVE LagInv
    OBVIOUS
  <1>1. queue \in Seq(Nat \ {0}) /\ Len(queue) = 0
    BY DEF Init
  <1>2. TypeOK
    <2>1. line \in [Connections -> Nat \cup {Closed}] /\ hand \in [Connections -> Nat]
      BY DEF Init
    <2>2. kind \in Kind
      BY DEF Init
    <2>3. /\ lagging \in BOOLEAN /\ isolated \in BOOLEAN
          /\ resync \in BOOLEAN /\ shownLag \in BOOLEAN
      BY DEF Init
    <2>4. /\ produced \in Nat /\ losses \in Nat /\ cursor \in Nat /\ held \in Nat
          /\ received \subseteq Nat /\ dropped \subseteq Nat
          /\ step = "idle" /\ consumer = "idle" /\ Len(queue) <= Capacity
      BY <1>1 DEF Init
    <2> QED
      BY <1>1, <2>1, <2>2, <2>3, <2>4 DEF TypeOK
  <1>3. TasksConnected /\ FlaggedIsPending /\ ShownLagIsFlagged
    BY DEF Init, TasksConnected, FlaggedIsPending, ShownLagIsFlagged
  <1> QED
    BY <1>2, <1>3 DEF LagInv

LEMMA StartTypes == ASSUME TypeOK PROVE Start \in Nat
  BY DEF TypeOK, Start, Kind

LEMMA TypeStep == TypeOK /\ [Next]_vars => TypeOK'
  <1> SUFFICES ASSUME TypeOK, [Next]_vars PROVE TypeOK'
    OBVIOUS
  <1> USE DEF TypeOK, server, tasks, entry, stream
  <1>1. CASE Produce
    BY <1>1 DEF Produce
  <1>2. ASSUME NEW c \in Connections, Connect(c) PROVE TypeOK'
    BY <1>2, StartTypes DEF Connect
  <1>3. ASSUME NEW c \in Connections, Arrive(c) PROVE TypeOK'
    BY <1>3 DEF Arrive
  <1>4. ASSUME NEW c \in Connections, Enqueue(c) PROVE TypeOK'
    BY <1>4 DEF Enqueue, Delivering
  <1>5. ASSUME NEW c \in Connections, Drop(c) PROVE TypeOK'
    BY <1>5 DEF Drop
  <1>6. ASSUME NEW c \in Connections, Rebuild(c) PROVE TypeOK'
    BY <1>6 DEF Rebuild
  <1>7. CASE Flag
    BY <1>7 DEF Flag
  <1>8. CASE ShowLag
    BY <1>8 DEF ShowLag
  <1>9. ASSUME NEW c \in Connections, Malformed(c) PROVE TypeOK'
    BY <1>9 DEF Malformed
  <1>10. ASSUME NEW c \in Connections, ConnectionLost(c) PROVE TypeOK'
    BY <1>10 DEF ConnectionLost
  <1>11. CASE Take
    <2>1. /\ Head(queue) \in Nat \ {0} /\ Tail(queue) \in Seq(Nat \ {0})
          /\ Len(Tail(queue)) = Len(queue) - 1
      BY <1>11 DEF Take
    <2>2. queue' \in Seq(Nat \ {0}) /\ Len(queue') <= Capacity
      BY <1>11, <2>1 DEF Take
    <2>3. held' \in Nat /\ received' \subseteq Nat
      BY <1>11, <2>1 DEF Take
    <2> QED
      BY <1>11, <2>2, <2>3 DEF Take
  <1>12. CASE ResumeAfter
    BY <1>12 DEF ResumeAfter
  <1>13. CASE IsEmpty
    BY <1>13 DEF IsEmpty
  <1>14. CASE SwapLagging
    BY <1>14 DEF SwapLagging
  <1>15. CASE RequestResync
    BY <1>15 DEF RequestResync
  <1>16. CASE Isolate
    BY <1>16 DEF Isolate
  <1>17. CASE UNCHANGED vars
    BY <1>17 DEF vars
  <1> QED
    BY <1>1, <1>2, <1>3, <1>4, <1>5, <1>6, <1>7, <1>8, <1>9, <1>10, <1>11, <1>12,
       <1>13, <1>14, <1>15, <1>16, <1>17 DEF Next, TaskStep, NoteLag, PollNext

LEMMA LagStep == LagInv /\ [Next]_vars => LagInv'
  <1> SUFFICES ASSUME LagInv, [Next]_vars PROVE LagInv'
    OBVIOUS
  <1>0. TypeOK /\ TypeOK'
    BY TypeStep DEF LagInv
  <1> SUFFICES TasksConnected' /\ FlaggedIsPending' /\ ShownLagIsFlagged'
    BY <1>0 DEF LagInv
  <1> TasksConnected /\ FlaggedIsPending /\ ShownLagIsFlagged
    BY DEF LagInv
  <1> USE <1>0 DEF TasksConnected, FlaggedIsPending, ShownLagIsFlagged, server, tasks,
                   entry, stream
  <1> DEFINE Goal == TasksConnected' /\ FlaggedIsPending' /\ ShownLagIsFlagged'
  <1>1. CASE Produce
    BY <1>1 DEF Produce
  <1>2. ASSUME NEW c \in Connections, Connect(c) PROVE Goal
    <2>1. Start # Closed
      BY StartTypes
    <2>2. TasksConnected'
      BY <1>2, <2>1 DEF Connect, TypeOK
    <2>3. c = "shared" => step # "flagged"
      BY <1>2 DEF Connect
    <2> QED
      BY <1>2, <2>2, <2>3 DEF Connect, Carries
  <1>3. ASSUME NEW c \in Connections, Arrive(c) PROVE Goal
    BY <1>3 DEF Arrive, TypeOK
  <1>4. ASSUME NEW c \in Connections, Enqueue(c) PROVE Goal
    BY <1>4 DEF Enqueue, Delivering, TypeOK
  <1>5. ASSUME NEW c \in Connections, Drop(c) PROVE Goal
    BY <1>5 DEF Drop, Delivering, Waits
  <1>6. ASSUME NEW c \in Connections, Rebuild(c) PROVE Goal
    BY <1>6 DEF Rebuild, TypeOK
  <1>7. CASE Flag
    BY <1>7 DEF Flag, TypeOK
  <1>8. CASE ShowLag
    BY <1>8 DEF ShowLag, TypeOK
  <1>9. ASSUME NEW c \in Connections, Malformed(c) PROVE Goal
    BY <1>9 DEF Malformed, Delivering, TypeOK
  <1>10. ASSUME NEW c \in Connections, ConnectionLost(c) PROVE Goal
    BY <1>10 DEF ConnectionLost, TypeOK
  <1>11. CASE Take
    BY <1>11 DEF Take
  <1>12. CASE ResumeAfter
    BY <1>12 DEF ResumeAfter
  <1>13. CASE IsEmpty
    BY <1>13 DEF IsEmpty
  <1>14. CASE SwapLagging
    BY <1>14 DEF SwapLagging
  <1>15. CASE RequestResync
    BY <1>15 DEF RequestResync
  <1>16. CASE Isolate
    BY <1>16 DEF Isolate
  <1>17. CASE UNCHANGED vars
    BY <1>17 DEF vars
  <1> QED
    BY <1>1, <1>2, <1>3, <1>4, <1>5, <1>6, <1>7, <1>8, <1>9, <1>10, <1>11, <1>12,
       <1>13, <1>14, <1>15, <1>16, <1>17 DEF Next, TaskStep, NoteLag, PollNext

(* The queue never holds more than its capacity, for any capacity.         *)
THEOREM TypeCorrect == Spec => []TypeOK
  <1>1. Init => TypeOK
    BY InitLag DEF LagInv
  <1> QED
    BY <1>1, TypeStep, PTL DEF Spec

(* While the health shows a gap, its flag is up or a repair has begun, in    *)
(* every interleaving of deliver's three steps with the consumer's.        *)
THEOREM LagIsFlagged == Spec => []ShownLagIsFlagged
  <1>1. LagInv => ShownLagIsFlagged
    BY DEF LagInv
  <1> QED
    BY <1>1, InitLag, LagStep, PTL DEF Spec
-----------------------------------------------------------------------------
(***************************************************************************)
(* Where a change can be that comes before one the consumer got.           *)
(***************************************************************************)

Accounted == received \cup dropped
InQueue(e, n) == \E m \in 1 .. n : queue[m] = e
Known(e) == e \in Accounted \/ InQueue(e, Len(queue))

(* Nothing is missing before what the consumer got, what its cursor covers   *)
(* and what it is about to resume after.                                   *)
ConsumerInOrder ==
  /\ \A e \in received : 1 .. e \subseteq Accounted
  /\ 1 .. cursor \subseteq Accounted
  /\ consumer = "taken" => held \in received

(* Nothing is missing before an entry of the queue but what is ahead of it. *)
QueueInOrder ==
  \A j \in 1 .. Len(queue) : \A k \in 1 .. (queue[j] - 1) :
    k \in Accounted \/ InQueue(k, j - 1)

(* Nor before what a task is delivering, or has taken from the server while   *)
(* the slot was its own.                                                   *)
HandsInOrder ==
  \A c \in Connections : hand[c] # 0 => \A k \in 1 .. (hand[c] - 1) : Known(k)

LinesInOrder ==
  \A c \in Connections :
    line[c] # Closed /\ (Carries(c) \/ hand[c] # 0)
      => \A k \in 1 .. line[c] : Known(k) \/ k = hand[c]

(* The own connection comes after the isolation, and what deliver could not  *)
(* queue is accounted for.                                                 *)
Sequenced ==
  /\ ~isolated => line["own"] = Closed
  /\ step # "idle" => hand["shared"] \in dropped

Ordered ==
  /\ ConsumerInOrder /\ QueueInOrder /\ HandsInOrder /\ LinesInOrder /\ Sequenced

OrderInv == TypeOK /\ TasksConnected /\ (kind # "state" => Ordered)

LEMMA InitOrdered == Init => OrderInv
  <1> SUFFICES ASSUME Init PROVE OrderInv
    OBVIOUS
  <1>1. TypeOK /\ TasksConnected
    BY InitLag DEF LagInv
  <1>2. ConsumerInOrder /\ HandsInOrder /\ LinesInOrder /\ Sequenced
    BY DEF Init, ConsumerInOrder, HandsInOrder, LinesInOrder, Sequenced
  <1>3. Len(queue) = 0
    BY DEF Init
  <1>4. QueueInOrder
    BY <1>3 DEF QueueInOrder
  <1> QED
    BY <1>1, <1>2, <1>4 DEF OrderInv, Ordered

(* Steps that leave the queue alone.                                       *)
LEMMA SameQueue ==
  ASSUME QueueInOrder, queue' = queue, received' = received, dropped \subseteq dropped'
  PROVE  QueueInOrder' /\ \A e : Known(e) => Known(e)'
  BY DEF QueueInOrder, Known, InQueue, Accounted

LEMMA SameConsumer ==
  ASSUME ConsumerInOrder, received' = received, dropped \subseteq dropped',
         cursor' = cursor, held' = held, consumer' = "taken" => consumer = "taken"
  PROVE  ConsumerInOrder'
  BY DEF ConsumerInOrder, Accounted

LEMMA EnqueueOrdered ==
  ASSUME TypeOK, TypeOK', Ordered, NEW c \in Connections, Enqueue(c)
  PROVE  Ordered'
  <1> USE DEF server, tasks, entry, stream
  <1>1. /\ Len(queue') = Len(queue) + 1 /\ Len(queue) \in Nat
        /\ queue'[Len(queue) + 1] = hand[c]
        /\ \A m \in 1 .. Len(queue) : queue'[m] = queue[m]
    BY DEF Enqueue, TypeOK
  <1>2. UNCHANGED <<received, dropped, line, isolated, cursor, consumer, held, step>>
    BY DEF Enqueue
  <1>3. \A e : Known(e) => Known(e)'
    BY <1>1, <1>2 DEF Known, InQueue, Accounted
  <1>4. \A e : e = hand[c] => Known(e)'
    <2>1. Len(queue) + 1 \in 1 .. Len(queue')
      BY <1>1
    <2> QED
      BY <1>1, <2>1 DEF Known, InQueue
  <1>5. hand'[c] = 0 /\ \A d \in Connections \ {c} : hand'[d] = hand[d]
    BY DEF Enqueue, TypeOK
  <1>6. ConsumerInOrder'
    BY <1>2, SameConsumer DEF Ordered
  <1>7. QueueInOrder'
    <2> SUFFICES ASSUME NEW j \in 1 .. Len(queue'), NEW k \in 1 .. (queue'[j] - 1)
                 PROVE  k \in Accounted' \/ InQueue(k, j - 1)'
      BY DEF QueueInOrder
    <2>1. CASE j \in 1 .. Len(queue)
      <3>1. k \in Accounted \/ InQueue(k, j - 1)
        BY <1>1, <2>1 DEF Ordered, QueueInOrder
      <3> QED
        BY <1>1, <1>2, <2>1, <3>1 DEF Accounted, InQueue
    <2>2. CASE j = Len(queue) + 1
      <3>1. Known(k)
        BY <1>1, <2>2 DEF Ordered, HandsInOrder, Enqueue, Delivering
      <3> QED
        BY <1>1, <1>2, <2>2, <3>1 DEF Known, Accounted, InQueue
    <2> QED
      BY <1>1, <2>1, <2>2
  <1>8. HandsInOrder'
    BY <1>3, <1>5 DEF Ordered, HandsInOrder
  <1>9. LinesInOrder'
    <2> SUFFICES ASSUME NEW d \in Connections, line[d] # Closed, Carries(d) \/ hand'[d] # 0,
                        NEW k \in 1 .. line[d]
                 PROVE  Known(k)' \/ k = hand'[d]
      BY <1>2 DEF LinesInOrder, Carries
    <2>1. Carries(d) \/ hand[d] # 0
      BY <1>5
    <2>2. Known(k) \/ k = hand[d]
      BY <2>1 DEF Ordered, LinesInOrder
    <2> QED
      BY <1>3, <1>4, <1>5, <2>2
  <1>10. Sequenced'
    BY <1>2, <1>5 DEF Ordered, Sequenced, Enqueue, Delivering
  <1> QED
    BY <1>6, <1>7, <1>8, <1>9, <1>10 DEF Ordered

LEMMA TakeOrdered ==
  ASSUME TypeOK, Ordered, Take
  PROVE  Ordered'
  <1> USE DEF server, tasks, entry
  <1>1. /\ Len(queue) \in Nat \ {0} /\ Len(queue') = Len(queue) - 1
        /\ Head(queue) = queue[1] /\ queue[1] \in Nat \ {0}
        /\ \A m \in 1 .. Len(queue') : queue'[m] = queue[m + 1]
    BY DEF Take, TypeOK
  <1>2. UNCHANGED <<dropped, line, hand, isolated, cursor, step>>
    BY DEF Take
  <1>3. received' = received \cup {queue[1]} /\ held' = queue[1]
    BY <1>1 DEF Take
  <1>4. \A n \in Nat : \A e : InQueue(e, n + 1) /\ n + 1 <= Len(queue)
                             => e = queue[1] \/ InQueue(e, n)'
    <2> SUFFICES ASSUME NEW n \in Nat, NEW e, InQueue(e, n + 1), n + 1 <= Len(queue),
                        e # queue[1]
                 PROVE  InQueue(e, n)'
      OBVIOUS
    <2>1. PICK m \in 1 .. (n + 1) : queue[m] = e
      BY DEF InQueue
    <2>2. m - 1 \in 1 .. n /\ queue'[m - 1] = e
      BY <1>1, <2>1
    <2> QED
      BY <2>2 DEF InQueue
  <1>5. \A e : Known(e) => Known(e)'
    <2>1. Len(queue') \in Nat /\ Len(queue') + 1 = Len(queue)
      BY <1>1
    <2> QED
      BY <1>2, <1>3, <1>4, <2>1 DEF Known, Accounted
  <1>6. \A k \in 1 .. (queue[1] - 1) : k \in Accounted
    BY <1>1 DEF Ordered, QueueInOrder, InQueue
  <1>7. ConsumerInOrder'
    <2>1. 1 .. queue[1] \subseteq Accounted'
      BY <1>1, <1>2, <1>3, <1>6 DEF Accounted
    <2> QED
      BY <1>2, <1>3, <2>1 DEF Ordered, ConsumerInOrder, Accounted
  <1>8. QueueInOrder'
    <2> SUFFICES ASSUME NEW j \in 1 .. Len(queue'), NEW k \in 1 .. (queue'[j] - 1)
                 PROVE  k \in Accounted' \/ InQueue(k, j - 1)'
      BY DEF QueueInOrder
    <2>1. j + 1 \in 1 .. Len(queue) /\ k \in 1 .. (queue[j + 1] - 1) /\ (j + 1) - 1 = j
      BY <1>1
    <2>2. k \in Accounted \/ InQueue(k, j)
      BY <2>1 DEF Ordered, QueueInOrder
    <2>3. j - 1 \in Nat /\ (j - 1) + 1 = j /\ j <= Len(queue)
      BY <1>1
    <2>4. InQueue(k, j) => k = queue[1] \/ InQueue(k, j - 1)'
      BY <1>4, <2>3
    <2> QED
      BY <1>2, <1>3, <2>2, <2>4 DEF Accounted
  <1>9. HandsInOrder' /\ LinesInOrder' /\ Sequenced'
    BY <1>2, <1>5 DEF Ordered, HandsInOrder, LinesInOrder, Sequenced, Carries
  <1> QED
    BY <1>7, <1>8, <1>9 DEF Ordered

(* The steps of the tasks, but Enqueue.                                    *)
LEMMA TaskOrdered ==
  ASSUME TypeOK, TypeOK', TasksConnected, Ordered, kind # "state", NEW c \in Connections,
         \/ Connect(c) \/ Arrive(c) \/ Drop(c) \/ Rebuild(c)
         \/ Malformed(c) \/ ConnectionLost(c)
  PROVE  Ordered'
  <1> USE DEF server, tasks, entry, stream
  <1> ConsumerInOrder /\ QueueInOrder /\ HandsInOrder /\ LinesInOrder /\ Sequenced
    BY DEF Ordered
  <1>1. /\ UNCHANGED <<queue, received, cursor, held, consumer>>
        /\ dropped \subseteq dropped'
    BY DEF Connect, Arrive, Drop, Rebuild, Malformed, ConnectionLost
  <1>2. ConsumerInOrder' /\ QueueInOrder' /\ \A e : Known(e) => Known(e)'
    BY <1>1, SameConsumer, SameQueue
  <1>3. CASE Connect(c)
    <2>1. hand' = hand /\ hand[c] = 0 /\ isolated' = isolated
      BY <1>3 DEF Connect, TasksConnected
    <2>2. \A k \in 1 .. Start : Known(k)
      BY DEF Start, ConsumerInOrder, Known, TypeOK, Kind
    <2>3. line'[c] = Start /\ \A d \in Connections \ {c} : line'[d] = line[d]
      BY <1>3 DEF Connect, TypeOK
    <2>4. HandsInOrder'
      BY <1>2, <2>1 DEF HandsInOrder
    <2>5. LinesInOrder'
      BY <1>2, <2>1, <2>2, <2>3 DEF LinesInOrder, Carries
    <2>6. Sequenced'
      BY <1>3, <2>1, <2>3 DEF Sequenced, Connect, Carries
    <2> QED
      BY <1>2, <2>4, <2>5, <2>6 DEF Ordered
  <1>4. CASE Arrive(c)
    <2>1. /\ line[c] \in Nat /\ line'[c] = line[c] + 1
          /\ hand'[c] = (IF Carries(c) THEN line[c] + 1 ELSE 0)
          /\ hand[c] = 0 /\ isolated' = isolated
          /\ \A d \in Connections \ {c} : line'[d] = line[d] /\ hand'[d] = hand[d]
      BY <1>4 DEF Arrive, TypeOK
    <2>2. Carries(c) => \A k \in 1 .. line[c] : Known(k) \/ k = 0
      BY <2>1, <1>4 DEF LinesInOrder, Arrive
    <2>3. HandsInOrder'
      <3> SUFFICES ASSUME NEW d \in Connections, hand'[d] # 0, NEW k \in 1 .. (hand'[d] - 1)
                   PROVE  Known(k)'
        BY DEF HandsInOrder
      <3>1. CASE d = c
        BY <1>2, <2>1, <2>2, <3>1
      <3>2. CASE d # c
        BY <1>2, <2>1, <3>2 DEF HandsInOrder
      <3> QED
        BY <3>1, <3>2
    <2>4. LinesInOrder'
      <3> SUFFICES ASSUME NEW d \in Connections, line'[d] # Closed,
                          Carries(d)' \/ hand'[d] # 0, NEW k \in 1 .. line'[d]
                   PROVE  Known(k)' \/ k = hand'[d]
        BY DEF LinesInOrder
      <3>1. CASE d = c
        <4>1. Carries(c)
          BY <2>1, <3>1 DEF Carries
        <4> QED
          BY <1>2, <2>1, <2>2, <3>1, <4>1
      <3>2. CASE d # c
        BY <1>2, <2>1, <3>2 DEF LinesInOrder, Carries
      <3> QED
        BY <3>1, <3>2
    <2>5. Sequenced'
      BY <1>4, <2>1 DEF Sequenced, Arrive, TasksConnected
    <2> QED
      BY <1>2, <2>3, <2>4, <2>5 DEF Ordered
  <1>5. CASE Drop(c)
    <2>1. /\ UNCHANGED <<line, hand, isolated>> /\ c = "shared"
          /\ hand[c] \in dropped'
      BY <1>5 DEF Drop, Waits
    <2>2. HandsInOrder' /\ LinesInOrder'
      BY <1>2, <2>1 DEF HandsInOrder, LinesInOrder, Carries
    <2>3. Sequenced'
      BY <2>1 DEF Sequenced
    <2> QED
      BY <1>2, <2>2, <2>3 DEF Ordered
  <1>6. CASE Rebuild(c) \/ ConnectionLost(c)
    <2>1. /\ UNCHANGED <<hand, isolated, step, dropped>>
          /\ line'[c] = Closed /\ \A d \in Connections \ {c} : line'[d] = line[d]
      BY <1>6 DEF Rebuild, ConnectionLost, TypeOK
    <2>2. HandsInOrder' /\ LinesInOrder'
      BY <1>2, <2>1 DEF HandsInOrder, LinesInOrder, Carries
    <2>3. Sequenced'
      BY <2>1 DEF Sequenced
    <2> QED
      BY <1>2, <2>2, <2>3 DEF Ordered
  <1>7. CASE Malformed(c)
    <2>1. /\ isolated' = TRUE /\ UNCHANGED <<step, dropped>>
          /\ hand'[c] = 0 /\ \A d \in Connections \ {c} : hand'[d] = hand[d]
          /\ c = "own" => line'["own"] = Closed /\ line'["shared"] = line["shared"]
          /\ c = "shared" => line' = line /\ step = "idle"
      BY <1>7 DEF Malformed, Delivering, TypeOK
    <2>2. HandsInOrder'
      BY <1>2, <2>1 DEF HandsInOrder
    <2>3. LinesInOrder'
      BY <1>2, <2>1 DEF LinesInOrder, Carries, Sequenced
    <2>4. Sequenced'
      BY <2>1 DEF Sequenced
    <2> QED
      BY <1>2, <2>2, <2>3, <2>4 DEF Ordered
  <1> QED
    BY <1>3, <1>4, <1>5, <1>6, <1>7

(* The rest of deliver gives up an event that is accounted for.            *)
LEMMA NoteLagOrdered ==
  ASSUME TypeOK, Ordered, NoteLag
  PROVE  Ordered'
  <1> USE DEF server, tasks, entry, stream
  <1> ConsumerInOrder /\ QueueInOrder /\ HandsInOrder /\ LinesInOrder /\ Sequenced
    BY DEF Ordered
  <1>1. /\ UNCHANGED <<queue, received, dropped, cursor, held, consumer, line, isolated>>
        /\ step # "idle"
    BY DEF NoteLag, Flag, ShowLag
  <1>2. ConsumerInOrder' /\ QueueInOrder' /\ \A e : Known(e) => Known(e)'
    BY <1>1, SameConsumer, SameQueue
  <1>3. \A e : e = hand["shared"] => Known(e)'
    BY <1>1 DEF Sequenced, Known, Accounted
  <1>4. \/ hand' = hand
        \/ /\ hand'["shared"] = 0 /\ hand'["own"] = hand["own"]
           /\ step' = "idle"
    BY DEF NoteLag, Flag, ShowLag, TypeOK
  <1>5. HandsInOrder'
    BY <1>2, <1>4 DEF HandsInOrder
  <1>6. LinesInOrder'
    BY <1>1, <1>2, <1>3, <1>4 DEF LinesInOrder, Carries
  <1>7. Sequenced'
    BY <1>1, <1>4 DEF Sequenced
  <1> QED
    BY <1>2, <1>5, <1>6, <1>7 DEF Ordered

(* The consumer's steps, but Take, and the server's.                       *)
LEMMA QuietOrdered ==
  ASSUME TypeOK, Ordered,
         \/ ResumeAfter \/ IsEmpty \/ SwapLagging \/ RequestResync \/ Isolate
         \/ Produce \/ UNCHANGED vars
  PROVE  Ordered'
  <1> USE DEF server, tasks, entry, stream, vars
  <1> ConsumerInOrder /\ QueueInOrder /\ HandsInOrder /\ LinesInOrder /\ Sequenced
    BY DEF Ordered
  <1>1. UNCHANGED <<queue, received, dropped, held, line, hand, step>>
    BY DEF ResumeAfter, IsEmpty, SwapLagging, RequestResync, Isolate, Produce
  <1>2. QueueInOrder' /\ \A e : Known(e) => Known(e)'
    BY <1>1, SameQueue
  <1>3. consumer' = "taken" => consumer = "taken"
    BY DEF ResumeAfter, IsEmpty, SwapLagging, RequestResync, Isolate, Produce
  <1>4. cursor' = cursor \/ (cursor' = held /\ consumer = "taken")
    BY DEF ResumeAfter, IsEmpty, SwapLagging, RequestResync, Isolate, Produce
  <1>5. ConsumerInOrder'
    <2>1. 1 .. cursor' \subseteq Accounted
      BY <1>4 DEF ConsumerInOrder
    <2> QED
      BY <1>1, <1>3, <2>1 DEF ConsumerInOrder, Accounted
  <1>6. HandsInOrder'
    BY <1>1, <1>2 DEF HandsInOrder
  <1>7. isolated' = isolated \/ isolated' = TRUE
    BY DEF ResumeAfter, IsEmpty, SwapLagging, RequestResync, Isolate, Produce
  <1>8. LinesInOrder'
    <2> SUFFICES ASSUME NEW c \in Connections, line[c] # Closed, Carries(c)' \/ hand[c] # 0,
                        NEW k \in 1 .. line[c]
                 PROVE  Known(k)' \/ k = hand[c]
      BY <1>1 DEF LinesInOrder
    <2>1. Carries(c) \/ hand[c] # 0
      BY <1>7 DEF Carries, Sequenced, TypeOK
    <2> QED
      BY <1>2, <2>1 DEF LinesInOrder
  <1>9. Sequenced'
    BY <1>1, <1>7 DEF Sequenced
  <1> QED
    BY <1>2, <1>5, <1>6, <1>8, <1>9 DEF Ordered

LEMMA OrderStep == LagInv /\ OrderInv /\ [Next]_vars => OrderInv'
  <1> SUFFICES ASSUME LagInv, OrderInv, [Next]_vars PROVE OrderInv'
    OBVIOUS
  <1>1. TypeOK /\ TypeOK' /\ TasksConnected /\ TasksConnected'
    BY LagStep DEF LagInv
  <1>2. kind' = kind
    BY DEF Next, TaskStep, NoteLag, PollNext, Connect, Arrive, Enqueue, Drop, Rebuild,
       Malformed, ConnectionLost, Flag, ShowLag, Take, ResumeAfter, IsEmpty, SwapLagging,
       RequestResync, Isolate, Produce, vars, server
  <1>3. ASSUME kind # "state" PROVE Ordered'
    <2>1. Ordered
      BY <1>3 DEF OrderInv
    <2>2. ASSUME NEW c \in Connections,
                 TaskStep(c) \/ Malformed(c) \/ ConnectionLost(c)
          PROVE  Ordered'
      BY <1>1, <1>3, <2>1, <2>2, EnqueueOrdered, TaskOrdered DEF TaskStep
    <2>3. CASE NoteLag
      BY <1>1, <2>1, <2>3, NoteLagOrdered
    <2>4. CASE PollNext \/ Produce \/ UNCHANGED vars
      BY <1>1, <2>1, <2>4, TakeOrdered, QuietOrdered DEF PollNext
    <2> QED
      BY <2>2, <2>3, <2>4 DEF Next
  <1> QED
    BY <1>1, <1>2, <1>3 DEF OrderInv

(* Losing connections, and payloads that do not decode, lose no change of a  *)
(* subscription that resumes or starts over: what is missing before a change  *)
(* the consumer got was dropped by deliver, however the two tasks, the move    *)
(* between the connections and the consumer interleave.                    *)
THEOREM OnlyDropsMissing == Spec => []OnlyDropsAreMissing
  <1>1. OrderInv => OnlyDropsAreMissing
    BY DEF OrderInv, Ordered, ConsumerInOrder, OnlyDropsAreMissing, Accounted
  <1>2. Init => LagInv /\ OrderInv
    BY InitLag, InitOrdered
  <1>3. LagInv /\ OrderInv /\ [Next]_vars => LagInv' /\ OrderInv'
    BY LagStep, OrderStep
  <1> QED
    BY <1>1, <1>2, <1>3, PTL DEF Spec
-----------------------------------------------------------------------------
(***************************************************************************)
(* A subscription with a hub of its own implements Feed, as far as safety   *)
(* goes.  Nothing is dropped, so what the consumer got is without gaps, and *)
(* a change that is new to it is the next one.                             *)
(***************************************************************************)

(* No task, queue or cursor is ahead of the server.                          *)
Behind ==
  /\ received \subseteq 1 .. produced
  /\ \A j \in 1 .. Len(queue) : queue[j] <= produced
  /\ \A c \in Connections : hand[c] <= produced /\ line[c] <= produced
  /\ cursor <= produced /\ held <= produced

FeedInv == Behind /\ dropped = {} /\ step = "idle"

LEMMA InitFeed == Init => FeedInv
  <1> SUFFICES ASSUME Init PROVE FeedInv
    OBVIOUS
  <1>1. Len(queue) = 0
    BY DEF Init
  <1> QED BY <1>1 DEF Init, FeedInv, Behind

LEMMA TakeBehind ==
  ASSUME TypeOK, Behind, Take
  PROVE  Behind' /\ Head(queue) \in 1 .. produced
  <1>1. /\ Len(queue) \in Nat \ {0} /\ Len(queue') = Len(queue) - 1
        /\ Head(queue) = queue[1] /\ queue[1] \in Nat \ {0}
        /\ \A m \in 1 .. Len(queue') : queue'[m] = queue[m + 1]
    BY DEF Take, TypeOK
  <1>2. UNCHANGED <<produced, hand, line, cursor>> /\ produced \in Nat
    BY DEF Take, server, tasks, entry, TypeOK
  <1>3. received' = received \cup {queue[1]} /\ held' = queue[1]
    BY <1>1 DEF Take
  <1>4. queue[1] \in 1 .. produced
    <2>1. 1 \in 1 .. Len(queue)
      BY <1>1
    <2> QED BY <1>1, <1>2, <2>1 DEF Behind
  <1>5. \A j \in 1 .. Len(queue') : queue'[j] <= produced
    <2>1. \A j \in 1 .. Len(queue') : j + 1 \in 1 .. Len(queue)
      BY <1>1
    <2> QED BY <1>1, <2>1 DEF Behind
  <1>6. received' \subseteq 1 .. produced /\ held' <= produced
    <2>1. received \subseteq 1 .. produced
      BY DEF Behind
    <2>2. received' \subseteq 1 .. produced
      BY <1>3, <1>4, <2>1, Zenon
    <2>3. queue[1] <= produced
      BY <1>2, <1>4
    <2> QED BY <1>3, <2>2, <2>3, Zenon
  <1>7. \A c \in Connections : hand'[c] <= produced /\ line'[c] <= produced
    BY <1>2 DEF Behind
  <1>8. cursor' <= produced /\ produced' = produced
    BY <1>2 DEF Behind
  <1>9. Behind'
    BY <1>5, <1>6, <1>7, <1>8, Zenon DEF Behind
  <1> QED BY <1>1, <1>4, <1>9

LEMMA FeedStep ==
  ASSUME Dedicated, TypeOK, FeedInv, [Next]_vars
  PROVE  FeedInv'
  <1> USE DEF server, tasks, entry, stream
  <1> Behind /\ dropped = {} /\ step = "idle"
    BY DEF FeedInv
  <1>1. CASE Take
    BY <1>1, TakeBehind DEF FeedInv, Take
  <1>2. ASSUME NEW c \in Connections, Enqueue(c)
        PROVE  FeedInv'
    <2>1. /\ Len(queue') = Len(queue) + 1 /\ Len(queue) \in Nat
          /\ queue'[Len(queue) + 1] = hand[c]
          /\ \A m \in 1 .. Len(queue) : queue'[m] = queue[m]
      BY <1>2 DEF Enqueue, TypeOK
    <2>2. UNCHANGED <<produced, received, dropped, line, cursor, held, step>>
      BY <1>2 DEF Enqueue
    <2>3. hand'[c] = 0 /\ \A d \in Connections \ {c} : hand'[d] = hand[d]
      BY <1>2 DEF Enqueue, TypeOK
    <2>4. \A j \in 1 .. Len(queue') : j \in 1 .. Len(queue) \/ j = Len(queue) + 1
      BY <2>1
    <2>5. \A j \in 1 .. Len(queue') : queue'[j] <= produced
      BY <2>1, <2>4 DEF Behind
    <2>6. 0 <= produced
      BY DEF TypeOK
    <2> QED BY <2>2, <2>3, <2>5, <2>6 DEF FeedInv, Behind
  <1>3. ASSUME NEW c \in Connections,
               \/ Connect(c) \/ Arrive(c) \/ Rebuild(c) \/ Malformed(c) \/ ConnectionLost(c)
        PROVE  FeedInv'
    <2>1. UNCHANGED <<produced, received, dropped, queue, cursor, held, step>>
      BY <1>3 DEF Connect, Arrive, Rebuild, Malformed, ConnectionLost
    <2>2. /\ produced \in Nat /\ Start \in Nat /\ Start <= produced
      BY StartTypes DEF TypeOK, Start, Behind
    <2>3. /\ line \in [Connections -> Int] /\ hand \in [Connections -> Int]
          /\ \A d \in Connections : hand[d] <= produced /\ line[d] <= produced
          /\ 0 <= produced /\ -1 <= produced
      BY <2>2 DEF TypeOK, Behind
    <2>4. \A d \in Connections : hand'[d] <= produced /\ line'[d] <= produced
      <3>1. CASE Connect(c)
        <4>1. line' = [line EXCEPT ![c] = Start] /\ hand' = hand
          BY <3>1 DEF Connect
        <4> QED BY <2>2, <2>3, <4>1
      <3>2. CASE Arrive(c)
        <4>1. /\ line[c] + 1 <= produced /\ line' = [line EXCEPT ![c] = line[c] + 1]
              /\ hand' = [hand EXCEPT ![c] = IF Carries(c) THEN line[c] + 1 ELSE 0]
          BY <2>2, <2>3, <3>2 DEF Arrive
        <4> QED BY <2>3, <4>1
      <3>3. CASE Rebuild(c) \/ ConnectionLost(c)
        <4>1. line' = [line EXCEPT ![c] = -1] /\ hand' = hand
          BY <3>3 DEF Rebuild, ConnectionLost
        <4> QED BY <2>3, <4>1
      <3>4. CASE Malformed(c)
        <4>1. /\ line' = [line EXCEPT ![c] = -1] \/ line' = line
              /\ hand' = [hand EXCEPT ![c] = 0]
          BY <3>4 DEF Malformed
        <4> QED BY <2>3, <4>1
      <3> QED BY <1>3, <3>1, <3>2, <3>3, <3>4
    <2> QED BY <2>1, <2>4 DEF FeedInv, Behind
  <1>4. ASSUME NEW c \in Connections, Drop(c) PROVE FeedInv'
    BY <1>4 DEF Drop, Waits
  <1>5. CASE NoteLag
    BY <1>5 DEF NoteLag, Flag, ShowLag
  <1>6. CASE Produce
    <2>1. produced' = produced + 1 /\ produced \in Nat
      BY <1>6 DEF Produce, TypeOK
    <2>2. UNCHANGED <<received, dropped, queue, hand, line, cursor, held, step>>
      BY <1>6 DEF Produce
    <2>3. \A x \in Int : x <= produced => x <= produced + 1
      BY <2>1
    <2>4. \A j \in 1 .. Len(queue) : queue[j] \in Int
      BY DEF TypeOK
    <2>5. \A c \in Connections : hand[c] \in Int /\ line[c] \in Int
      BY DEF TypeOK
    <2>6. \A x \in 1 .. produced : x \in 1 .. produced + 1
      BY <2>1
    <2>7. cursor \in Int /\ held \in Int
      BY DEF TypeOK
    <2> QED BY <2>1, <2>2, <2>3, <2>4, <2>5, <2>6, <2>7 DEF FeedInv, Behind
  <1>7. CASE ResumeAfter \/ IsEmpty \/ SwapLagging \/ RequestResync \/ Isolate
    BY <1>7 DEF ResumeAfter, IsEmpty, SwapLagging, RequestResync, Isolate, FeedInv, Behind
  <1>8. CASE UNCHANGED vars
    BY <1>8 DEF vars, FeedInv, Behind
  <1> QED BY <1>1, <1>2, <1>3, <1>4, <1>5, <1>6, <1>7, <1>8 DEF Next, TaskStep, PollNext

(* One change more, or one that the consumer knows already.                  *)
LEMMA TakeSees ==
  ASSUME TypeOK, FeedInv, OrderInv, FeedInv', OrderInv', kind # "state", Take
  PROVE  AsFeed!See \/ UNCHANGED <<produced, received>>
  <1> DEFINE h == Head(queue)
  <1>1. /\ h \in 1 .. produced /\ produced \in Nat
        /\ received' = received \cup {h} /\ produced' = produced /\ kind' = kind
    BY TakeBehind DEF FeedInv, Take, server, TypeOK
  <1>2. \A e \in received' : 1 .. e \subseteq received'
    BY <1>1 DEF OrderInv, Ordered, ConsumerInOrder, Accounted, FeedInv
  <1>3. \A e \in received : 1 .. e \subseteq received
    BY DEF OrderInv, Ordered, ConsumerInOrder, Accounted, FeedInv
  <1>4. received \subseteq 1 .. produced
    BY DEF FeedInv, Behind
  <1> HIDE DEF h
  <1>5. CASE h \in received
    BY <1>1, <1>5
  <1>6. CASE h \notin received
    <2>1. \A e \in received : e \in 1 .. h - 1
      <3> SUFFICES ASSUME NEW e \in received, ~(e < h)  PROVE FALSE
        BY <1>1, <1>4
      <3>1. h \in 1 .. e
        BY <1>1, <1>4
      <3> QED BY <1>3, <1>6, <3>1
    <2>2. 1 .. h \subseteq received'
      BY <1>1, <1>2
    <2>3. received = 1 .. h - 1
      <3>1. \A k \in 1 .. h - 1 : k \in 1 .. h /\ k # h
        BY <1>1
      <3>2. \A k \in 1 .. h - 1 : k \in received
        BY <1>1, <2>2, <3>1
      <3> QED BY <2>1, <3>2
    <2>4. received' = 1 .. h
      <3>1. \A k \in 1 .. h - 1 : k \in 1 .. h
        BY <1>1
      <3>2. h \in 1 .. h
        BY <1>1
      <3> QED BY <1>1, <2>2, <2>3, <3>1, <3>2
    <2> QED BY <1>1, <2>3, <2>4 DEF AsFeed!See
  <1> QED BY <1>5, <1>6

(* For a hub of a single subscription that resumes or starts over, with any   *)
(* capacity and any number of changes and losses: its consumer sees every    *)
(* change, each one only after all before it (the safety part of             *)
(* ImplementsFeed: lost connections, payloads that do not decode and          *)
(* replayed events included).                                               *)
THEOREM DedicatedIsFeed ==
  ASSUME Dedicated, "state" \notin Kinds
  PROVE  Spec => AsFeed!Init /\ [][AsFeed!Next]_<<produced, received>>
  <1> DEFINE Inv == LagInv /\ OrderInv /\ FeedInv /\ kind # "state"
  <1>1. Init => Inv /\ AsFeed!Init
    BY InitLag, InitOrdered, InitFeed DEF Init, AsFeed!Init
  <1>2. Inv /\ [Next]_vars => Inv' /\ [AsFeed!Next]_<<produced, received>>
    <2> SUFFICES ASSUME Inv, [Next]_vars PROVE Inv' /\ [AsFeed!Next]_<<produced, received>>
      OBVIOUS
    <2>1. TypeOK
      BY DEF LagInv
    <2>2. LagInv' /\ OrderInv' /\ FeedInv'
      BY <2>1, LagStep, OrderStep, FeedStep
    <2>3. kind' = kind
      BY DEF Next, TaskStep, NoteLag, PollNext, Connect, Arrive, Enqueue, Drop, Rebuild,
         Malformed, ConnectionLost, Flag, ShowLag, Take, ResumeAfter, IsEmpty, SwapLagging,
         RequestResync, Isolate, Produce, vars, server
    <2>4. ASSUME Take PROVE [AsFeed!Next]_<<produced, received>>
      BY <2>1, <2>2, <2>4, TakeSees DEF AsFeed!Next
    <2>5. ASSUME Produce PROVE [AsFeed!Next]_<<produced, received>>
      <3>1. produced < MaxEvents /\ produced' = produced + 1 /\ received' = received
        BY <2>5 DEF Produce, stream
      <3> QED BY <3>1 DEF AsFeed!Next, AsFeed!Produce
    <2>6. ASSUME ~Take, ~Produce PROVE [AsFeed!Next]_<<produced, received>>
      BY <2>6 DEF Next, TaskStep, NoteLag, PollNext, Connect, Arrive, Enqueue, Drop, Rebuild,
         Malformed, ConnectionLost, Flag, ShowLag, ResumeAfter, IsEmpty, SwapLagging,
         RequestResync, Isolate, vars, server, stream
    <2> QED BY <2>2, <2>3, <2>4, <2>5, <2>6
  <1> HIDE DEF Inv
  <1>3. Spec => AsFeed!Init /\ [][AsFeed!Next]_<<produced, received>>
    BY <1>1, <1>2, PTL DEF Spec
  <1> QED BY <1>3

=============================================================================
