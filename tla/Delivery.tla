------------------------------ MODULE Delivery ------------------------------
(***************************************************************************)
(* How the events of one subscription reach its consumer (client/src/client *)
(* /subscription_hub.rs): through the connection it shares, with a queue     *)
(* that drops what does not fit, and through the connection of its own that  *)
(* it moves to when it lost something, which waits instead.  The tasks of    *)
(* the two connections and the consumer run in parallel; every lock of the   *)
(* hub, atomic flag and channel operation is a step of its own.             *)
(* The changes are numbered in the order in which the server makes them.    *)
(***************************************************************************)
EXTENDS Integers, Sequences

CONSTANTS
  Kinds,      (* what the subscription is about, of Kind                   *)
  Dedicated,  (* the hub serves this subscription only                     *)
  Capacity,   (* SLOT_CHANNEL_CAPACITY                                     *)
  MaxEvents,  (* bound on the changes the server makes                     *)
  MaxLosses   (* bound on connections lost and payloads malformed          *)

(* "log": the channel graph, which resumes after a cursor.  "history": the   *)
(* server starts over with every event.  "state": it sends the latest value. *)
Kind == {"log", "history", "state"}

ASSUME ConfigAssumption ==
  /\ Kinds \subseteq Kind /\ Dedicated \in BOOLEAN
  /\ Capacity \in Nat \ {0} /\ MaxEvents \in Nat /\ MaxLosses \in Nat

Connections == {"shared", "own"}
Closed == -1

VARIABLES
  kind,       (* one of Kinds                                              *)
  produced,   (* the changes the server made so far                        *)
  losses,     (* counts the losses                                         *)
  line,       (* per connection, the last change it brought, or Closed      *)
  hand,       (* per connection, the change its task is delivering, or 0    *)
  step,       (* how far deliver on the shared connection is               *)
  queue,      (* the channel of the slot                                   *)
  lagging,    (* the flag that deliver and the stream share                *)
  isolated,   (* the slot entry: moved onto a connection of its own        *)
  resync,     (* the slot entry: waits for a new connection                *)
  cursor,     (* the slot entry: where its document resumes                *)
  shownLag,   (* the tracker's `lagging`: the gap is visible in the health *)
  consumer,   (* how far poll_next is                                      *)
  held,       (* the event it is about to return                           *)
  received,   (* history: the changes the consumer got                     *)
  dropped     (* history: the changes that did not fit the queue           *)

server == <<kind, produced>>
tasks  == <<losses, line, hand, step>>
entry  == <<isolated, resync, cursor, shownLag>>
stream == <<consumer, held, received>>
vars   == <<server, tasks, queue, lagging, entry, stream, dropped>>

Init ==
  /\ kind \in Kinds /\ produced = 0 /\ losses = 0
  /\ line = [c \in Connections |-> Closed]
  /\ hand = [c \in Connections |-> 0]
  /\ step = "idle"
  /\ queue = <<>> /\ lagging = FALSE
  /\ isolated = FALSE /\ resync = FALSE /\ cursor = 0 /\ shownLag = FALSE
  /\ consumer = "idle" /\ held = 0 /\ received = {} /\ dropped = {}
-----------------------------------------------------------------------------
(* The server.                                                             *)
Produce ==
  /\ produced < MaxEvents
  /\ produced' = produced + 1
  /\ UNCHANGED <<kind, tasks, queue, lagging, entry, stream, dropped>>

(* After which change a new connection starts.                             *)
Start ==
  IF kind = "log" THEN cursor
  ELSE IF kind = "state" /\ produced > 0 THEN produced - 1
  ELSE 0
-----------------------------------------------------------------------------
(* The tasks of the connections.                                           *)
Carries(c) == isolated = (c = "own")

(* deliver waits for the consumer on a connection without siblings; the      *)
(* variant forgets the hub of a single subscription.                       *)
WaitsOnOwn(c) == c = "own"
Waits(c) == Dedicated \/ c = "own"

(* prepare takes the snapshot and fulfils a resync request; the connection   *)
(* is then opened with the cursor it holds.  The variant leaves the health.  *)
ConnectQuietly(c) ==
  /\ line[c] = Closed /\ Carries(c)
  /\ line' = [line EXCEPT ![c] = Start]
  /\ resync' = FALSE
  /\ UNCHANGED <<server, losses, hand, step, queue, lagging, isolated, cursor,
                 shownLag, stream, dropped>>

Connect(c) ==
  /\ line[c] = Closed /\ Carries(c)
  /\ line' = [line EXCEPT ![c] = Start]
  /\ resync' = FALSE
  /\ shownLag' = (shownLag /\ ~resync)
  /\ UNCHANGED <<server, losses, hand, step, queue, lagging, isolated, cursor,
                 stream, dropped>>

(* A change arrives; dispatch reads once whether it is still for this slot. *)
Arrive(c) ==
  /\ line[c] # Closed /\ hand[c] = 0 /\ line[c] < produced
  /\ line' = [line EXCEPT ![c] = @ + 1]
  /\ hand' = [hand EXCEPT ![c] = IF Carries(c) THEN line[c] + 1 ELSE 0]
  /\ UNCHANGED <<server, losses, step, queue, lagging, entry, stream, dropped>>

Delivering(c) == hand[c] # 0 /\ (c = "shared" => step = "idle")

(* The variant has a channel without bound.                                *)
EnqueueUnbounded(c) ==
  /\ Delivering(c)
  /\ queue' = Append(queue, hand[c])
  /\ hand' = [hand EXCEPT ![c] = 0]
  /\ UNCHANGED <<server, losses, line, step, lagging, entry, stream, dropped>>

Enqueue(c) ==
  /\ Delivering(c) /\ Len(queue) < Capacity
  /\ queue' = Append(queue, hand[c])
  /\ hand' = [hand EXCEPT ![c] = 0]
  /\ UNCHANGED <<server, losses, line, step, lagging, entry, stream, dropped>>

(* The event is dropped, then the flag is set, then the health is told.    *)
Drop(c) ==
  /\ Delivering(c) /\ Len(queue) = Capacity /\ ~Waits(c)
  /\ dropped' = dropped \cup {hand[c]}
  /\ step' = "full"
  /\ UNCHANGED <<server, losses, line, hand, queue, lagging, entry, stream>>

(* The variant sets the flag and leaves it at that.                        *)
FlagQuietly ==
  /\ step = "full"
  /\ lagging' = TRUE
  /\ step' = "idle" /\ hand' = [hand EXCEPT !["shared"] = 0]
  /\ UNCHANGED <<server, losses, line, queue, entry, stream, dropped>>

Flag ==
  /\ step = "full"
  /\ lagging' = TRUE
  /\ IF lagging
     THEN step' = "idle" /\ hand' = [hand EXCEPT !["shared"] = 0]
     ELSE step' = "flagged" /\ UNCHANGED hand
  /\ UNCHANGED <<server, losses, line, queue, entry, stream, dropped>>

ShowLag ==
  /\ step = "flagged"
  /\ shownLag' = (shownLag \/ ~isolated)
  /\ step' = "idle" /\ hand' = [hand EXCEPT !["shared"] = 0]
  /\ UNCHANGED <<server, losses, line, queue, lagging, isolated, resync, cursor,
                 stream, dropped>>

(* A payload does not decode: the slot moves away from the shared           *)
(* connection; its own connection closes.  The variant skips the payload.   *)
MalformedSkipped(c) ==
  /\ Delivering(c) /\ losses < MaxLosses
  /\ losses' = losses + 1
  /\ hand' = [hand EXCEPT ![c] = 0]
  /\ UNCHANGED <<server, line, step, queue, lagging, entry, stream, dropped>>

Malformed(c) ==
  /\ Delivering(c) /\ losses < MaxLosses
  /\ losses' = losses + 1
  /\ hand' = [hand EXCEPT ![c] = 0]
  /\ isolated' = TRUE
  /\ line' = IF c = "own" THEN [line EXCEPT ![c] = Closed] ELSE line
  /\ UNCHANGED <<server, step, queue, lagging, resync, cursor, shownLag, stream, dropped>>

ConnectionLost(c) ==
  /\ line[c] # Closed /\ hand[c] = 0 /\ losses < MaxLosses
  /\ losses' = losses + 1
  /\ line' = [line EXCEPT ![c] = Closed]
  /\ UNCHANGED <<server, hand, step, queue, lagging, entry, stream, dropped>>

(* reconnect_needed, as far as this subscription is concerned; Supervision   *)
(* shows that the task gets to look.                                       *)
Rebuild(c) ==
  /\ line[c] # Closed /\ hand[c] = 0
  /\ ~Carries(c) \/ resync
  /\ line' = [line EXCEPT ![c] = Closed]
  /\ UNCHANGED <<server, losses, hand, step, queue, lagging, entry, stream, dropped>>
-----------------------------------------------------------------------------
(* The consumer, inside poll_next.                                         *)
Take ==
  /\ consumer = "idle" /\ queue # <<>>
  /\ held' = Head(queue)
  /\ queue' = Tail(queue)
  /\ received' = received \cup {Head(queue)}
  /\ consumer' = "taken"
  /\ UNCHANGED <<server, tasks, lagging, entry, dropped>>

(* resume_after: the document resumes after what the caller gets now.      *)
ResumeAfter ==
  /\ consumer = "taken"
  /\ cursor' = IF kind = "log" THEN held ELSE cursor
  /\ consumer' = "resumable"
  /\ UNCHANGED <<server, tasks, queue, lagging, isolated, resync, shownLag, held,
                 received, dropped>>

IsEmpty ==
  /\ consumer = "resumable"
  /\ consumer' = IF queue = <<>> THEN "empty" ELSE "idle"
  /\ UNCHANGED <<server, tasks, queue, lagging, entry, held, received, dropped>>

SwapLagging ==
  /\ consumer = "empty"
  /\ lagging' = FALSE
  /\ consumer' = IF lagging THEN "asking" ELSE "idle"
  /\ UNCHANGED <<server, tasks, queue, entry, held, received, dropped>>

RequestResync ==
  /\ consumer = "asking"
  /\ resync' = TRUE
  /\ consumer' = IF isolated THEN "idle" ELSE "moving"
  /\ UNCHANGED <<server, tasks, queue, lagging, isolated, cursor, shownLag, held,
                 received, dropped>>

Isolate ==
  /\ consumer = "moving"
  /\ isolated' = TRUE
  /\ consumer' = "idle"
  /\ UNCHANGED <<server, tasks, queue, lagging, resync, cursor, shownLag, held,
                 received, dropped>>

PollNext == Take \/ ResumeAfter \/ IsEmpty \/ SwapLagging \/ RequestResync \/ Isolate

(* What the task of a connection does of itself.                           *)
TaskStep(c) ==
  Connect(c) \/ Arrive(c) \/ Enqueue(c) \/ Drop(c) \/ Rebuild(c)

NoteLag == Flag \/ ShowLag

Next ==
  \/ Produce
  \/ \E c \in Connections : TaskStep(c) \/ Malformed(c) \/ ConnectionLost(c)
  \/ NoteLag
  \/ PollNext

Spec == Init /\ [][Next]_vars

(* The consumer keeps polling and the tasks run; the server need not make    *)
(* any change and no connection need fail.                                 *)
FairSpec ==
  /\ Spec
  /\ WF_vars(PollNext) /\ WF_vars(NoteLag)
  /\ \A c \in Connections : WF_vars(TaskStep(c))
-----------------------------------------------------------------------------
(* The variables have their types, and the queue stays within its capacity. *)
TypeOK ==
  /\ kind \in Kind
  /\ produced \in Nat /\ losses \in Nat
  /\ line \in [Connections -> Nat \cup {Closed}]
  /\ hand \in [Connections -> Nat]
  /\ step \in {"idle", "full", "flagged"}
  /\ queue \in Seq(Nat \ {0}) /\ Len(queue) <= Capacity
  /\ lagging \in BOOLEAN /\ isolated \in BOOLEAN
  /\ resync \in BOOLEAN /\ shownLag \in BOOLEAN
  /\ cursor \in Nat
  /\ consumer \in {"idle", "taken", "resumable", "empty", "asking", "moving"}
  /\ held \in Nat
  /\ received \subseteq Nat /\ dropped \subseteq Nat

(* While the health shows a gap, the flag for it is up or a repair has       *)
(* begun: the consumer is asking, or its request waits for a connection.     *)
(* The flag alone is no repair under way.  The consumer looks at it when it  *)
(* next drains its queue, which LagEndsInReconnect shows may never come; but *)
(* no health is left degraded by a flag that was already taken down and      *)
(* whose replay is over.                                                   *)
ShownLagIsFlagged == shownLag => lagging \/ resync \/ consumer = "asking"

(* Of the changes before one the consumer got, only those that did not fit   *)
(* its queue on the shared connection can be missing: lost connections and   *)
(* payloads that do not decode are made good by the next connection, which   *)
(* starts after the last change the consumer got.                          *)
OnlyDropsAreMissing ==
  kind \in {"log", "history"}
    => \A e \in received : 1 .. e \subseteq received \cup dropped

(* The newest value arrives, or the health shows that something is missing. *)
GapIsShown ==
  \A n \in 1 .. MaxEvents :
    (kind = "state" /\ produced = n) ~> ((\E e \in received : e >= n) \/ shownLag)

(* What the health says of a lag: once the caller has caught up, the client  *)
(* reconnects.  It does not when the flag is set after the queue was drained. *)
LagEndsInReconnect == shownLag ~> ~shownLag

(* A subscription with a hub of its own, whose connection starts over with   *)
(* all that happened, shows its consumer every change in order.            *)
AsFeed == INSTANCE Feed WITH seen <- received
ImplementsFeed == AsFeed!Spec
=============================================================================
