---------------------------- MODULE ColumnStore ----------------------------
(***************************************************************************)
(* The warming queue and the builder threads behind the residency          *)
(* (net/source.rs), with the tasks that feed them: every owner of a        *)
(* ColumnClaim or a Residence is one sequential task that takes its claim  *)
(* and then, in further acquisitions of other locks, asks for what it      *)
(* claimed to be built.                                                    *)
(*                                                                         *)
(* Three locks are involved and no step holds two of them: the residency's *)
(* RwLock (the steps of Residency and every snapshot of what is cold), the *)
(* mutex around Pending, and the condition variable's wait set.            *)
(***************************************************************************)
EXTENDS Residency, Sequences

CONSTANTS
  Builders,     \* the dust-warming-n threads
  FillBatch     \* FILL_BATCH

ASSUME StoreAssumption ==
  /\ Columns \subseteq Int              \* the sort key of a column
  /\ Builders # {} /\ IsFiniteSet(Builders)
  /\ FillBatch \in Nat \ {0}
  /\ Sessions \subseteq Holders         \* every session owns an `ahead` claim

VARIABLES
  pending,    \* the mutex's contents: queue, claimed, closed
  task,       \* task[h]: where holder h is in asking for columns
  builder,    \* builder[b]: where thread b is in build_columns
  dropping    \* where Drop for ColumnStore is

storeVars == <<kept, centre, leaving, held, pending, task, builder, dropping>>

Pending == [queue : Seq(Columns), claimed : SUBSET Columns, closed : BOOLEAN]

\* ring: moved, about to read what is cold around the new centre.  ask: inside
\* Warming::send before its snapshot.  offer: with the snapshot, before the
\* mutex.  notify: the mutex released, `owed` calls of notify_one to make.
\* warm: inside warm_columns, on a blocking thread, with `columns` to build.
Task == [ at      : {"idle", "ring", "ask", "offer", "notify", "warm"},
          columns : SUBSET Columns,
          owed    : Nat ]

\* look: about to lock Pending.  build: building `built`'s newest column.
\* fill, unclaim: the two halves of offer; lastFill and lastUnclaim are the
\* offer a closed queue ends with.
Builder == [ at    : {"look", "parked", "build", "fill", "unclaim",
                      "lastFill", "lastUnclaim", "ended"},
             built : SUBSET Columns ]

Idle == [at |-> "idle", columns |-> {}, owed |-> 0]
Asking(S) == IF S = {} THEN Idle ELSE [at |-> "ask", columns |-> S, owed |-> 0]

Queued == {pending.queue[i] : i \in DOMAIN pending.queue}

\* ColumnClaim::set sorts what it holds, and `ring` counts up through x and z:
\* whoever asks, a batch of columns is sent in the order of their keys, which
\* there is one of.
InKeyOrder(S) ==
  { q \in [1..Cardinality(S) -> S] :
      \A i, j \in 1..Cardinality(S) : i < j => q[i] < q[j] }

-----------------------------------------------------------------------------
StoreInit ==
  /\ Init
  /\ pending = [queue |-> <<>>, claimed |-> {}, closed |-> FALSE]
  /\ task = [h \in Holders |-> Idle]
  /\ builder = [b \in Builders |-> [at |-> "look", built |-> {}]]
  /\ dropping = "no"

(***************************************************************************)
(* Taking claims.  A session's first ring comes with its join, which warms *)
(* it itself; every later one is asked for.                                *)
(***************************************************************************)
\* moved, up to the second lock acquisition of move_to.
MoveTo(s, p) ==
  /\ task[s].at = "idle"
  /\ Hold(s, p)
  /\ task' = [task EXCEPT ![s].at = IF centre[s] = None THEN "idle" ELSE "ring"]
  /\ UNCHANGED <<pending, builder, dropping>>

LeaveRing(s) ==
  /\ LeaveOld(s)
  /\ UNCHANGED <<pending, task, builder, dropping>>

\* Source::want_ring, whose list goes to Warming::send.
WantRing(s) ==
  /\ task[s].at = "ring"
  /\ leaving[s] = None
  /\ task' = [task EXCEPT ![s] = Asking(Cold(kept, Ring[centre[s]]))]
  /\ UNCHANGED <<kept, centre, leaving, held, pending, builder, dropping>>

\* ColumnClaim::set: only what is new to the claim is sent.
Claim(h, wanted) ==
  /\ task[h].at = "idle"
  /\ SetClaim(h, wanted)
  /\ task' = [task EXCEPT ![h] = Asking(wanted \ held[h])]
  /\ UNCHANGED <<pending, builder, dropping>>

\* A session ends, or a ticker is dropped.  None of the steps of `send` is at
\* an await, so the guards are dropped between calls or while a join waits for
\* its blocking thread.
EndResidence(s) ==
  /\ task[s].at \in {"idle", "warm"}
  /\ DropResidence(s)
  /\ UNCHANGED <<pending, task, builder, dropping>>

EndClaim(h) ==
  /\ task[h].at \in {"idle", "warm"}
  /\ DropClaim(h)
  /\ UNCHANGED <<pending, task, builder, dropping>>

(***************************************************************************)
(* Warming::send.                                                          *)
(***************************************************************************)
\* The snapshot of what is cold, under the residency's read lock.
Snapshot(h) ==
  /\ task[h].at = "ask"
  /\ LET cold == Cold(kept, task[h].columns)
     IN  task' = [task EXCEPT ![h] = IF cold = {} THEN Idle
                                     ELSE [@ EXCEPT !.at = "offer", !.columns = cold]]
  /\ UNCHANGED <<kept, centre, leaving, held, pending, builder, dropping>>

\* A slip: the columns are queued and nobody is woken for them.
EnqueueSilently(h) ==
  /\ task[h].at = "offer"
  /\ LET new == task[h].columns \ pending.claimed
     IN  \E order \in InKeyOrder(new) :
           pending' = IF pending.closed THEN pending
                      ELSE [pending EXCEPT !.queue = @ \o order, !.claimed = @ \cup new]
  /\ task' = [task EXCEPT ![h] = Idle]
  /\ UNCHANGED <<kept, centre, leaving, held, builder, dropping>>

\* Under the mutex: what nobody is going to build already goes in the queue.
Enqueue(h) ==
  /\ task[h].at = "offer"
  /\ LET new == task[h].columns \ pending.claimed
     IN  IF pending.closed \/ new = {}
         THEN /\ task' = [task EXCEPT ![h] = Idle]
              /\ UNCHANGED pending
         ELSE /\ \E order \in InKeyOrder(new) :
                   pending' = [pending EXCEPT !.queue = @ \o order, !.claimed = @ \cup new]
              /\ task' = [task EXCEPT ![h] = [ at |-> "notify", columns |-> {},
                                               owed |-> Cardinality(new) ]]
  /\ UNCHANGED <<kept, centre, leaving, held, builder, dropping>>

\* Condvar::notify_one, once per column added, with the mutex released: some
\* parked builder wakes, if there is one.
Notify(h) ==
  /\ task[h].at = "notify"
  /\ task' = [task EXCEPT ![h] =
                 IF @.owed = 1 THEN Idle ELSE [@ EXCEPT !.owed = task[h].owed - 1]]
  /\ \/ \E b \in Builders : /\ builder[b].at = "parked"
                            /\ builder' = [builder EXCEPT ![b].at = "look"]
     \/ /\ \A b \in Builders : builder[b].at # "parked"
        /\ UNCHANGED builder
  /\ UNCHANGED <<kept, centre, leaving, held, pending, dropping>>

(***************************************************************************)
(* Source::warm_columns: a join builds its first columns on a blocking     *)
(* thread and fills them in a batch at a time, past the queue.             *)
(***************************************************************************)
WarmSnapshot(s) ==
  /\ task[s].at = "idle"
  /\ Cold(kept, held[s]) # {}
  /\ task' = [task EXCEPT ![s] = [at |-> "warm", columns |-> Cold(kept, held[s]), owed |-> 0]]
  /\ UNCHANGED <<kept, centre, leaving, held, pending, builder, dropping>>

WarmFill(s) ==
  /\ task[s].at = "warm"
  /\ \E run \in SUBSET task[s].columns :
       /\ \/ Cardinality(run) = FillBatch
          \/ run = task[s].columns /\ Cardinality(run) < FillBatch
       /\ FillMany(run)
       /\ task' = [task EXCEPT ![s] =
                     IF run = @.columns THEN Idle
                     ELSE [@ EXCEPT !.columns = task[s].columns \ run]]
  /\ UNCHANGED <<pending, builder, dropping>>

(***************************************************************************)
(* build_columns.                                                          *)
(***************************************************************************)
\* A slip: a column stops being claimed when it leaves the queue.
LookUnclaiming(b) ==
  /\ builder[b].at = "look"
  /\ ~pending.closed /\ pending.queue # <<>>
  /\ pending' = [pending EXCEPT !.queue = Tail(@), !.claimed = @ \ {Head(pending.queue)}]
  /\ builder' = [builder EXCEPT ![b] =
                      [at |-> "build", built |-> @.built \cup {Head(pending.queue)}]]
  /\ UNCHANGED <<kept, centre, leaving, held, task, dropping>>

\* A slip: a builder parks with a partial batch in its hands.
LookHoarding(b) ==
  /\ builder[b].at = "look"
  /\ \/ /\ pending.closed
        /\ builder' = [builder EXCEPT ![b].at =
                         IF builder[b].built = {} THEN "ended" ELSE "lastFill"]
        /\ UNCHANGED pending
     \/ /\ ~pending.closed /\ pending.queue # <<>>
        /\ pending' = [pending EXCEPT !.queue = Tail(@)]
        /\ builder' = [builder EXCEPT ![b] =
                      [at |-> "build", built |-> @.built \cup {Head(pending.queue)}]]
     \/ /\ ~pending.closed /\ pending.queue = <<>>
        /\ builder' = [builder EXCEPT ![b].at = "parked"]
        /\ UNCHANGED pending
  /\ UNCHANGED <<kept, centre, leaving, held, task, dropping>>

\* One acquisition of the mutex: end, take the front of the queue, offer a
\* partial batch, or park -- in that order.
Look(b) ==
  /\ builder[b].at = "look"
  /\ \/ /\ pending.closed
        /\ builder' = [builder EXCEPT ![b].at =
                         IF builder[b].built = {} THEN "ended" ELSE "lastFill"]
        /\ UNCHANGED pending
     \/ /\ ~pending.closed
        /\ pending.queue # <<>>
        /\ pending' = [pending EXCEPT !.queue = Tail(@)]
        /\ builder' = [builder EXCEPT ![b] =
                      [at |-> "build", built |-> @.built \cup {Head(pending.queue)}]]
     \/ /\ ~pending.closed
        /\ pending.queue = <<>>
        /\ builder' = [builder EXCEPT ![b].at =
                         IF builder[b].built # {} THEN "fill" ELSE "parked"]
        /\ UNCHANGED pending
  /\ UNCHANGED <<kept, centre, leaving, held, task, dropping>>

\* A column built with no lock held; a full batch is offered at once.
Build(b) ==
  /\ builder[b].at = "build"
  /\ builder' = [builder EXCEPT ![b].at =
                   IF Cardinality(builder[b].built) = FillBatch THEN "fill" ELSE "look"]
  /\ UNCHANGED <<kept, centre, leaving, held, pending, task, dropping>>

\* offer, first half: the batch goes into the map, under its write lock.
OfferFill(b) ==
  /\ builder[b].at \in {"fill", "lastFill"}
  /\ FillMany(builder[b].built)
  /\ builder' = [builder EXCEPT ![b].at = IF @ = "fill" THEN "unclaim" ELSE "lastUnclaim"]
  /\ UNCHANGED <<pending, task, dropping>>

\* offer, second half: the mutex again, and the columns are free to be asked for.
OfferUnclaim(b) ==
  /\ builder[b].at \in {"unclaim", "lastUnclaim"}
  /\ pending' = [pending EXCEPT !.claimed = @ \ builder[b].built]
  /\ builder' = [builder EXCEPT ![b] =
                   [at |-> IF @.at = "unclaim" THEN "look" ELSE "ended", built |-> {}]]
  /\ UNCHANGED <<kept, centre, leaving, held, task, dropping>>

\* std's Condvar may wake a waiter that nobody notified.
SpuriousWake(b) ==
  /\ builder[b].at = "parked"
  /\ builder' = [builder EXCEPT ![b].at = "look"]
  /\ UNCHANGED <<kept, centre, leaving, held, pending, task, dropping>>

(***************************************************************************)
(* Drop for ColumnStore: the flag, the wake-up, the joins.                 *)
(***************************************************************************)
CloseQueue ==
  /\ dropping = "no"
  /\ pending' = [pending EXCEPT !.closed = TRUE]
  /\ dropping' = "notify"
  /\ UNCHANGED <<kept, centre, leaving, held, task, builder>>

\* A slip: closing wakes one builder.
NotifyOnlyOne ==
  /\ dropping = "notify"
  /\ \/ \E b \in Builders : /\ builder[b].at = "parked"
                            /\ builder' = [builder EXCEPT ![b].at = "look"]
     \/ (\A b \in Builders : builder[b].at # "parked") /\ UNCHANGED builder
  /\ dropping' = "join"
  /\ UNCHANGED <<kept, centre, leaving, held, pending, task>>

\* Condvar::notify_all.
NotifyAll ==
  /\ dropping = "notify"
  /\ builder' = [b \in Builders |->
                   IF builder[b].at = "parked" THEN [builder[b] EXCEPT !.at = "look"]
                                               ELSE builder[b]]
  /\ dropping' = "join"
  /\ UNCHANGED <<kept, centre, leaving, held, pending, task>>

JoinBuilders ==
  /\ dropping = "join"
  /\ \A b \in Builders : builder[b].at = "ended"
  /\ dropping' = "done"
  /\ UNCHANGED <<kept, centre, leaving, held, pending, task, builder>>

-----------------------------------------------------------------------------
SessionStep(s) ==
  \/ \E p \in Centres : MoveTo(s, p)
  \/ LeaveRing(s) \/ WantRing(s)
  \/ EndResidence(s)
  \/ WarmSnapshot(s) \/ WarmFill(s)

ClaimStep(h) ==
  \/ \E wanted \in SUBSET Columns : Claim(h, wanted)
  \/ EndClaim(h)
  \/ Snapshot(h) \/ Enqueue(h) \/ Notify(h)

BuilderStep(b) == Look(b) \/ Build(b) \/ OfferFill(b) \/ OfferUnclaim(b)

DropStep == CloseQueue \/ NotifyAll \/ JoinBuilders

StoreNext ==
  \/ \E s \in Sessions : SessionStep(s)
  \/ \E h \in Holders : ClaimStep(h)
  \/ \E b \in Builders : BuilderStep(b) \/ SpuriousWake(b)
  \/ DropStep

StoreSafety == StoreInit /\ [][StoreNext]_storeVars

(***************************************************************************)
(* Fairness: a thread that can run runs, and a call that was started is    *)
(* finished.  Nothing is assumed of when a claim is taken or given up, of  *)
(* spurious wake-ups, or of whether the store is ever dropped.             *)
(***************************************************************************)
StoreFairness ==
  /\ \A b \in Builders : WF_storeVars(BuilderStep(b))
  /\ \A h \in Holders : WF_storeVars(Snapshot(h) \/ Enqueue(h) \/ Notify(h))
  /\ \A s \in Sessions : WF_storeVars(LeaveRing(s) \/ WantRing(s) \/ WarmFill(s))
  /\ WF_storeVars(NotifyAll \/ JoinBuilders)

StoreSpec == StoreSafety /\ StoreFairness

-----------------------------------------------------------------------------
StoreTypeOK ==
  /\ TypeOK
  /\ pending \in Pending
  /\ task \in [Holders -> Task]
  /\ builder \in [Builders -> Builder]
  /\ dropping \in {"no", "notify", "join", "done"}

\* `claimed` is exactly the columns still queued and the ones a builder has
\* taken and not finished offering: a column in neither would never be built
\* again, and one missing from it would be built twice (source.rs, Pending).
ClaimedExact ==
  pending.claimed = Queued \cup UNION {builder[b].built : b \in Builders}

\* No column is queued twice, queued while it is being built, or built by two
\* builders at once (source.rs, the in-flight half of `claimed`).
NoDuplicateWork ==
  /\ \A i, j \in DOMAIN pending.queue :
       pending.queue[i] = pending.queue[j] => i = j
  /\ \A b \in Builders :
       /\ builder[b].built \cap Queued = {}
       /\ \A d \in Builders \ {b} : builder[b].built \cap builder[d].built = {}

\* There is never work in the queue with every builder asleep and nobody about
\* to wake one, nor a builder asleep on a queue that has been closed: the
\* notification comes after the mutex is released and is still never lost.
NoLostWakeup ==
  /\ (Queued # {} /\ \A b \in Builders : builder[b].at \in {"parked", "ended"})
       => \/ \E h \in Holders : task[h].at = "notify"
          \/ pending.closed
  /\ (pending.closed /\ \E b \in Builders : builder[b].at = "parked")
       => dropping = "notify"

\* A parked builder keeps nothing: no partial batch waits for a column that is
\* not coming (source.rs, build_columns).
ParkedHoldsNothing ==
  \A b \in Builders : builder[b].at \in {"parked", "ended"} => builder[b].built = {}

\* A column that somebody keeps holding through a ColumnClaim is built, or the
\* store is going away: a stream paced by the builders is never left looking
\* at a hole (source.rs, build_columns and built_prefix).
ClaimedColumnIsBuilt ==
  \A h \in Holders : \A c \in Columns :
    (c \in held[h]) ~> (c \in kept.built \/ c \notin held[h] \/ pending.closed)

\* A holder that has asked for what it holds "finds the column built rather than
\* finding it neither built nor claimed" (source.rs, offer): nothing that is held
\* is cold with nobody about to build it.
HeldIsBuiltOrClaimed ==
  ~pending.closed =>
    \A h \in Holders :
      task[h].at = "idle" => held[h] \subseteq kept.built \cup pending.claimed

\* Dropping the store ends every builder: the join cannot hang.
DropEnds == (dropping = "notify") ~> (dropping = "done")
=============================================================================
