----------------------------- MODULE StreamView -----------------------------
(***************************************************************************)
(* What one client has been sent (net/view.rs), and the passes of the      *)
(* session's chunk stream that keep it (net/session.rs, stream_inner).     *)
(*                                                                         *)
(* A session is one task: a pass runs to its end before anything else the  *)
(* session does, and a send that fails ends the session.  So a pass is one *)
(* step.  How much of a pass's window the column store has ready is not    *)
(* decided here: the pass may be cut anywhere (ColumnStore says when the   *)
(* ready prefix grows).                                                    *)
(***************************************************************************)
EXTENDS Integers, FiniteSets

CONSTANTS
  Places,   \* the columns the player may stand in, as <<x, z>>
  Ceiling,  \* SessionContext::view_distance, what the operator allows
  Asked,    \* the view distances clients ask for
  First,    \* JOIN_FIRST_COLUMNS
  Batch,    \* STREAM_BATCH
  CutAfter, \* bound: the turns after which a pass may be cut
  None      \* Option::None, the centre of a view that never moved

ASSUME ViewAssumption ==
  /\ Places \subseteq Int \X Int
  /\ Ceiling \in 1..32
  /\ Asked \subseteq Int
  /\ First \in Nat \ {0} /\ Batch \in Nat \ {0}
  /\ CutAfter \subseteq Nat
  /\ None \notin Places

VARIABLES
  view,     \* the server's record: View
  player,   \* the column of the position the session last believed
  client,   \* the columns sent to the client and not forgotten since
  narrowed  \* history: the view was narrowed, and no pass since has worked out
            \* what to send and what to forget

viewVars == <<view, player, client, narrowed>>

-----------------------------------------------------------------------------
(***************************************************************************)
(* View.                                                                   *)
(***************************************************************************)
Columns == Int \X Int

\* struct View.
Views == [loaded : SUBSET Columns, centre : Places \cup {None}, radius : 1..Ceiling]

\* View::square.
Square(p, r) == {<<p[1] + dx, p[2] + dz>> : dx \in -r..r, dz \in -r..r}

DistanceSquared(o) == o[1] * o[1] + o[2] * o[2]

\* Nearest first, and in the order of the BTreeSet where the sort is stable.
Before(o, u) ==
  \/ DistanceSquared(o) < DistanceSquared(u)
  \/ /\ DistanceSquared(o) = DistanceSquared(u)
     /\ o[1] < u[1] \/ (o[1] = u[1] /\ o[2] < u[2])

\* Turn[o]: how many columns of the widest square come before the one at offset
\* o from its centre, and that one.
Turn ==
  LET offsets == Square(<<0, 0>>, Ceiling)
  IN [o \in offsets |-> Cardinality({u \in offsets : Before(u, o)}) + 1]

Missing(v, p) == Square(p, v.radius) \ v.loaded

TurnFrom(c, p) == Turn[<<c[1] - p[1], c[2] - p[2]>>]

\* View::next: the columns in range that the client does not hold, nearest
\* first, cut off at some turn.
Next(v, p, cut) == {c \in Missing(v, p) : TurnFrom(c, p) <= cut}

\* A slip: a pass is taken to have sent the whole square.
MoveToCreditingAll(v, p, cut) ==
  LET sent == Next(v, p, cut)
      gone == v.loaded \ Square(p, v.radius)
  IN [ send |-> sent, forget |-> gone,
       view |-> [v EXCEPT !.centre = p, !.loaded = Square(p, v.radius)] ]

\* View::move_to_limited: what to send, what to forget, and the record of a
\* client that has been told.
MoveTo(v, p, cut) ==
  LET wanted == Square(p, v.radius)
      sent   == Next(v, p, cut)
      gone   == v.loaded \ wanted
  IN [ send |-> sent, forget |-> gone,
       view |-> [v EXCEPT !.centre = p, !.loaded = (@ \cap wanted) \cup sent] ]

\* A slip: a view that is a column short of its square is complete.
CompleteEarly(v, p) ==
  /\ v.centre = p
  /\ Cardinality(v.loaded) >= (2 * v.radius + 1) * (2 * v.radius + 1) - 1

\* View::complete: a comparison and a count.
Complete(v, p) ==
  /\ v.centre = p
  /\ Cardinality(v.loaded) = (2 * v.radius + 1) * (2 * v.radius + 1)

-----------------------------------------------------------------------------
(***************************************************************************)
(* stream_inner, with v the view it is called with: nothing at all for a   *)
(* view that says it is complete; else as much of the first `limit`        *)
(* columns as is built, and whatever is out of range forgotten.            *)
(***************************************************************************)
StreamPass(v, p, limit) ==
  /\ narrowed' = (Complete(v, p) /\ (narrowed \/ v.radius < view.radius))
  /\ IF Complete(v, p)
     THEN view' = v /\ UNCHANGED client
     ELSE \E cut \in CutAfter :
            LET change == MoveTo(v, p, cut)
            IN  /\ Cardinality(change.send) <= limit
                /\ view' = change.view
                /\ client' = (client \cup change.send) \ change.forget

\* View::with_radius and set_radius, of what the operator and the client allow.
Reach(asked) ==
  LET allowed == IF asked < Ceiling THEN asked ELSE Ceiling
  IN  IF allowed < 1 THEN 1 ELSE allowed

\* A client that never says, or asks for nothing, is given the ceiling.
Init ==
  /\ \E r \in {Ceiling} \cup {Reach(asked) : asked \in {a \in Asked : a > 0}} :
       view = [loaded |-> {}, centre |-> None, radius |-> r]
  /\ player \in Places
  /\ client = {}
  /\ narrowed = FALSE

\* The first columns, before the loading screen ends.
JoinPass ==
  /\ view.centre = None
  /\ StreamPass(view, player, First)
  /\ UNCHANGED player

\* The streaming interval of play_loop.
StreamTick ==
  /\ view.centre # None
  /\ StreamPass(view, player, Batch)
  /\ UNCHANGED player

\* `moved`, after a position the movement check accepted.
Moved(p) ==
  /\ view.centre # None
  /\ StreamPass(view, p, Batch)
  /\ player' = p

\* ClientInformation: View::set_radius and a pass.
SetRadius(asked) ==
  /\ view.centre # None
  /\ asked > 0
  /\ StreamPass([view EXCEPT !.radius = Reach(asked)], player, Batch)
  /\ UNCHANGED player

\* RecvError::Lagged on the edit channel: a fresh record of the same radius,
\* and a pass where the old one was centred.  The client is not told.
Lagged ==
  /\ view.centre # None
  /\ StreamPass([view EXCEPT !.loaded = {}, !.centre = None], view.centre, Batch)
  /\ UNCHANGED player

ViewNext ==
  \/ JoinPass \/ StreamTick
  \/ \E p \in Places : Moved(p)
  \/ \E asked \in Asked : SetRadius(asked)

\* A session that keeps up with the edits of others.
ViewSpec == Init /\ [][ViewNext]_viewVars

\* One that may not.
LagSpec == Init /\ [][ViewNext \/ Lagged]_viewVars

\* The interval fires for the life of the session, and the builders deliver:
\* a tick that could send or forget something is not put off for ever.
LiveLagSpec == LagSpec /\ WF_viewVars(JoinPass) /\ WF_viewVars(StreamTick)

-----------------------------------------------------------------------------
ViewTypeOK ==
  /\ view \in Views
  /\ player \in Places
  /\ client \subseteq Columns
  /\ narrowed \in BOOLEAN

\* The client holds everything the record says it holds, lag or no lag: a
\* column is never credited without being sent (view.rs, move_to_limited and
\* peek), and never forgotten without having been sent.
CreditedWasSent == view.loaded \subseteq client

\* The record is exactly what the client holds: "the record cannot drift from
\* the client's actual contents" (session.rs, where the view is made).
RecordIsClient == view.loaded = client

\* A view that says it is complete holds "everything a view centred on `centre`
\* reaches" (view.rs, complete): the pass that is skipped had nothing to do.  A
\* view that shrinks can make the count right and the set wrong.
CompleteIsWhole ==
  Complete(view, player) => view.loaded = Square(player, view.radius)

\* So it is unless the view was narrowed and every pass since was one `complete`
\* skipped: through moves, lags, cut passes and views that widen, and through one
\* that narrowed as soon as a pass has run.
CompleteUnlessNarrowed == ~narrowed => CompleteIsWhole

\* A column that is in range before and after a step is not taken from the
\* client: forgetting one "makes the client discard a column it is standing on"
\* (view.rs).
InRangeIsKept ==
  [][ view.centre # None =>
        client \cap Square(view.centre, view.radius)
               \cap Square(view'.centre, view'.radius) \subseteq client' ]_viewVars

\* The reaches a view can have.
Reaches == {Ceiling} \cup {Reach(asked) : asked \in Asked}

\* A session that stops lagging repairs what it had: a player who stands still
\* is credited again with every column in range, each of them sent afresh -- unless
\* the view was narrowed and no pass has run since.
LagIsRepaired ==
  <>[][ViewNext]_viewVars =>
    \A p \in Places : \A r \in Reaches :
      (player = p /\ view.radius = r) ~>
        (view.loaded = Square(p, r) \/ player # p \/ view.radius # r \/ narrowed)
=============================================================================
