----------------------------- MODULE DashboardWidgets -----------------------------
(***************************************************************************)
(* The widgets that administrators place on the dashboard, in one order that  *)
(* positions keep; positions are unique.  A move locks the rows it read,      *)
(* shifts every row out of the way and numbers the ones it knows.  What the    *)
(* registry says of a release (PluginRegistry) stops a request or lets it go   *)
(* on; rows and their revisions are what is at stake here.                   *)
(***************************************************************************)
EXTENDS Integers, FiniteSets, Sequences, SequencesExt, Services

CONSTANTS
    Placements,            \* identifiers of placements
    MaxPlacementRevision,  \* bound on revisions
    Offset,                \* 1000000: how far a move shifts every row
    MaxPosition            \* bound on positions, modulo Offset

VARIABLES
    placement,  \* plugins.dashboard_widget_placement
    drawn,      \* the identifiers that were drawn: each is a new UUID
    form        \* the requests in flight

dashboardVars == <<placement, drawn, form>>

Revisions == 1..MaxPlacementRevision

Row == [position : Nat, enabled : BOOLEAN, revision : Revisions]

\* No dashboard has as many rows as a move shifts them by.
ASSUME DashboardAssumption ==
    /\ None \notin Placements \cup Row
    /\ IsFiniteSet(Placements) /\ Cardinality(Placements) <= Offset
    /\ MaxPlacementRevision \in Nat \ {0} /\ MaxPosition \in Nat
    /\ Offset \in Nat /\ Offset > MaxPosition

Form == [step : {"idle", "positioned", "listed", "observed", "ordered", "locked"},
         placement : Placements \cup {None}, enabled : BOOLEAN, position : Nat,
         order : Seq(Placements), revisions : [Placements -> Revisions \cup {None}]]

NoForm == [step |-> "idle", placement |-> None, enabled |-> FALSE, position |-> 0,
           order |-> <<>>, revisions |-> [w \in Placements |-> None]]

DashboardInit ==
    /\ placement = [w \in Placements |-> None]
    /\ drawn = {}
    /\ form = [p \in Requests |-> NoForm]

-----------------------------------------------------------------------------
Placed == {w \in Placements : placement[w] # None}

\* ORDER BY position: where positions are unique there is one such order.
ListPlacements ==
    {order \in [1..Cardinality(Placed) -> Placed] :
        \A i, j \in DOMAIN order :
            i < j => placement[order[i]].position < placement[order[j]].position}

Positions == {placement[w].position : w \in Placed}

RevisionsNow == [w \in Placements |-> IF placement[w] = None THEN None ELSE placement[w].revision]

\* COALESCE(MAX(position) + 1, 0), of the snapshot of the statement.
NextPosition == IF Positions = {} THEN 0 ELSE 1 + Max(Positions)

\* Mutant of Locked: SELECT without FOR UPDATE.
LocksNothing == {w \in Placed : FALSE}

\* The rows that a move has read FOR UPDATE and not committed yet.
Locked == UNION {ToSet(form[p].order) : p \in {q \in Requests : form[q].step = "locked"}}

Closed(p) == [form EXCEPT ![p] = NoForm]

\* A request is refused, or the server stops: a transaction is rolled back.  A move
\* also fails when a row it shifts meets one that it has not shifted yet.
EndForm(p) ==
    /\ form[p].step # "idle"
    /\ form' = Closed(p)
    /\ UNCHANGED <<placement, drawn>>

-----------------------------------------------------------------------------
(* Placement *)

\* The position is computed, then the row is stored under it or the statement fails.
BeginCreate(p) ==
    /\ form[p] = NoForm
    /\ NextPosition % Offset <= MaxPosition
    /\ form' = [form EXCEPT ![p] = [NoForm EXCEPT !.step = "positioned", !.position = NextPosition]]
    /\ UNCHANGED <<placement, drawn>>

CreateDashboardPlacement(p, w) ==
    /\ form[p].step = "positioned"
    /\ w \notin drawn
    /\ form[p].position \notin Positions
    /\ placement' = [placement EXCEPT ![w] =
          [position |-> form[p].position, enabled |-> TRUE, revision |-> 1]]
    /\ drawn' = drawn \cup {w}
    /\ form' = Closed(p)

\* The row is found in the list, and the release it pins is evaluated.
BeginUpdate(p, w, enabled) ==
    /\ form[p] = NoForm
    /\ placement[w] # None
    /\ form' = [form EXCEPT ![p] = [NoForm EXCEPT
          !.step = "listed", !.placement = w, !.enabled = enabled,
          !.revisions = [NoForm.revisions EXCEPT ![w] = placement[w].revision]]]
    /\ UNCHANGED <<placement, drawn>>

\* UPDATE ... WHERE placement_id = $1 AND revision = $5.
UpdateDashboardPlacement(p) ==
    LET w == form[p].placement IN
    /\ form[p].step = "listed"
    /\ w \notin Locked
    /\ placement[w] # None /\ placement[w].revision = form[p].revisions[w]
    /\ placement[w].revision < MaxPlacementRevision
    /\ placement' = [placement EXCEPT ![w] =
          [@ EXCEPT !.enabled = form[p].enabled, !.revision = placement[w].revision + 1]]
    /\ form' = Closed(p)
    /\ UNCHANGED drawn

\* One statement, with the revision that the client saw.
DeleteDashboardPlacement(w) ==
    /\ placement[w] # None
    /\ w \notin Locked
    /\ placement' = [placement EXCEPT ![w] = None]
    /\ UNCHANGED <<drawn, form>>

-----------------------------------------------------------------------------
(* Moves *)

\* The client reads the dashboard; its move quotes all the revisions it saw.
Observe(p) ==
    /\ form[p] = NoForm
    /\ Placed # {}
    /\ form' = [form EXCEPT ![p] = [NoForm EXCEPT !.step = "observed", !.revisions = RevisionsNow]]
    /\ UNCHANGED <<placement, drawn>>

\* At the ends nothing trades places, and the order is written all the same.
Swapped(order, i, j) ==
    IF j \in DOMAIN order THEN [order EXCEPT ![i] = order[j], ![j] = order[i]] ELSE order

\* The order is the server's, of another moment than the client's revisions; Reorder
\* wants one revision for each placement of it.
Move(p, w, delta) ==
    /\ form[p].step = "observed"
    /\ placement[w] # None
    /\ {v \in Placements : form[p].revisions[v] # None} = Placed
    /\ \E order \in ListPlacements : \E i \in DOMAIN order :
          /\ order[i] = w
          /\ form' = [form EXCEPT ![p] = [@ EXCEPT !.step = "ordered",
                !.order = Swapped(order, i, i + delta)]]
    /\ UNCHANGED <<placement, drawn>>

\* SELECT ... FOR UPDATE: as many rows as the order has, each as it was seen.
LockPlacements(p) ==
    LET order == form[p].order IN
    /\ form[p].step = "ordered"
    /\ ToSet(order) \cap Locked = {}
    /\ Cardinality(Placed) = Len(order)
    /\ \A w \in ToSet(order) : placement[w] # None /\ placement[w].revision = form[p].revisions[w]
    /\ form' = [form EXCEPT ![p] = [@ EXCEPT !.step = "locked"]]
    /\ UNCHANGED <<placement, drawn>>

Numbered(row, n) == [row EXCEPT !.position = n, !.revision = row.revision + 1]

Shifted(row) == [row EXCEPT !.position = row.position + Offset]

\* Every row is shifted, those that were stored after the lock too; then the rows
\* of the order are numbered.
CommitOrder(p) ==
    LET order == form[p].order IN
    /\ form[p].step = "locked"
    /\ {n + Offset : n \in Positions} \cap Positions = {}
    /\ \A w \in ToSet(order) \cap Placed : placement[w].revision < MaxPlacementRevision
    /\ placement' = [w \in Placements |->
          CASE placement[w] = None -> None
            [] placement[w] # None /\ w \in ToSet(order) ->
                  Numbered(placement[w], (CHOOSE i \in DOMAIN order : order[i] = w) - 1)
            [] OTHER -> Shifted(placement[w])]
    /\ form' = Closed(p)
    /\ UNCHANGED drawn

-----------------------------------------------------------------------------
DashboardNext ==
    \/ \E w \in Placements : DeleteDashboardPlacement(w)
    \/ \E p \in Requests :
          \/ BeginCreate(p)
          \/ Observe(p)
          \/ \E w \in Placements :
                \/ CreateDashboardPlacement(p, w)
                \/ \E enabled \in BOOLEAN : BeginUpdate(p, w, enabled)
                \/ \E delta \in {-1, 1} : Move(p, w, delta)
          \/ UpdateDashboardPlacement(p)
          \/ LockPlacements(p)
          \/ CommitOrder(p)
          \/ EndForm(p)

DashboardSpec == DashboardInit /\ [][DashboardNext]_dashboardVars

-----------------------------------------------------------------------------
(* Properties *)

\* Every variable of the dashboard has its type.
DashboardTypeOK ==
    /\ placement \in [Placements -> Row \cup {None}]
    /\ drawn \in SUBSET Placements
    /\ form \in [Requests -> Form]

\* Positions order the dashboard, whichever creations and moves race: no two rows
\* share one, and the rows a move is about to number all are there as it saw them.
OrderIsTotal ==
    /\ \A v, w \in Placed : placement[v].position = placement[w].position => v = w
    /\ \A p \in Requests : form[p].step = "locked" =>
          \A w \in ToSet(form[p].order) :
              placement[w] # None /\ placement[w].revision = form[p].revisions[w]

=============================================================================
