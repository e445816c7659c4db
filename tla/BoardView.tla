------------------------------ MODULE BoardView ------------------------------
(***************************************************************************)
(* The dispatch board of one browser tab (apps/ops-web/src/features/       *)
(* dispatch: DispatchView, the create form in its drawer, the create       *)
(* action, the loader of a page) over the projection that GET              *)
(* /dispatch/board/page reads.                                             *)
(*                                                                         *)
(* The optimistic rows and the number of the order just created live in    *)
(* the component, so they are lost with the document; links, tabs, pages   *)
(* and searches all load a new one.  The create form lives in the drawer   *)
(* and hears its answer only while the drawer is open.  The router of      *)
(* Next.js, which is external, runs server actions and refreshes one after *)
(* the other.                                                              *)
(***************************************************************************)
EXTENDS Integers, SequencesExt

CONSTANTS
  Orders,    \* each with its road run
  NoOrder,
  Planned,   \* Planned[o]: planned_start_at
  Terms,     \* searches: the orders each of them matches
  PageSize,
  LastPage,  \* bound on the pages the dispatcher opens
  MaxForms,  \* bound on the times the drawer is opened
  MaxQueue   \* bound on what focusing the window adds to the router's queue

ASSUME BoardAssumption ==
  /\ IsFiniteSet(Orders) /\ NoOrder \notin Orders
  /\ Planned \in [Orders -> Nat]
  /\ Terms \subseteq SUBSET Orders
  /\ {PageSize, LastPage, MaxForms, MaxQueue} \subseteq Nat \ {0}

VARIABLES
  run,         \* run[o]: state of the road run, by status group
  projection,  \* projection[o]: its row of dispatch_board_projection
  url,         \* group, page and search of the URL
  shown,       \* initialRuns
  sticky,      \* stickyRuns
  told,        \* createdRef
  form,        \* the create form in the drawer: closed, open, or sent
  forms,       \* forms so far; the last one is in the drawer
  queue,       \* the router's queue; its head is under way
  heard,       \* history: orders that the board was told of with driver and vehicle
  listed       \* history: orders whose real row this document has shown

viewVars == <<run, projection, url, shown, sticky, told, form, forms, queue, heard, listed>>

dataVars == <<run, projection>>
formVars == <<form, forms>>

Groups == {"active", "finished", "cancelled"}
RowStates == Groups \cup {"absent"}
Views == [group : Groups, page : 1 .. LastPage, match : Terms]

Refresh == [does |-> "refresh", form |-> 0, made |-> NoOrder]
Create(n, o) == [does |-> "create", form |-> n, made |-> o]
Refusal(n) == [does |-> "refused", form |-> n, made |-> NoOrder]

BoardTypeOK ==
  /\ run \in [Orders -> RowStates] /\ projection \in [Orders -> RowStates]
  /\ url \in Views
  /\ shown \subseteq Orders /\ sticky \subseteq Orders
  /\ told \in Orders \cup {NoOrder}
  /\ form \in {"closed", "open", "sent"} /\ forms \in 0 .. MaxForms
  /\ queue \in Seq([does : {"refresh", "create", "refused"}, form : 0 .. MaxForms,
                    made : Orders \cup {NoOrder}])
  /\ heard \subseteq Orders /\ listed \subseteq Orders

-----------------------------------------------------------------------------
(* What the api answers *)

Matching(v) == {o \in v.match : projection[o] = v.group}

\* ORDER BY planned_start_at: rows of one date come in any order.
Orderings(rows) ==
  {q \in SetToSeqs(rows) : \A i, j \in DOMAIN q : i < j => Planned[q[i]] <= Planned[q[j]]}

\* LIMIT and OFFSET
Slice(q, page) ==
  ToSet(SubSeq(q, (page - 1) * PageSize + 1, IF Len(q) < page * PageSize THEN Len(q) ELSE page * PageSize))

Slices(v) == {Slice(q, v.page) : q \in Orderings(Matching(v))}

-----------------------------------------------------------------------------
(* The document *)

\* What DispatchView holds of its own is empty in a new document.
FreshDocument ==
  /\ sticky' = {} /\ told' = NoOrder /\ form' = "closed" /\ queue' = <<>>
  /\ heard' = {} /\ listed' = shown'

BoardInit ==
  /\ run = [o \in Orders |-> "absent"] /\ projection = [o \in Orders |-> "absent"]
  /\ url \in {v \in Views : v.group = "active" /\ v.page = 1 /\ v.match = Orders}
  /\ shown = {} /\ sticky = {} /\ told = NoOrder
  /\ form = "closed" /\ forms = 0
  /\ queue = <<>>
  /\ heard = {} /\ listed = {}

\* A tab, a page, a search, a reload, or the way back from an error.  A create that was under
\* way may still be served; it is then as anybody's.
Browse(v) ==
  /\ url' = v
  /\ shown' \in Slices(v)
  /\ FreshDocument
  /\ UNCHANGED <<dataVars, forms>>

\* Mutant of Pruned: the optimistic rows last until the next rows of the server.
PrunedAll(optimistic, rows) == {}

\* The effect that runs whenever the rows of the server or the optimistic ones change.
Pruned(optimistic, rows) == optimistic \ rows

\* The refresh at the head of the queue brings the rows of the page as they now are.
ApplyRefresh ==
  /\ queue # <<>> /\ Head(queue) = Refresh
  /\ shown' \in Slices(url)
  /\ sticky' = Pruned(sticky, shown')
  /\ listed' = listed \cup shown'
  /\ queue' = Tail(queue)
  /\ UNCHANGED <<dataVars, url, told, formVars, heard>>

\* The window gets the focus again.
Focus ==
  /\ Len(queue) < MaxQueue
  /\ queue' = Append(queue, Refresh)
  /\ UNCHANGED <<dataVars, url, shown, sticky, told, formVars, heard, listed>>

-----------------------------------------------------------------------------
(* The create form *)

OpenDrawer ==
  /\ form = "closed" /\ forms < MaxForms
  /\ form' = "open" /\ forms' = forms + 1
  /\ UNCHANGED <<dataVars, url, shown, sticky, told, queue, heard, listed>>

\* Escape, a click outside or the button, also while the form waits: the form is unmounted.
CloseDrawer ==
  /\ form # "closed"
  /\ form' = "closed"
  /\ UNCHANGED <<dataVars, url, shown, sticky, told, forms, queue, heard, listed>>

\* The button is disabled while the form waits.
Submit ==
  /\ form = "open"
  /\ form' = "sent"
  /\ queue' = Append(queue, Create(forms, NoOrder))
  /\ UNCHANGED <<dataVars, url, shown, sticky, told, forms, heard, listed>>

UnderWay == queue # <<>> /\ Head(queue).does = "create" /\ Head(queue).made = NoOrder

ServeCreate(o) ==
  /\ UnderWay /\ run[o] = "absent"
  /\ run' = [run EXCEPT ![o] = "active"]
  /\ queue' = [queue EXCEPT ![1] = Create(@.form, o)]
  /\ UNCHANGED <<projection, url, shown, sticky, told, formVars, heard, listed>>

\* invalid, api_error or server_error
Refuse ==
  /\ UnderWay
  /\ queue' = [queue EXCEPT ![1] = Refusal(@.form)]
  /\ UNCHANGED <<dataVars, url, shown, sticky, told, formVars, heard, listed>>

\* The form that sent it is still in the drawer.
Mounted(n) == form = "sent" /\ forms = n

\* handleCreated: an optimistic row unless driver or vehicle were emptied meanwhile, the banner,
\* and the drawer closes.
AfterCreate(o) ==
  /\ told' = o /\ form' = "closed"
  /\ \/ sticky' = Pruned(sticky \cup {o}, shown) /\ heard' = heard \cup {o}
     \/ UNCHANGED <<sticky, heard>>

\* The form hears of its order; the board refreshes, and so does the form.
HearCreated ==
  /\ queue # <<>> /\ Head(queue).made # NoOrder /\ Mounted(Head(queue).form)
  /\ AfterCreate(Head(queue).made)
  /\ queue' = Tail(queue) \o <<Refresh, Refresh>>
  /\ UNCHANGED <<dataVars, url, shown, forms, listed>>

HearRefused ==
  /\ queue # <<>> /\ Head(queue).does = "refused" /\ Mounted(Head(queue).form)
  /\ form' = "open"
  /\ queue' = Tail(queue)
  /\ UNCHANGED <<dataVars, url, shown, sticky, told, forms, heard, listed>>

\* The drawer was closed, so nobody hears: no row, no number, and no refresh.
AnswerUnheard ==
  /\ queue # <<>> /\ Head(queue).does # "refresh" /\ ~UnderWay
  /\ ~Mounted(Head(queue).form)
  /\ queue' = Tail(queue)
  /\ UNCHANGED <<dataVars, url, shown, sticky, told, formVars, heard, listed>>

-----------------------------------------------------------------------------
(* Elsewhere *)

\* Another dispatcher, or a create of a document that has been left.
OtherCreates(o) ==
  /\ run[o] = "absent"
  /\ run' = [run EXCEPT ![o] = "active"]
  /\ UNCHANGED <<projection, url, shown, sticky, told, formVars, queue, heard, listed>>

\* The run is completed or cancelled.
EndRun(o) ==
  /\ run[o] = "active"
  /\ \E g \in {"finished", "cancelled"} : run' = [run EXCEPT ![o] = g]
  /\ UNCHANGED <<projection, url, shown, sticky, told, formVars, queue, heard, listed>>

\* The projection folds what it has not folded yet, event by event or several at once.
Project(o) ==
  /\ projection[o] # run[o]
  /\ \/ projection' = [projection EXCEPT ![o] = run[o]]
     \/ projection[o] = "absent" /\ projection' = [projection EXCEPT ![o] = "active"]
  /\ UNCHANGED <<run, url, shown, sticky, told, formVars, queue, heard, listed>>

BoardNext ==
  \/ \E v \in Views : Browse(v)
  \/ ApplyRefresh \/ Focus \/ OpenDrawer \/ CloseDrawer \/ Submit
  \/ Refuse \/ HearCreated \/ HearRefused \/ AnswerUnheard
  \/ \E o \in Orders : ServeCreate(o) \/ OtherCreates(o) \/ EndRun(o) \/ Project(o)

BoardSpec == BoardInit /\ [][BoardNext]_viewVars

-----------------------------------------------------------------------------
(* Properties *)

\* An order that the form told the board of, with driver and vehicle, stays on the screen until
\* its real row has been there, and is never there twice (DispatchView.tsx, mergeRuns and the
\* effect that prunes).
KnownOnce == heard \subseteq sticky \cup listed /\ sticky \cap shown = {}
=============================================================================
