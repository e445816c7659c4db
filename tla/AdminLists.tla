----------------------------- MODULE AdminLists -----------------------------
(***************************************************************************)
(* The lists of the admin pages (apps/ops-web/src/features/admin): the     *)
(* drivers, the devices with their tabs, and the reference data.  A page   *)
(* loads its list when it is opened, when a tab is chosen or the window    *)
(* gets the focus, and after every edit.  Loads are numbered as they are   *)
(* sent; nothing orders their answers.                                     *)
(*                                                                         *)
(* The data behind a list is the number of edits it has seen.  Resetting a *)
(* password, which no list shows, is left out.                             *)
(***************************************************************************)
EXTENDS Integers, FiniteSets

CONSTANTS
  DeviceTabs,   \* pending, active, revoked
  MaxLoads,     \* bound on the loads
  MaxRowEdits,  \* bound on the edits of this page
  MaxOthers     \* bound on the edits of others

ASSUME ListsAssumption ==
  /\ "pending" \in DeviceTabs
  /\ MaxLoads \in Nat \ {0} /\ MaxRowEdits \in Nat /\ MaxOthers \in Nat

VARIABLES
  section,   \* the page: drivers, devices or reference
  tab,       \* the tab chosen
  phase,     \* what the page shows: loading, ready or error
  busy,      \* the buttons of the rows are disabled
  list,      \* the rows: tab, version and number of the load that brought them, and what sent it
  loads,     \* loads under way
  sent,      \* loads sent so far
  rowEdits,  \* edits under way
  begun,     \* edits begun so far
  version,   \* edits the data has seen
  acked      \* history: the newest edit whose answer the page has had

listVars == <<section, tab, phase, busy, list, loads, sent, rowEdits, begun, version, acked>>

Sections == {"drivers", "devices", "reference"}
Unread == -1
Causes == {"page", "edit"}
Load(n, t, cause, frees) ==
  [no |-> n, tab |-> t, by |-> cause, frees |-> frees, version |-> Unread]
Rows(l) == [no |-> l.no, tab |-> l.tab, by |-> l.by, version |-> l.version]
NoRows(t) == [no |-> 0, tab |-> t, by |-> "page", version |-> 0]

ListsTypeOK ==
  LET loaded == [no : 0 .. MaxLoads, tab : DeviceTabs, by : Causes, version : Nat] IN
  /\ section \in Sections /\ tab \in DeviceTabs
  /\ phase \in {"loading", "ready", "error"} /\ busy \in BOOLEAN
  /\ list \in loaded
  /\ \A l \in loads : /\ l.no \in 1 .. sent /\ l.tab \in DeviceTabs
                      /\ l.by \in Causes /\ l.frees \in BOOLEAN /\ l.version \in Nat \cup {Unread}
  /\ sent \in 0 .. MaxLoads /\ begun \in 0 .. MaxRowEdits
  /\ \A e \in rowEdits : /\ e.no \in 1 .. begun /\ e.tab \in DeviceTabs
                         /\ e.guarded \in BOOLEAN /\ e.at \in Nat \cup {Unread}
  /\ version \in Nat /\ acked \in 0 .. version

-----------------------------------------------------------------------------
(* Loads *)

\* The drivers stay on the screen while they are loaded again.
PhaseWhile == IF section = "drivers" THEN phase ELSE "loading"

\* refresh() of the section.
StartLoad(t, cause, frees) ==
  /\ sent < MaxLoads
  /\ sent' = sent + 1
  /\ loads' = loads \cup {Load(sent + 1, t, cause, frees)}
  /\ phase' = PhaseWhile

\* The page is opened; of the devices the pending ones come first.
ListsInit ==
  /\ section \in Sections
  /\ tab = "pending"
  /\ phase = "loading" /\ busy = FALSE
  /\ list = NoRows(tab)
  /\ loads = {Load(1, tab, "page", FALSE)} /\ sent = 1
  /\ rowEdits = {} /\ begun = 0
  /\ version = 0 /\ acked = 0

\* The effect of the devices page on its tab.
ChooseTab(t) ==
  /\ section = "devices" /\ t # tab
  /\ tab' = t
  /\ StartLoad(t, "page", FALSE)
  /\ UNCHANGED <<section, busy, list, rowEdits, begun, version, acked>>

\* The devices page does not listen.
FocusList ==
  /\ section # "devices"
  /\ StartLoad(tab, "page", FALSE)
  /\ UNCHANGED <<section, tab, busy, list, rowEdits, begun, version, acked>>

ReadRows(l) ==
  /\ l \in loads /\ l.version = Unread
  /\ loads' = (loads \ {l}) \cup {[l EXCEPT !.version = version]}
  /\ UNCHANGED <<section, tab, phase, busy, list, sent, rowEdits, begun, version, acked>>

\* The edit that waited for the load is over.
EndLoad(l) ==
  /\ loads' = loads \ {l}
  /\ busy' = (busy /\ ~l.frees)
  /\ UNCHANGED <<section, tab, sent, rowEdits, begun, version, acked>>

\* Whichever answer comes sets the rows.
LandRows(l) ==
  /\ l \in loads /\ l.version # Unread
  /\ list' = Rows(l)
  /\ phase' = "ready"
  /\ EndLoad(l)

\* The rows of a section that has some stay, whatever its tab.
LoadFails(l) ==
  /\ l \in loads
  /\ phase' = IF section = "drivers" THEN "error" ELSE "ready"
  /\ EndLoad(l)
  /\ UNCHANGED list

-----------------------------------------------------------------------------
(* Edits *)

\* The rows are on the screen; a reference value is added beside them.
CanEdit == phase = "ready" \/ section = "reference"

\* Creating, assigning and revoking a driver do not make the page busy.
BeginEdit(guarded) ==
  /\ begun < MaxRowEdits /\ CanEdit
  /\ ~guarded => section = "drivers"
  /\ guarded => ~busy
  /\ begun' = begun + 1
  /\ rowEdits' = rowEdits \cup {[no |-> begun + 1, tab |-> tab, guarded |-> guarded, at |-> Unread]}
  /\ busy' = (busy \/ guarded)
  /\ UNCHANGED <<section, tab, phase, list, loads, sent, version, acked>>

CommitEdit(e) ==
  /\ e \in rowEdits /\ e.at = Unread
  /\ version' = version + 1
  /\ rowEdits' = (rowEdits \ {e}) \cup {[e EXCEPT !.at = version + 1]}
  /\ UNCHANGED <<section, tab, phase, busy, list, loads, sent, begun, acked>>

\* Mutant of HearEdit: the rows are not loaded again.
HearEditOnly(e) ==
  /\ e \in rowEdits /\ e.at # Unread
  /\ acked' = IF e.at > acked THEN e.at ELSE acked
  /\ rowEdits' = rowEdits \ {e}
  /\ busy' = FALSE
  /\ UNCHANGED <<section, tab, phase, list, loads, sent, begun, version>>

\* The rows are loaded again, of the tab that was chosen when the edit began.
HearEdit(e) ==
  /\ e \in rowEdits /\ e.at # Unread
  /\ acked' = IF e.at > acked THEN e.at ELSE acked
  /\ rowEdits' = rowEdits \ {e}
  /\ StartLoad(e.tab, "edit", e.guarded)
  /\ UNCHANGED <<section, tab, busy, list, begun, version>>

\* The api refuses, or its answer is lost.  Only the reference data is loaded again.
EditFails(e) ==
  /\ e \in rowEdits
  /\ rowEdits' = rowEdits \ {e}
  /\ IF section = "reference"
       THEN StartLoad(e.tab, "edit", e.guarded) /\ UNCHANGED busy
       ELSE busy' = (busy /\ ~e.guarded) /\ UNCHANGED <<phase, loads, sent>>
  /\ UNCHANGED <<section, tab, list, begun, version, acked>>

\* An edit of somebody else, or one of a page that was left.
OtherEdit ==
  /\ version < MaxRowEdits + MaxOthers
  /\ version' = version + 1
  /\ UNCHANGED <<section, tab, phase, busy, list, loads, sent, rowEdits, begun, acked>>

ListsNext ==
  \/ \E t \in DeviceTabs : ChooseTab(t)
  \/ FocusList
  \/ \E l \in loads : ReadRows(l) \/ LandRows(l) \/ LoadFails(l)
  \/ \E guarded \in BOOLEAN : BeginEdit(guarded)
  \/ \E e \in rowEdits : CommitEdit(e) \/ HearEdit(e) \/ EditFails(e)
  \/ OtherEdit

ListsSpec == ListsInit /\ [][ListsNext]_listVars

-----------------------------------------------------------------------------
(* Properties *)

\* The answer of the newest load was the last to come.
InOrder == loads = {} /\ rowEdits = {} /\ list.no = sent

\* Once nothing is under way, the rows know every edit the page was told of, and are those of
\* its tab, unless an older load was answered last, the newest failed, or the newest was sent
\* by an edit that began on another tab (DriversAdminSection.tsx, DevicesApprovalSection.tsx and
\* reference-sections.tsx, refresh).
ListIsCurrent == InOrder => list.version >= acked /\ (list.tab = tab \/ list.by = "edit")
=============================================================================
