------------------------------- MODULE Portal -------------------------------
(***************************************************************************)
(* The smaller components of the server beside one another.  They share    *)
(* nothing but the items table, so a behaviour is about one of them:       *)
(* 'scene' says which, and the variables of the others stay as they are    *)
(* initially.                                                              *)
(*                                                                         *)
(*   PageScenes  Pages; a run may bound each of these scenes in its way     *)
(*   drawer      Drawer                                                    *)
(*   bulk        Bulk                                                      *)
(*   sidebar     Navigation                                                *)
(*   discovery   Discovery                                                 *)
(***************************************************************************)
EXTENDS Pages

CONSTANTS
    PageScenes,                             \* names of scenes about the pages
    Root, Seasons, Trees, PageSize,         \* of Bulk
    NavPages, TTL, Timeout, MaxCfg,         \* of Navigation
    MaxResources, MaxConns, Budgets         \* of Discovery

ASSUME ScenesAssumption == PageScenes \cap {"drawer", "bulk", "sidebar", "discovery"} = {}

\* Upstream holds shows of seasons and episodes, and pages are not empty.
ASSUME BulkAssumption ==
    /\ Trees \subseteq [{Root} \cup Seasons -> Seq(Seasons \cup Keys)]
    /\ ({Root} \cup Seasons) \cap Keys = {}
    /\ PageSize \in Nat \ {0}

ASSUME NavAssumption ==
    /\ TTL \in Nat /\ Timeout \in Nat /\ MaxCfg \in Nat \ {0}
    /\ NavPages \cap {"monitor", "reconnect"} = {}
ASSUME DiscoveryAssumption == MaxConns \in Nat /\ Budgets \subseteq Nat

VARIABLES
    scene,
    tree, call, dialog, owed, changed,                                  \* Bulk
    open, body, ajax, waiting, reopened, failed,                        \* Drawer
    up, cur, user, health, nav, calls, save, replaced, late,            \* Navigation
    resources, opts, step, server, conns, left, reached, chosen         \* Discovery

pageVars == <<page, req, poll, there>>
bulkVars == <<tree, call, dialog, owed, changed>>
drawerVars == <<open, body, ajax, waiting, reopened, failed>>
sidebarVars == <<up, cur, user, health, nav, calls, save, replaced, late>>
discoveryVars == <<resources, opts, step, server, conns, left, reached, chosen>>
portalVars == <<scene, tableVars, pageVars, bulkVars, drawerVars, sidebarVars, discoveryVars>>

B == INSTANCE Bulk
D == INSTANCE Drawer
N == INSTANCE Navigation WITH Pages <- NavPages
F == INSTANCE Discovery

-----------------------------------------------------------------------------
PagesRest ==
    /\ page = [at |-> "browse", rows |-> Nothing, notices |-> {}]
    /\ req = Idle /\ poll = NoPoll /\ there = {}
BulkRest ==
    /\ tree = <<>> /\ call = B!NoCall /\ dialog = B!NoDialog /\ owed = {} /\ changed = FALSE
DiscoveryRest ==
    /\ resources = <<>> /\ opts = <<>> /\ step = "select" /\ server = F!NoServer
    /\ conns = <<>> /\ left = 0 /\ reached = <<>> /\ chosen = 0

PortalInit ==
    /\ scene \in PageScenes \cup {"drawer", "bulk", "sidebar", "discovery"}
    /\ IF scene \in PageScenes THEN Init ELSE B!TableInit /\ PagesRest
    /\ IF scene = "bulk" THEN B!Init ELSE BulkRest
    /\ D!Init
    /\ N!Init /\ (scene # "sidebar" => up)
    /\ IF scene = "discovery" THEN F!Init ELSE DiscoveryRest

PortalNext ==
    \/ /\ scene \in PageScenes /\ Next
       /\ UNCHANGED <<scene, bulkVars, drawerVars, sidebarVars, discoveryVars>>
    \/ /\ scene = "bulk" /\ B!Next
       /\ UNCHANGED <<scene, pageVars, drawerVars, sidebarVars, discoveryVars>>
    \/ /\ scene = "drawer" /\ D!Next
       /\ UNCHANGED <<scene, tableVars, pageVars, bulkVars, sidebarVars, discoveryVars>>
    \/ /\ scene = "sidebar" /\ N!Next
       /\ UNCHANGED <<scene, tableVars, pageVars, bulkVars, drawerVars, discoveryVars>>
    \/ /\ scene = "discovery" /\ F!Next
       /\ UNCHANGED <<scene, tableVars, pageVars, bulkVars, drawerVars, sidebarVars>>

PortalSpec == PortalInit /\ [][PortalNext]_portalVars

-----------------------------------------------------------------------------
(* The properties of the components.                                       *)

\* The type invariant of the component that the scene is about.
PortalTypeOK ==
    /\ TypeOK
    /\ scene = "bulk" => B!TypeOK
    /\ scene = "drawer" => D!TypeOK
    /\ scene = "sidebar" => N!TypeOK
    /\ scene = "discovery" => F!TypeOK

\* Bulk: a call leaves out nothing that it had to handle.
LeavesNothingOut == B!LeavesNothingOut

\* Bulk: a call does what its dialog said, and evicts no row that is being
\* downloaded, however long ago it read the rows.
DialogKeepsItsWord == B!DialogKeepsItsWord /\ B!BulkEvictSparesDownloads

\* Drawer: a closed drawer does not poll.
ClosedDrawerIsQuiet == D!ClosedDrawerIsQuiet

\* Drawer: an open one is filled.
OpenDrawerFills == D!OpenDrawerFills

\* Navigation: old libraries are shown for a bounded time.
BoundedStaleness == N!BoundedStaleness

\* Navigation: and only if a page was asking for them when the save came.
SavedIsShown == N!SavedIsShown

\* Navigation: outages and cancelled requests are made good.
HealthRecovers == N!HealthRecovers

\* Discovery: the best connection that answers.
PicksBest == F!PicksBest
=============================================================================
