------------------------------ MODULE MCPortal ------------------------------
(* Model-checking values and bounds for Portal.                            *)
EXTENDS Portal, TLC

CONSTANTS k1, k2, show, s1, p1

\* A show with a season of one episode; the other one may be added to it.
Shows == {(show :> <<s1>>) @@ (s1 :> <<k1>>)}

Opened == {k1, "browse", "queue", "storage"}

-----------------------------------------------------------------------------
(* The scenes about the pages: "page" has one item and every page, with    *)
(* liveness, and "two items" stale ids of either of them.                  *)

\* Nobody touches the second item.
OneItem ==
    /\ items'[k2] = items[k2]
    /\ req'.step \in {"act", "reread", "delete"} => req'.key = k1

\* Nobody opens another page than that of the first item, or downloads the second.
OnePage ==
    /\ req'.step = "idle" \/ req'.at = k1
    /\ items'[k2].status \in {"none", "queued"}

MCInit == PortalInit /\ (scene = "two items" => page.at = k1)
MCNext ==
    /\ PortalNext
    /\ scene = "page" => OneItem
    /\ scene = "two items" => OnePage

\* The fairness of each component, in its own scene.
FairPortal ==
    /\ MCInit /\ [][MCNext]_portalVars
    /\ WF_vars(scene = "page" /\ Step(Read \/ Show))
    /\ WF_vars(scene = "page" /\ Step(Queue \/ Reread \/ CheckCancel \/ Cancel \/ EvictById))
    /\ WF_vars(scene = "page" /\ Step(Poll))
    /\ WF_vars(scene = "page" /\ Step(Refresh))
    /\ WF_drawerVars(scene = "drawer" /\ (D!Answer \/ D!Fail))
    /\ \A c \in N!Callers : WF_sidebarVars(scene = "sidebar" /\ N!Calling(c) /\ N!History)
    /\ WF_sidebarVars(scene = "sidebar" /\ N!Probe /\ N!History)
    /\ WF_sidebarVars(scene = "sidebar" /\ N!StopMonitor /\ N!History)
    /\ WF_sidebarVars(scene = "sidebar" /\ N!Install /\ N!History)
    /\ WF_sidebarVars(scene = "sidebar" /\ N!Clear /\ N!History)
=============================================================================
