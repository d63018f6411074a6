---------------------------- MODULE ArtifactGateway ----------------------------
(***************************************************************************)
(* The gateway that serves published bundles, beside everything that moves *)
(* the production pointer or removes what it points to.                    *)
(*                                                                         *)
(* A host name stands for a deployment: dpl-<id> by its id, <slug> by the  *)
(* project's pointer, <slug>-<commit> by the newest deployment of that     *)
(* commit.  A visit is two requests, a page and then an asset whose name   *)
(* the page gave; each resolves the host anew.  Resolution is one query,   *)
(* for <slug> two (Prisma loads the relation with a query of its own), and *)
(* the objects are read after it.  The TLS endpoint resolves the same      *)
(* hosts with queries of its own before Caddy orders a certificate.        *)
(***************************************************************************)
EXTENDS ProductionPointer

CONSTANTS
    Views,      \* visits
    Commits,    \* the commits deployments are made of
    Commit,     \* the deployment's commitHash
    CreatedAt   \* the deployment's createdAt

\* Of any deployments one is the newest: a table has finitely many rows.
ASSUME GatewayAssumption ==
    /\ Commit \in [Deployments -> Commits]
    /\ CreatedAt \in [Deployments -> Nat]
    /\ \A d, e \in Deployments : CreatedAt[d] = CreatedAt[e] => d = e
    /\ \A deps \in (SUBSET Deployments) \ {{}} :
          \E d \in deps : \A e \in deps : CreatedAt[e] <= CreatedAt[d]

VARIABLE view   \* the visits

gatewayVars == <<vars, view>>

Hosts ==
    [kind : {"id"}, of : Deployments] \cup [kind : {"commit"}, of : Commits]
        \cup [kind : {"slug"}, of : {None}]

\* saw: the pointer as read; page: whose page was delivered; refused: object
\* storage gave an error.
ViewStates ==
    [pc : {"idle", "project", "deployment", "object", "answered"},
     host : Hosts, path : {"index", "route", "asset"}, saw : Pointers, dep : Pointers,
     page : Pointers, refused : BOOLEAN, answer : {"none", "200", "403", "404"}]

NoView(h) ==
    [pc |-> "idle", host |-> h, path |-> "index", saw |-> None, dep |-> None, page |-> None,
     refused |-> FALSE, answer |-> "none"]

GatewayInit == Init /\ view \in [Views -> {NoView(h) : h \in Hosts}]

-------------------------------------------------------------------------------
(***************************************************************************)
(* Names.                                                                  *)
(***************************************************************************)
There(d) == d # None /\ row[d] # "DELETED"

\* findFirst ordered by createdAt, descending.
Newest(deps) ==
    IF deps = {} THEN None
    ELSE CHOOSE d \in deps : \A e \in deps : CreatedAt[e] <= CreatedAt[d]

\* The gateway's answer, whatever the deployment's status.
GatewayTarget(h) ==
    CASE h.kind = "id"     -> IF There(h.of) THEN h.of ELSE None
      [] h.kind = "slug"   -> IF There(current) THEN current ELSE None
      [] h.kind = "commit" -> Newest({d \in Deployments : Commit[d] = h.of /\ There(d)})

\* Deviation: the preview's query does not ask for READY.
TlsTargetAnyStatus(h) ==
    CASE h.kind = "id"     -> IF row[h.of] = "READY" THEN h.of ELSE None
      [] h.kind = "slug"   -> IF There(current) /\ row[current] = "READY" THEN current ELSE None
      [] h.kind = "commit" -> Newest({d \in Deployments : Commit[d] = h.of /\ There(d)})

\* What GET /api/tls/ask allows a certificate for.
TlsTarget(h) ==
    CASE h.kind = "id"     -> IF row[h.of] = "READY" THEN h.of ELSE None
      [] h.kind = "slug"   -> IF There(current) /\ row[current] = "READY" THEN current ELSE None
      [] h.kind = "commit" -> Newest({d \in Deployments : Commit[d] = h.of /\ row[d] = "READY"})

-------------------------------------------------------------------------------
(***************************************************************************)
(* A visit.                                                                *)
(***************************************************************************)
ViewOnly == UNCHANGED vars

Show(v, r) == view' = [view EXCEPT ![v] = [@ EXCEPT !.pc = "answered", !.answer = r]]

\* The production host asks for the project first.
Resolving(h) == IF h.kind = "slug" THEN "project" ELSE "deployment"

Open(v) ==
    /\ view[v].pc = "idle"
    /\ \E path \in {"index", "route"} :
          view' = [view EXCEPT ![v] =
              [@ EXCEPT !.pc = Resolving(view[v].host), !.path = path]]
    /\ ViewOnly

ReadProject(v) ==
    /\ view[v].pc = "project"
    /\ view' = [view EXCEPT ![v] =
           IF current = None
           THEN [@ EXCEPT !.pc = "answered", !.saw = None, !.dep = None, !.answer = "404"]
           ELSE [@ EXCEPT !.pc = "deployment", !.saw = current]]
    /\ ViewOnly

Target(v) ==
    IF view[v].host.kind = "slug"
    THEN IF There(view[v].saw) THEN view[v].saw ELSE None
    ELSE GatewayTarget(view[v].host)

\* A deployment that is not READY is refused before its objects are looked at.
ReadDeployment(v) ==
    /\ view[v].pc = "deployment"
    /\ LET d == Target(v) IN
       view' = [view EXCEPT ![v] =
           CASE d = None -> [@ EXCEPT !.pc = "answered", !.dep = None, !.answer = "404"]
             [] d # None /\ row[d] # "READY" ->
                    [@ EXCEPT !.pc = "answered", !.dep = d, !.answer = "403"]
             [] OTHER -> [@ EXCEPT !.pc = "object", !.dep = d]]
    /\ ViewOnly

\* The page is there; the browser asks the same host for its asset.
DeliverPage(v) ==
    view' = [view EXCEPT ![v] =
        [@ EXCEPT !.pc = Resolving(view[v].host), !.path = "asset", !.page = view[v].dep]]

\* Deviation: the fallback is for names that end in .html.
ServePageByName(v) ==
    /\ view[v].pc = "object"
    /\ view[v].path # "asset"
    /\ IF bundle[view[v].dep] /\ view[v].path = "index" THEN DeliverPage(v) ELSE Show(v, "404")
    /\ ViewOnly

\* index.html, or a route of the single-page application: no object has that
\* name and index.html is sent instead.
ServePage(v) ==
    /\ view[v].pc = "object"
    /\ view[v].path # "asset"
    /\ IF bundle[view[v].dep] THEN DeliverPage(v) ELSE Show(v, "404")
    /\ ViewOnly

\* An asset has the hash of its content in its name: another deployment's
\* bundle does not have it, and there is no fallback for a name with an extension.
ServeAsset(v) ==
    /\ view[v].pc = "object"
    /\ view[v].path = "asset"
    /\ Show(v, IF bundle[view[v].dep] /\ view[v].dep = view[v].page THEN "200" ELSE "404")
    /\ ViewOnly

\* Any error is taken for a missing object; a page's second read may succeed.
StorageRefuses(v) ==
    /\ view[v].pc = "object"
    /\ \/ /\ view[v].path # "asset"
          /\ bundle[view[v].dep]
          /\ DeliverPage(v)
       \/ view' = [view EXCEPT ![v] =
              [@ EXCEPT !.pc = "answered", !.refused = TRUE, !.answer = "404"]]
    /\ ViewOnly

ViewStep(v) ==
    \/ Open(v) \/ ReadProject(v) \/ ReadDeployment(v)
    \/ ServePage(v) \/ ServeAsset(v) \/ StorageRefuses(v)

GatewayNext ==
    \/ Next /\ UNCHANGED view
    \/ \E v \in Views : ViewStep(v)

GatewaySpec == GatewayInit /\ [][GatewayNext]_gatewayVars

-------------------------------------------------------------------------------
(***************************************************************************)
(* Properties.                                                             *)
(***************************************************************************)
\* The types of all variables.
GatewayTypeOK ==
    /\ PointerTypeOK
    /\ view \in [Views -> ViewStates]

\* A visitor of the production host is told 403 only if the deployment has one of the
\* two causes to be unservable, whatever the writers of the pointer and the cleanup do
\* between the two queries of the resolution.
ForbiddenHasACause ==
    \A v \in Views :
        view[v].host.kind = "slug" /\ view[v].answer = "403" =>
            view[v].dep \in overtaken \cup refused

\* The reasons for which a visit may be told 404.
Missing(x) ==
    \/ x.refused
    \/ x.dep # None /\ ~bundle[x.dep]
    \/ x.dep # None /\ x.path = "asset" /\ x.page # x.dep
    \/ x.dep = None /\
          CASE x.host.kind = "id"     -> ~There(x.host.of)
            [] x.host.kind = "slug"   -> ~There(x.saw)
            [] x.host.kind = "commit" -> \A d \in Deployments : Commit[d] = x.host.of => ~There(d)

\* 404 is answered with a reason: nothing has that name, the bundle is not there, the
\* storage refused, or, for an asset, the host stands for another deployment than the
\* one whose page was delivered.  For production the name is free only if the pointer
\* was null or its deployment was deleted between the two queries.
NotFoundHasACause ==
    [][\A v \in Views :
          view'[v].answer = "404" /\ view[v].answer # "404" => Missing(view'[v])]_gatewayVars

\* The gateway and the TLS endpoint, with queries of their own, mean the same
\* deployment by a host name, and a certificate is for one that is published.
\* They differ in one case: a commit that is deployed again keeps its certificate
\* while the newest deployment is not READY (on its way, failed or cancelled), and
\* the gateway refuses that one.
EndpointsAgree ==
    \A h \in Hosts :
        LET served == GatewayTarget(h)
            certified == TlsTarget(h)
        IN /\ certified # None => row[certified] = "READY"
           /\ served # None /\ row[served] = "READY" => certified = served
           /\ certified # None /\ certified # served =>
                  /\ h.kind = "commit"
                  /\ row[served] # "READY" /\ CreatedAt[served] > CreatedAt[certified]

===============================================================================
