------------------------------- MODULE Projects -------------------------------
(***************************************************************************)
(* Projects and their environment variables, beside the installation that  *)
(* a new project is linked to.                                             *)
(*                                                                         *)
(* A request looks a project up, by its id or its slug, compares its owner *)
(* with the user, and then writes by the id it found; a creation asks      *)
(* three questions before it inserts.  Nothing is locked in between: what  *)
(* was checked is decided again by the table's unique indices and foreign  *)
(* keys, or not at all.                                                    *)
(***************************************************************************)
EXTENDS Installations

CONSTANTS
    Ids,        \* ids of projects, each given at most once
    Slugs, Names,
    SlugOf,     \* the slug made of a name
    Requests    \* requests that may be at work at once

ASSUME ProjectsAssumption ==
    /\ None \notin Ids \cup Slugs \cup Names
    /\ SlugOf \in [Names -> Slugs]

VARIABLES
    project,    \* the rows of projects
    env,        \* the projects that have the environment variable
    request     \* the requests

projectVars == <<project, env, request>>
allVars == <<instVars, projectVars>>

\* link: the number of the installation's row, 0 for NULL.
ProjectRows ==
    [st : {"none", "present", "deleted"}, owner : Users \cup {None}, slug : Slugs \cup {None},
     name : Names \cup {None}, link : Nat]

NoProject == [st |-> "none", owner |-> None, slug |-> None, name |-> None, link |-> 0]

\* found and slug: the project as it was looked up, for an update the slug it is
\* to have; stale: the variable that was found is gone.
RequestStates ==
    [pc : {"idle", "name", "count", "repo", "insert", "conflict", "variable", "write"},
     op : {"none", "create", "update", "delete", "setEnv", "dropEnv"},
     user : Users \cup {None}, slug : Slugs \cup {None}, name : Names \cup {None},
     found : Ids \cup {None}, link : Nat, stale : BOOLEAN]

IdleRequest ==
    [pc |-> "idle", op |-> "none", user |-> None, slug |-> None, name |-> None,
     found |-> None, link |-> 0, stale |-> FALSE]

ProjectsInit ==
    /\ InstInit
    /\ project = [p \in Ids |-> NoProject]
    /\ env = {}
    /\ request = [q \in Requests |-> IdleRequest]

There(p) == project[p].st = "present"

SlugTaken(s, besides) == \E p \in Ids \ besides : There(p) /\ project[p].slug = s

NameTaken(u, n, besides) ==
    \E p \in Ids \ besides : There(p) /\ project[p].owner = u /\ project[p].name = n

\* A user with an account; the middleware has authenticated the request.
MayAsk(q, u) == request[q].pc = "idle" /\ u \in accounts

ProjectsOnly == UNCHANGED <<project, env>> /\ UNCHANGED instVars

Goto(q, pc) == request' = [request EXCEPT ![q].pc = pc]

\* The request is answered.
Answer(q) == request' = [request EXCEPT ![q] = IdleRequest]

-------------------------------------------------------------------------------
(***************************************************************************)
(* Creation, by POST /projects or for a deployment's project name.         *)
(***************************************************************************)
\* The slug is free; a taken one is answered 409 at once.
BeginCreate(q, u, s, n) ==
    /\ MayAsk(q, u)
    /\ ~SlugTaken(s, {})
    /\ request' = [request EXCEPT ![q] =
           [@ EXCEPT !.pc = "name", !.op = "create", !.user = u, !.slug = s, !.name = n]]
    /\ ProjectsOnly

CheckName(q) ==
    /\ request[q].pc = "name"
    /\ IF NameTaken(request[q].user, request[q].name, {}) THEN Answer(q) ELSE Goto(q, "count")
    /\ ProjectsOnly

\* A user without active installations may name any repository.
CountInstallations(q) ==
    /\ request[q].pc = "count"
    /\ Goto(q, IF inst.status = "ACTIVE" /\ inst.owner = request[q].user THEN "repo" ELSE "insert")
    /\ ProjectsOnly

\* Deviation: any active installation that has the repository.
FindRepoOfAnyone(q) ==
    /\ request[q].pc = "repo"
    /\ \E r \in Repos :
          IF inst.status = "ACTIVE" /\ r \in inst.repos
          THEN request' = [request EXCEPT ![q] = [@ EXCEPT !.pc = "insert", !.link = inst.id]]
          ELSE Answer(q)
    /\ ProjectsOnly

\* Without an authorized repository the answer is 403.
FindRepo(q) ==
    /\ request[q].pc = "repo"
    /\ \E r \in Repos :
          IF inst.status = "ACTIVE" /\ inst.owner = request[q].user /\ r \in inst.repos
          THEN request' = [request EXCEPT ![q] = [@ EXCEPT !.pc = "insert", !.link = inst.id]]
          ELSE Answer(q)
    /\ ProjectsOnly

\* POST /deployments: a project of that name or slug is used, whichever the query
\* gives first, and made if there is none.
BeginDeploy(q, u, n) ==
    /\ MayAsk(q, u)
    /\ ~NameTaken(u, n, {}) /\ ~SlugTaken(SlugOf[n], {})
    /\ request' = [request EXCEPT ![q] =
           [@ EXCEPT !.pc = "insert", !.op = "create", !.user = u, !.slug = SlugOf[n], !.name = n]]
    /\ ProjectsOnly

\* The unique indices and the foreign key of the link decide.
Insert(q) ==
    /\ request[q].pc = "insert"
    /\ LET x == request[q] IN
       /\ ~SlugTaken(x.slug, {}) /\ ~NameTaken(x.user, x.name, {})
       /\ x.link # 0 => Present /\ inst.id = x.link
       /\ \E p \in Ids :
             /\ project[p].st = "none"
             /\ project' = [project EXCEPT ![p] =
                    [st |-> "present", owner |-> x.user, slug |-> x.slug, name |-> x.name,
                     link |-> x.link]]
    /\ Answer(q)
    /\ UNCHANGED env /\ UNCHANGED instVars

-------------------------------------------------------------------------------
(***************************************************************************)
(* Requests about a project.                                               *)
(***************************************************************************)
\* By id or slug, whichever the URL has; another user's project is not found.
Find(q, op, u, p) ==
    /\ MayAsk(q, u)
    /\ There(p)
    /\ project[p].owner = u
    /\ op # "update"
    /\ request' = [request EXCEPT ![q] =
           [@ EXCEPT !.pc = IF op = "dropEnv" THEN "variable" ELSE "write", !.op = op,
                     !.user = u, !.found = p, !.slug = project[p].slug]]
    /\ ProjectsOnly

\* A slug that is not asked for is written back as it was read.
FindToUpdate(q, u, p, s, n) ==
    /\ MayAsk(q, u)
    /\ There(p)
    /\ project[p].owner = u
    /\ LET old == project[p].slug IN
       request' = [request EXCEPT ![q] =
           [@ EXCEPT !.pc = IF s \in {None, old} THEN "write" ELSE "conflict", !.op = "update",
                     !.user = u, !.found = p, !.slug = IF s = None THEN old ELSE s, !.name = n]]
    /\ ProjectsOnly

CheckConflict(q) ==
    /\ request[q].pc = "conflict"
    /\ IF SlugTaken(request[q].slug, {request[q].found}) THEN Answer(q) ELSE Goto(q, "write")
    /\ ProjectsOnly

\* A taken name or slug is P2002, answered 409; a row that is gone is an error.
Update(q) ==
    /\ request[q].pc = "write"
    /\ request[q].op = "update"
    /\ LET x == request[q] IN
       /\ There(x.found)
       /\ ~SlugTaken(x.slug, {x.found})
       /\ x.name # None => ~NameTaken(x.user, x.name, {x.found})
       /\ project' = [project EXCEPT ![x.found] =
              [@ EXCEPT !.slug = x.slug,
                        !.name = IF x.name = None THEN project[x.found].name ELSE x.name]]
    /\ Answer(q)
    /\ UNCHANGED env /\ UNCHANGED instVars

\* Deviation: by the slug of the lookup.
DeleteBySlug(q) ==
    /\ request[q].pc = "write"
    /\ request[q].op = "delete"
    /\ \E p \in Ids :
          /\ There(p)
          /\ project[p].slug = request[q].slug
          /\ project' = [project EXCEPT ![p] = [NoProject EXCEPT !.st = "deleted"]]
          /\ env' = env \ {p}
    /\ Answer(q)
    /\ UNCHANGED instVars

\* The variables go with the project; so do its deployments.
Delete(q) ==
    /\ request[q].pc = "write"
    /\ request[q].op = "delete"
    /\ There(request[q].found)
    /\ project' = [project EXCEPT ![request[q].found] = [NoProject EXCEPT !.st = "deleted"]]
    /\ env' = env \ {request[q].found}
    /\ Answer(q)
    /\ UNCHANGED instVars

\* upsert; refused by the foreign key if the project is gone.
SetEnv(q) ==
    /\ request[q].pc = "write"
    /\ request[q].op = "setEnv"
    /\ There(request[q].found)
    /\ env' = env \cup {request[q].found}
    /\ Answer(q)
    /\ UNCHANGED project /\ UNCHANGED instVars

FindVariable(q) ==
    /\ request[q].pc = "variable"
    /\ IF request[q].found \in env THEN Goto(q, "write") ELSE Answer(q)
    /\ ProjectsOnly

\* By the variable's id: one that was set anew has another id.
DropEnv(q) ==
    /\ request[q].pc = "write"
    /\ request[q].op = "dropEnv"
    /\ request[q].found \in env
    /\ ~request[q].stale
    /\ env' = env \ {request[q].found}
    /\ request' = [w \in Requests |->
           IF w = q THEN IdleRequest
           ELSE [request[w] EXCEPT !.stale = @ \/ (request[w].op = "dropEnv" /\ request[w].pc = "write"
                                                   /\ request[w].found = request[q].found)]]
    /\ UNCHANGED project /\ UNCHANGED instVars

\* Refused by an index or a foreign key, or the row is gone, or the database is.
RequestFails(q) ==
    /\ request[q].pc # "idle"
    /\ Answer(q)
    /\ ProjectsOnly

RequestStep(q) ==
    \/ \E u \in Users, s \in Slugs, n \in Names : BeginCreate(q, u, s, n)
    \/ CheckName(q) \/ CountInstallations(q) \/ FindRepo(q)
    \/ \E u \in Users, n \in Names : BeginDeploy(q, u, n)
    \/ Insert(q)
    \/ \E op \in {"delete", "setEnv", "dropEnv"}, u \in Users, p \in Ids : Find(q, op, u, p)
    \/ \E u \in Users, p \in Ids, s \in Slugs \cup {None}, n \in Names \cup {None} :
          FindToUpdate(q, u, p, s, n)
    \/ CheckConflict(q) \/ Update(q) \/ Delete(q)
    \/ SetEnv(q) \/ FindVariable(q) \/ DropEnv(q) \/ RequestFails(q)

\* Deviation: a project keeps the number of a row that is gone.
LinkedKept == UNCHANGED project

\* onDelete: SetNull clears the links in the statement that deletes the row.
Linked ==
    project' = [p \in Ids |->
        IF inst' # inst /\ inst'.status = "none" THEN [project[p] EXCEPT !.link = 0] ELSE project[p]]

ProjectsNext ==
    \/ InstStep /\ Linked /\ UNCHANGED <<env, request>>
    \/ \E q \in Requests : RequestStep(q)

ProjectsSpec == ProjectsInit /\ [][ProjectsNext]_allVars

-------------------------------------------------------------------------------
(***************************************************************************)
(* Properties.                                                             *)
(***************************************************************************)
\* The types of all variables.
ProjectsTypeOK ==
    /\ InstTypeOK
    /\ project \in [Ids -> ProjectRows]
    /\ env \subseteq Ids
    /\ request \in [Requests -> RequestStates]

\* A project and its variable change by a request of its owner that looked up this
\* project, whoever has its slug by then.
OwnersOnly ==
    [][\A p \in Ids :
          There(p) /\ ([project'[p] EXCEPT !.link = 0] # [project[p] EXCEPT !.link = 0]
                       \/ (p \in env') # (p \in env)) =>
             \E q \in Requests :
                /\ request[q].pc = "write"
                /\ request[q].found = p
                /\ request[q].user = project[p].owner
                /\ request'[q] = IdleRequest]_allVars

\* A project is linked to an installation that is there, and to one of its owner,
\* unless the installation has passed to another account since.
LinkHasACause ==
    \A p \in Ids : project[p].link # 0 =>
        /\ There(p) /\ Present /\ inst.id = project[p].link
        /\ inst.owner = project[p].owner \/ inst.moved

===============================================================================
