---------------------------- MODULE Installations ----------------------------
(***************************************************************************)
(* One installation of the GitHub App: what GitHub knows of it, the events *)
(* on their way, the webhook's handlers of these events, and the           *)
(* dashboard's requests, which write the same rows.                        *)
(*                                                                         *)
(* A handler is a series of statements without a transaction; an event of  *)
(* one statement is handled in one step.  GitHub may deliver events in     *)
(* another order, two at once, or, when the API is down, never; that an    *)
(* event is handled at most once is WebhookIntake's subject.               *)
(***************************************************************************)
EXTENDS Naturals, FiniteSets

CONSTANTS
    Users,        \* accounts of persons
    Sender,       \* the account of the person who installs the App
    Placeholder,  \* the account the webhook makes for a sender without one
    Repos,        \* repositories the App may be given
    Handlers,     \* handlers of events that may be at work at once
    MaxEvents,    \* bound: what GitHub tells
    MaxSyncs,     \* bound: the rows among which the dashboard may still make one
    None

ASSUME InstallationsAssumption ==
    /\ Sender \in Users
    /\ Placeholder \notin Users
    /\ None \notin Users \cup {Placeholder}
    /\ IsFiniteSet(Repos)
    /\ MaxEvents \in Nat
    /\ MaxSyncs \in Nat

VARIABLES
    github,      \* the installation as GitHub has it, and how many events it has sent
    sent,        \* events not yet received
    handler,     \* the handlers of events
    accounts,    \* rows of users
    inst,        \* the row of the installation with its repositories
    removing,    \* rows the dashboard has found and is about to delete
    disordered   \* history: an event was lost, failed or overtaken, or the dashboard
                 \* wrote something else than GitHub has

instVars == <<github, sent, handler, accounts, inst, removing, disordered>>

Accounts == Users \cup {Placeholder}

Kinds == {"created", "deleted", "suspend", "unsuspend", "added", "removed"}
Events == [n : 0..MaxEvents, kind : Kinds, repos : SUBSET Repos]
NoEvent == [n |-> 0, kind |-> "created", repos |-> {}]

\* id: rows are numbered, so that a row that is made anew is another row.
\* moved: history, the row has passed to another account.
InstallationRows ==
    [id : Nat, status : {"none", "ACTIVE", "SUSPENDED"}, owner : Accounts \cup {None},
     repos : SUBSET Repos, moved : BOOLEAN]

NoRow(id) ==
    [id |-> id, status |-> "none", owner |-> None, repos |-> {}, moved |-> FALSE]

HandlerStates ==
    [pc : {"idle", "account", "row", "repos"}, event : Events,
     account : Accounts \cup {None}, inst : Nat, left : SUBSET Repos]

IdleHandler ==
    [pc |-> "idle", event |-> NoEvent, account |-> None, inst |-> 0, left |-> {}]

Present == inst.status # "none"

\* Not installed yet, or installed and known.
InstInit ==
    /\ sent = {}
    /\ handler = [h \in Handlers |-> IdleHandler]
    /\ \/ /\ github = [installed |-> FALSE, suspended |-> FALSE, repos |-> {}, count |-> 0]
          /\ inst = NoRow(0)
          /\ accounts \in {Users \ {Sender}, Users}
       \/ /\ github = [installed |-> TRUE, suspended |-> FALSE, repos |-> Repos, count |-> 0]
          /\ inst = [id |-> 1, status |-> "ACTIVE", owner |-> Sender, repos |-> Repos, moved |-> FALSE]
          /\ accounts = Users
    /\ removing = {}
    /\ disordered = FALSE

-------------------------------------------------------------------------------
(***************************************************************************)
(* GitHub and persons.                                                     *)
(***************************************************************************)
Tells(kind, repos) ==
    /\ github.count < MaxEvents
    /\ sent' = sent \cup {[n |-> github.count + 1, kind |-> kind, repos |-> repos]}
    /\ UNCHANGED <<handler, accounts, inst, removing, disordered>>

Becomes(installed, suspended, repos) ==
    github' = [installed |-> installed, suspended |-> suspended, repos |-> repos,
               count |-> github.count + 1]

IsInstalled ==
    /\ ~github.installed
    /\ \E repos \in SUBSET Repos : Becomes(TRUE, FALSE, repos) /\ Tells("created", repos)

IsUninstalled ==
    /\ github.installed
    /\ Becomes(FALSE, FALSE, {})
    /\ Tells("deleted", {})

IsSuspended ==
    /\ github.installed /\ ~github.suspended
    /\ Becomes(TRUE, TRUE, github.repos)
    /\ Tells("suspend", {})

IsUnsuspended ==
    /\ github.suspended
    /\ Becomes(TRUE, FALSE, github.repos)
    /\ Tells("unsuspend", {})

IsGiven(r) ==
    /\ github.installed
    /\ r \notin github.repos
    /\ Becomes(TRUE, github.suspended, github.repos \cup {r})
    /\ Tells("added", {r})

IsDenied(r) ==
    /\ r \in github.repos
    /\ Becomes(TRUE, github.suspended, github.repos \ {r})
    /\ Tells("removed", {r})

\* Nobody receives it, or the database is not there for its first statement.
IsLost(e) ==
    /\ e \in sent
    /\ sent' = sent \ {e}
    /\ disordered' = TRUE
    /\ UNCHANGED <<github, handler, accounts, inst, removing>>

SignsIn ==
    /\ accounts' = accounts \cup {Sender}
    /\ accounts' # accounts
    /\ UNCHANGED <<github, sent, handler, inst, removing, disordered>>

GitHubStep ==
    \/ IsInstalled \/ IsUninstalled \/ IsSuspended \/ IsUnsuspended
    \/ \E r \in Repos : IsGiven(r) \/ IsDenied(r)
    \/ \E e \in sent : IsLost(e)
    \/ SignsIn

-------------------------------------------------------------------------------
(***************************************************************************)
(* The webhook's handlers.                                                 *)
(***************************************************************************)
\* An earlier event is not handled yet, or a handler is still at work.
Overtakes(e) ==
    \/ \E f \in sent : f.n < e.n
    \/ \E h \in Handlers : handler[h].pc # "idle"

Receives(e, kind) ==
    /\ e \in sent
    /\ e.kind = kind
    /\ sent' = sent \ {e}
    /\ disordered' = (disordered \/ Overtakes(e))

\* Deviation: the row is kept as a suspended one.
DeletedKeepsRow(e) ==
    /\ Receives(e, "deleted")
    /\ inst' = IF Present THEN [inst EXCEPT !.status = "SUSPENDED"] ELSE inst
    /\ UNCHANGED <<github, handler, accounts, removing>>

\* deleteMany; the repositories go with the row.
Deleted(e) ==
    /\ Receives(e, "deleted")
    /\ inst' = NoRow(inst.id)
    /\ UNCHANGED <<github, handler, accounts, removing>>

\* Deviation: the status is what the event is called.
StatusMisspelt(e) ==
    /\ \/ Receives(e, "suspend")
       \/ Receives(e, "unsuspend")
    /\ inst' = IF Present THEN [inst EXCEPT !.status = e.kind] ELSE inst
    /\ UNCHANGED <<github, handler, accounts, removing>>

\* updateMany.
StatusChanged(e) ==
    /\ \/ Receives(e, "suspend")
       \/ Receives(e, "unsuspend")
    /\ inst' = IF ~Present THEN inst
               ELSE [inst EXCEPT !.status = IF e.kind = "suspend" THEN "SUSPENDED" ELSE "ACTIVE"]
    /\ UNCHANGED <<github, handler, accounts, removing>>

\* findFirst by the sender's login, which person and placeholder have in common.
Created(h, e) ==
    /\ handler[h].pc = "idle"
    /\ Receives(e, "created")
    /\ LET named == accounts \cap {Sender, Placeholder} IN
       \/ /\ named = {}
          /\ handler' = [handler EXCEPT ![h] = [@ EXCEPT !.pc = "account", !.event = e]]
       \/ \E a \in named :
             handler' = [handler EXCEPT ![h] = [@ EXCEPT !.pc = "row", !.event = e, !.account = a]]
    /\ UNCHANGED <<github, accounts, inst, removing>>

HandlerOnly == UNCHANGED <<github, sent, removing, disordered>>

\* An account of that id may be there by now: the statement throws (HandlerFails).
CreateAccount(h) ==
    /\ handler[h].pc = "account"
    /\ Placeholder \notin accounts
    /\ accounts' = accounts \cup {Placeholder}
    /\ handler' = [handler EXCEPT ![h] = [@ EXCEPT !.pc = "row", !.account = Placeholder]]
    /\ UNCHANGED inst
    /\ HandlerOnly

\* The next repository of the payload, or the answer.
AfterRepos(h, id, left) ==
    handler' = [handler EXCEPT ![h] =
        IF left = {} THEN IdleHandler ELSE [@ EXCEPT !.pc = "repos", !.inst = id, !.left = left]]

\* An existing row keeps its account.
UpsertRow(h) ==
    /\ handler[h].pc = "row"
    /\ inst' = IF Present THEN [inst EXCEPT !.status = "ACTIVE"]
               ELSE [NoRow(inst.id + 1) EXCEPT !.status = "ACTIVE", !.owner = handler[h].account]
    /\ AfterRepos(h, inst'.id, handler[h].event.repos)
    /\ UNCHANGED accounts
    /\ HandlerOnly

\* findUnique: without a row the event is answered and forgotten.
ReposChanged(h, e) ==
    /\ handler[h].pc = "idle"
    /\ \/ Receives(e, "added")
       \/ Receives(e, "removed")
    /\ handler' = [handler EXCEPT ![h] =
           IF Present /\ e.repos # {}
           THEN [@ EXCEPT !.pc = "repos", !.event = e, !.inst = inst.id, !.left = e.repos] ELSE @]
    /\ UNCHANGED <<github, accounts, inst, removing>>

\* Deviation: a repository that is taken away is updated like one that is given.
WriteRepoAlways(h) ==
    /\ handler[h].pc = "repos"
    /\ Present /\ inst.id = handler[h].inst
    /\ \E r \in handler[h].left :
          /\ inst' = [inst EXCEPT !.repos = @ \cup {r}]
          /\ AfterRepos(h, handler[h].inst, handler[h].left \ {r})
    /\ UNCHANGED accounts
    /\ HandlerOnly

\* upsert, or deleteMany; a row for an installation that is gone is refused by the
\* foreign key (HandlerFails), the deletion of one finds nothing.
WriteRepo(h) ==
    /\ handler[h].pc = "repos"
    /\ \E r \in handler[h].left :
          /\ IF handler[h].event.kind = "removed"
             THEN inst' = IF inst.id = handler[h].inst
                          THEN [inst EXCEPT !.repos = @ \ {r}] ELSE inst
             ELSE /\ Present /\ inst.id = handler[h].inst
                  /\ inst' = [inst EXCEPT !.repos = @ \cup {r}]
          /\ AfterRepos(h, handler[h].inst, handler[h].left \ {r})
    /\ UNCHANGED accounts
    /\ HandlerOnly

\* A statement throws, or the API dies: the rest of the event is not done, and
\* nobody does it later.
HandlerFails(h) ==
    /\ handler[h].pc # "idle"
    /\ handler' = [handler EXCEPT ![h] = IdleHandler]
    /\ disordered' = TRUE
    /\ UNCHANGED <<github, sent, accounts, inst, removing>>

HandlerStep(h) ==
    \/ \E e \in sent : Created(h, e) \/ ReposChanged(h, e)
    \/ CreateAccount(h) \/ UpsertRow(h) \/ WriteRepo(h) \/ HandlerFails(h)

EventStep == \E e \in sent : Deleted(e) \/ StatusChanged(e)

-------------------------------------------------------------------------------
(***************************************************************************)
(* The dashboard.                                                          *)
(***************************************************************************)
\* A transaction; the repositories are added to those that are there, and the row
\* passes to the account of the request.
Sync(u) ==
    /\ u \in accounts \ {Placeholder}
    /\ Present \/ inst.id < MaxSyncs
    /\ \E repos \in SUBSET Repos :
          /\ inst' = IF Present
                     THEN [inst EXCEPT !.status = "ACTIVE", !.owner = u, !.repos = @ \cup repos,
                                       !.moved = @ \/ inst.owner # u]
                     ELSE [NoRow(inst.id + 1) EXCEPT !.status = "ACTIVE", !.owner = u, !.repos = repos]
          /\ disordered' = (disordered \/ ~github.installed \/ github.suspended
                                       \/ ~(repos \subseteq github.repos))
    /\ UNCHANGED <<github, sent, handler, accounts, removing>>

FindInstallation(u) ==
    /\ Present
    /\ inst.owner = u
    /\ u # Placeholder
    /\ removing' = removing \cup {inst.id}
    /\ UNCHANGED <<github, sent, handler, accounts, inst, disordered>>

\* By the id that was found; a row that is gone by now is an error, answered 500.
DeleteInstallation(id) ==
    /\ id \in removing
    /\ removing' = removing \ {id}
    /\ inst' = IF inst.id = id THEN NoRow(id) ELSE inst
    /\ disordered' = (disordered \/ github.installed)
    /\ UNCHANGED <<github, sent, handler, accounts>>

DashboardStep ==
    \/ \E u \in Users : Sync(u) \/ FindInstallation(u)
    \/ \E id \in removing : DeleteInstallation(id)

InstStep == GitHubStep \/ EventStep \/ (\E h \in Handlers : HandlerStep(h)) \/ DashboardStep

InstSpec == InstInit /\ [][InstStep]_instVars

-------------------------------------------------------------------------------
(***************************************************************************)
(* Properties.                                                             *)
(***************************************************************************)
\* The types of all variables.
InstTypeOK ==
    /\ github \in [installed : BOOLEAN, suspended : BOOLEAN, repos : SUBSET Repos, count : 0..MaxEvents]
    /\ sent \subseteq Events
    /\ handler \in [Handlers -> HandlerStates]
    /\ accounts \subseteq Accounts
    /\ inst \in InstallationRows
    /\ removing \subseteq Nat
    /\ disordered \in BOOLEAN

\* When nothing is on its way, the rows are what GitHub has, unless an event was
\* lost, failed or overtaken, or the dashboard wrote something else: what project
\* creation trusts is stale for no other reason.
RowsFollowGitHub ==
    sent = {} /\ ~disordered /\ (\A h \in Handlers : handler[h].pc = "idle") =>
        /\ github.installed = Present
        /\ github.installed => /\ inst.repos = github.repos
                               /\ github.suspended = (inst.status = "SUSPENDED")

===============================================================================
