---------------------------- MODULE ProjectsProofs ----------------------------
(***************************************************************************)
(* Theorems about projects and the installation they are linked to, for    *)
(* any number of users, repositories, handlers, projects and requests.     *)
(* What a request has looked up changes in two ways only: a project may be *)
(* gone, and the installation's row may be gone, made anew under another   *)
(* number, or marked as moved.  The row itself follows GitHub as long as   *)
(* events are handled in order.                                            *)
(***************************************************************************)
EXTENDS Projects, TLAPS

-------------------------------------------------------------------------------
(***************************************************************************)
(* The installation.                                                       *)
(***************************************************************************)
LEMMA NoRowIsRow ==
    ASSUME NEW id \in Nat
    PROVE  /\ NoRow(id) \in InstallationRows /\ NoRow(id).status = "none" /\ NoRow(id).id = id
BY DEF NoRow, InstallationRows

LEMMA NewRow ==
    ASSUME NEW id \in Nat, NEW u \in Accounts \cup {None}
    PROVE  \A r, repos :
              \/ r = [NoRow(id) EXCEPT !.status = "ACTIVE", !.owner = u]
              \/ /\ repos \in SUBSET Repos
                 /\ r = [NoRow(id) EXCEPT !.status = "ACTIVE", !.owner = u, !.repos = repos]
              => r \in InstallationRows /\ r.id = id
<1>1. PICK x : x = NoRow(id)
  OBVIOUS
<1>2. x \in InstallationRows /\ x.id = id
  BY <1>1, NoRowIsRow
<1>3. QED
  BY <1>1, <1>2 DEF InstallationRows

LEMMA IdleHandlerType == IdleHandler \in HandlerStates
BY InstallationsAssumption DEF IdleHandler, HandlerStates, NoEvent, Events, Kinds

LEMMA InitInstType == InstInit => InstTypeOK
<1> SUFFICES ASSUME InstInit PROVE InstTypeOK
  OBVIOUS
<1> USE InstallationsAssumption
<1>1. handler \in [Handlers -> HandlerStates]
  BY IdleHandlerType DEF InstInit
<1>2. github \in [installed : BOOLEAN, suspended : BOOLEAN, repos : SUBSET Repos, count : 0..MaxEvents]
  <2>1. 0 \in 0..MaxEvents /\ Repos \in SUBSET Repos /\ {} \in SUBSET Repos
    OBVIOUS
  <2>2. CASE github = [installed |-> FALSE, suspended |-> FALSE, repos |-> {}, count |-> 0]
    BY <2>1, <2>2
  <2>3. CASE github = [installed |-> TRUE, suspended |-> FALSE, repos |-> Repos, count |-> 0]
    BY <2>1, <2>3
  <2>4. QED
    BY <2>2, <2>3 DEF InstInit
<1>3. inst \in InstallationRows
  <2>1. CASE inst = NoRow(0)
    BY <2>1 DEF NoRow, InstallationRows
  <2>2. CASE inst = [id |-> 1, status |-> "ACTIVE", owner |-> Sender, repos |-> Repos, moved |-> FALSE]
    BY <2>2 DEF InstallationRows, Accounts
  <2>3. QED
    BY <2>1, <2>2 DEF InstInit
<1>4. accounts = Users \ {Sender} \/ accounts = Users
  BY DEF InstInit
<1>5. QED
  BY <1>1, <1>2, <1>3, <1>4 DEF InstInit, InstTypeOK, Accounts

\* The row keeps its number as long as it is there, and its account unless it is
\* marked.
InstAges ==
    /\ inst.id <= inst'.id
    /\ Present /\ Present' => inst'.id = inst.id
    /\ Present' /\ inst'.id = inst.id =>
           /\ Present
           /\ inst'.moved \/ (inst'.owner = inst.owner /\ inst'.moved = inst.moved)

LEMMA AgesUnchanged == InstTypeOK /\ inst' = inst => InstAges
BY DEF InstTypeOK, InstallationRows, InstAges, Present

\* The row is deleted.
LEMMA AgesDeleted == InstTypeOK /\ inst' = NoRow(inst.id) => InstAges /\ inst' \in InstallationRows
<1> SUFFICES ASSUME InstTypeOK, inst' = NoRow(inst.id)
             PROVE  InstAges /\ inst' \in InstallationRows
  OBVIOUS
<1>1. inst.id \in Nat
  BY DEF InstTypeOK, InstallationRows
<1>2. QED
  BY <1>1, NoRowIsRow DEF InstAges, Present

LEMMA GitHubSteps ==
    ASSUME InstTypeOK, GitHubStep PROVE InstTypeOK' /\ InstAges
<1> USE InstallationsAssumption
<1>1. ASSUME NEW kind \in Kinds, NEW repos \in SUBSET Repos, Tells(kind, repos),
             NEW installed \in BOOLEAN, NEW suspended \in BOOLEAN, NEW rs \in SUBSET Repos,
             Becomes(installed, suspended, rs)
      PROVE  InstTypeOK' /\ InstAges
  <2>1. github.count \in 0..MaxEvents /\ github.count + 1 \in 0..MaxEvents
    BY <1>1 DEF Tells, InstTypeOK
  <2>2. github' \in [installed : BOOLEAN, suspended : BOOLEAN, repos : SUBSET Repos, count : 0..MaxEvents]
    BY <1>1, <2>1 DEF Becomes
  <2>3. sent' \subseteq Events
    BY <1>1, <2>1 DEF Tells, InstTypeOK, Events
  <2>4. UNCHANGED <<handler, accounts, inst, removing, disordered>>
    BY <1>1 DEF Tells
  <2>5. QED
    BY <2>2, <2>3, <2>4, AgesUnchanged DEF InstTypeOK
<1>2. github.repos \in SUBSET Repos /\ github.suspended \in BOOLEAN
  BY DEF InstTypeOK
<1>3. CASE IsInstalled
  BY <1>1, <1>3 DEF IsInstalled, Kinds
<1>4. CASE IsUninstalled
  BY <1>1, <1>4 DEF IsUninstalled, Kinds
<1>5. CASE IsSuspended
  BY <1>1, <1>2, <1>5 DEF IsSuspended, Kinds
<1>6. CASE IsUnsuspended
  BY <1>1, <1>2, <1>6 DEF IsUnsuspended, Kinds
<1>7. ASSUME NEW r \in Repos, IsGiven(r) PROVE InstTypeOK' /\ InstAges
  <2>1. Becomes(TRUE, github.suspended, github.repos \cup {r}) /\ Tells("added", {r})
    BY <1>7 DEF IsGiven
  <2>2. github.repos \cup {r} \in SUBSET Repos /\ {r} \in SUBSET Repos /\ "added" \in Kinds
    BY <1>2 DEF Kinds
  <2>3. QED
    BY <1>1, <1>2, <2>1, <2>2
<1>8. ASSUME NEW r \in Repos, IsDenied(r) PROVE InstTypeOK' /\ InstAges
  <2>1. Becomes(TRUE, github.suspended, github.repos \ {r}) /\ Tells("removed", {r})
    BY <1>8 DEF IsDenied
  <2>2. github.repos \ {r} \in SUBSET Repos /\ {r} \in SUBSET Repos /\ "removed" \in Kinds
    BY <1>2 DEF Kinds
  <2>3. QED
    BY <1>1, <1>2, <2>1, <2>2
<1>9. ASSUME NEW e \in sent, IsLost(e) PROVE InstTypeOK' /\ InstAges
  BY <1>9, AgesUnchanged DEF IsLost, InstTypeOK
<1>10. CASE SignsIn
  BY <1>10, AgesUnchanged DEF SignsIn, InstTypeOK, Accounts
<1>11. QED
  BY <1>3, <1>4, <1>5, <1>6, <1>7, <1>8, <1>9, <1>10 DEF GitHubStep

\* The row, a handler and the accounts change to values of their types.
LEMMA HandlerChanges ==
    ASSUME InstTypeOK, NEW h \in Handlers, NEW y \in HandlerStates,
           handler' = [handler EXCEPT ![h] = y],
           inst' \in InstallationRows, accounts' \subseteq Accounts, sent' \subseteq sent,
           disordered' \in BOOLEAN, UNCHANGED <<github, removing>>
    PROVE  InstTypeOK'
BY DEF InstTypeOK

LEMMA AfterReposType ==
    ASSUME InstTypeOK, NEW h \in Handlers, NEW id \in Nat, NEW left \in SUBSET Repos,
           AfterRepos(h, id, left)
    PROVE  \E y \in HandlerStates : handler' = [handler EXCEPT ![h] = y]
<1>1. IdleHandler \in HandlerStates
  BY IdleHandlerType
<1>2. handler[h] \in HandlerStates
  BY DEF InstTypeOK
<1>3. [handler[h] EXCEPT !.pc = "repos", !.inst = id, !.left = left] \in HandlerStates
  BY <1>2 DEF HandlerStates
<1>4. QED
  BY <1>1, <1>3 DEF AfterRepos

LEMMA EventSteps ==
    ASSUME InstTypeOK, EventStep PROVE InstTypeOK' /\ InstAges
<1>1. PICK e \in sent : Deleted(e) \/ StatusChanged(e)
  BY DEF EventStep
<1>2. /\ sent' \subseteq sent /\ disordered' \in BOOLEAN
      /\ UNCHANGED <<github, handler, accounts, removing>>
  BY <1>1 DEF Deleted, StatusChanged, Receives, InstTypeOK
<1>3. CASE Deleted(e)
  <2>1. InstAges /\ inst' \in InstallationRows
    BY <1>3, AgesDeleted DEF Deleted
  <2>2. QED
    BY <1>2, <2>1 DEF InstTypeOK
<1>4. CASE StatusChanged(e)
  <2>1. CASE inst' = inst
    BY <1>2, <2>1, AgesUnchanged DEF InstTypeOK
  <2>2. CASE inst' # inst
    <3>1. PICK s \in {"SUSPENDED", "ACTIVE"} : Present /\ inst' = [inst EXCEPT !.status = s]
      BY <1>4, <2>2 DEF StatusChanged
    <3>2. inst \in InstallationRows
      BY DEF InstTypeOK
    <3>3. inst' \in InstallationRows /\ inst'.id = inst.id /\ inst'.owner = inst.owner
          /\ inst'.moved = inst.moved /\ inst.id \in Nat
      BY <3>1, <3>2 DEF InstallationRows
    <3>4. InstAges
      BY <3>1, <3>3 DEF InstAges
    <3>5. QED
      BY <1>2, <3>3, <3>4 DEF InstTypeOK
  <2>3. QED
    BY <2>1, <2>2
<1>5. QED
  BY <1>1, <1>3, <1>4

LEMMA HandlerSteps ==
    ASSUME InstTypeOK, NEW h \in Handlers, HandlerStep(h) PROVE InstTypeOK' /\ InstAges
<1>1. inst \in InstallationRows /\ inst.id \in Nat
  BY DEF InstTypeOK, InstallationRows
<1>2. PICK x : x = handler[h]
  OBVIOUS
<1>3. /\ x \in HandlerStates /\ x.event.repos \in SUBSET Repos /\ x.left \in SUBSET Repos
      /\ x.inst \in Nat /\ x.account \in Accounts \cup {None}
  BY <1>2 DEF InstTypeOK, HandlerStates, Events
<1>4. ASSUME NEW e \in sent, Created(h, e) PROVE InstTypeOK' /\ InstAges
  <2>1. /\ sent' \subseteq sent /\ disordered' \in BOOLEAN
        /\ UNCHANGED <<github, accounts, inst, removing>>
    BY <1>4 DEF Created, Receives, InstTypeOK
  <2>2. e \in Events
    BY DEF InstTypeOK
  <2>3. CASE handler' = [handler EXCEPT ![h] = [x EXCEPT !.pc = "account", !.event = e]]
    <3>1. [x EXCEPT !.pc = "account", !.event = e] \in HandlerStates
      BY <1>3, <2>2 DEF HandlerStates
    <3>2. QED
      BY <1>1, <2>1, <2>3, <3>1, HandlerChanges, AgesUnchanged DEF InstTypeOK
  <2>4. ASSUME NEW a \in accounts,
               handler' = [handler EXCEPT ![h] = [x EXCEPT !.pc = "row", !.event = e, !.account = a]]
        PROVE  InstTypeOK' /\ InstAges
    <3>1. a \in Accounts
      BY DEF InstTypeOK
    <3>2. [x EXCEPT !.pc = "row", !.event = e, !.account = a] \in HandlerStates
      BY <1>3, <2>2, <3>1 DEF HandlerStates
    <3>3. QED
      BY <1>1, <2>1, <2>4, <3>2, HandlerChanges, AgesUnchanged DEF InstTypeOK
  <2>5. QED
    BY <1>2, <1>4, <2>3, <2>4 DEF Created
<1>5. ASSUME NEW e \in sent, ReposChanged(h, e) PROVE InstTypeOK' /\ InstAges
  <2>1. /\ sent' \subseteq sent /\ disordered' \in BOOLEAN
        /\ UNCHANGED <<github, accounts, inst, removing>>
    BY <1>5 DEF ReposChanged, Receives, InstTypeOK
  <2>2. e \in Events /\ e.repos \in SUBSET Repos
    BY DEF InstTypeOK, Events
  <2>3. [x EXCEPT !.pc = "repos", !.event = e, !.inst = inst.id, !.left = e.repos] \in HandlerStates
    BY <1>1, <1>3, <2>2 DEF HandlerStates
  <2>4. \E y \in HandlerStates : handler' = [handler EXCEPT ![h] = y]
    BY <1>2, <1>3, <1>5, <2>3 DEF ReposChanged
  <2>5. QED
    BY <1>1, <2>1, <2>4, HandlerChanges, AgesUnchanged DEF InstTypeOK
<1>6. CASE CreateAccount(h)
  <2>1. /\ UNCHANGED <<github, sent, removing, disordered, inst>>
        /\ accounts' \subseteq Accounts
    BY <1>6 DEF CreateAccount, HandlerOnly, InstTypeOK, Accounts
  <2>2. [x EXCEPT !.pc = "row", !.account = Placeholder] \in HandlerStates
    BY <1>3 DEF HandlerStates, Accounts
  <2>3. handler' = [handler EXCEPT ![h] = [x EXCEPT !.pc = "row", !.account = Placeholder]]
    BY <1>2, <1>6 DEF CreateAccount
  <2>4. QED
    BY <1>1, <2>1, <2>2, <2>3, HandlerChanges, AgesUnchanged DEF InstTypeOK
<1>7. CASE UpsertRow(h)
  <2>1. UNCHANGED <<github, sent, removing, disordered, accounts>>
    BY <1>7 DEF UpsertRow, HandlerOnly
  <2>2. inst' \in InstallationRows /\ inst'.id \in Nat /\ InstAges
    <3>1. CASE Present
      BY <1>1, <1>7, <3>1 DEF UpsertRow, InstallationRows, InstAges
    <3>2. CASE ~Present
      <4>1. inst' = [NoRow(inst.id + 1) EXCEPT !.status = "ACTIVE", !.owner = x.account]
        BY <1>2, <1>7, <3>2 DEF UpsertRow
      <4>2. PICK id \in Nat : id = inst.id + 1
        BY <1>1
      <4>3. inst' = [NoRow(id) EXCEPT !.status = "ACTIVE", !.owner = x.account]
        BY <4>1, <4>2
      <4>4. inst' \in InstallationRows /\ inst'.id = inst.id + 1
        BY <1>3, <4>2, <4>3, NewRow
      <4>5. QED
        BY <1>1, <3>2, <4>4 DEF InstAges
    <3>3. QED
      BY <3>1, <3>2
  <2>3. AfterRepos(h, inst'.id, x.event.repos)
    BY <1>2, <1>7 DEF UpsertRow
  <2>4. \E y \in HandlerStates : handler' = [handler EXCEPT ![h] = y]
    BY <1>3, <2>2, <2>3, AfterReposType
  <2>5. QED
    BY <2>1, <2>2, <2>4, HandlerChanges DEF InstTypeOK
<1>8. CASE WriteRepo(h)
  <2>1. PICK r \in x.left :
            /\ inst' \in {inst, [inst EXCEPT !.repos = @ \ {r}], [inst EXCEPT !.repos = @ \cup {r}]}
            /\ AfterRepos(h, x.inst, x.left \ {r})
    BY <1>2, <1>8 DEF WriteRepo
  <2>2. UNCHANGED <<github, sent, removing, disordered, accounts>>
    BY <1>8 DEF WriteRepo, HandlerOnly
  <2>3. r \in Repos /\ x.left \ {r} \in SUBSET Repos
    BY <1>3
  <2>4. /\ inst' \in InstallationRows /\ inst'.id = inst.id /\ inst'.owner = inst.owner
        /\ inst'.moved = inst.moved /\ inst'.status = inst.status
    BY <1>1, <2>1, <2>3 DEF InstallationRows
  <2>5. InstAges
    BY <1>1, <2>4 DEF InstAges, Present
  <2>6. \E y \in HandlerStates : handler' = [handler EXCEPT ![h] = y]
    BY <1>3, <2>1, <2>3, AfterReposType
  <2>7. QED
    BY <2>2, <2>4, <2>5, <2>6, HandlerChanges DEF InstTypeOK
<1>9. CASE HandlerFails(h)
  <2>1. IdleHandler \in HandlerStates
    BY IdleHandlerType
  <2>2. QED
    BY <1>1, <1>9, <2>1, HandlerChanges, AgesUnchanged DEF HandlerFails, InstTypeOK
<1>10. QED
  BY <1>4, <1>5, <1>6, <1>7, <1>8, <1>9 DEF HandlerStep

LEMMA DashboardSteps ==
    ASSUME InstTypeOK, DashboardStep PROVE InstTypeOK' /\ InstAges
<1>1. inst \in InstallationRows /\ inst.id \in Nat
  BY DEF InstTypeOK, InstallationRows
<1>2. ASSUME NEW u \in Users, Sync(u) PROVE InstTypeOK' /\ InstAges
  <2>1. UNCHANGED <<github, sent, handler, accounts, removing>>
    BY <1>2 DEF Sync
  <2>2. disordered' \in BOOLEAN
    BY <1>2 DEF Sync, InstTypeOK
  <2>3. PICK repos \in SUBSET Repos :
            inst' = IF Present
                    THEN [inst EXCEPT !.status = "ACTIVE", !.owner = u, !.repos = @ \cup repos,
                                      !.moved = @ \/ inst.owner # u]
                    ELSE [NoRow(inst.id + 1) EXCEPT !.status = "ACTIVE", !.owner = u, !.repos = repos]
    BY <1>2 DEF Sync
  <2>4. u \in Accounts
    BY DEF Accounts
  <2>5. CASE Present
    <3>1. /\ inst' \in InstallationRows /\ inst'.id = inst.id /\ inst'.owner = u
          /\ inst'.moved = (inst.moved \/ inst.owner # u)
      BY <1>1, <2>3, <2>4, <2>5 DEF InstallationRows
    <3>2. InstAges
      BY <1>1, <2>5, <3>1 DEF InstAges, InstallationRows
    <3>3. QED
      BY <2>1, <2>2, <3>1, <3>2 DEF InstTypeOK
  <2>6. CASE ~Present
    <3>1. PICK id \in Nat : id = inst.id + 1
      BY <1>1
    <3>2. inst' = [NoRow(id) EXCEPT !.status = "ACTIVE", !.owner = u, !.repos = repos]
      BY <2>3, <2>6, <3>1
    <3>3. inst' \in InstallationRows /\ inst'.id = inst.id + 1
      BY <2>4, <3>1, <3>2, NewRow
    <3>4. InstAges
      BY <1>1, <2>6, <3>3 DEF InstAges
    <3>5. QED
      BY <2>1, <2>2, <3>3, <3>4 DEF InstTypeOK
  <2>7. QED
    BY <2>5, <2>6
<1>3. ASSUME NEW u \in Users, FindInstallation(u) PROVE InstTypeOK' /\ InstAges
  BY <1>1, <1>3, AgesUnchanged DEF FindInstallation, InstTypeOK
<1>4. ASSUME NEW id \in removing, DeleteInstallation(id) PROVE InstTypeOK' /\ InstAges
  <2>1. /\ UNCHANGED <<github, sent, handler, accounts>> /\ removing' \subseteq removing
        /\ disordered' \in BOOLEAN
    BY <1>4 DEF DeleteInstallation, InstTypeOK
  <2>2. inst' = inst \/ inst' = NoRow(inst.id)
    BY <1>4 DEF DeleteInstallation
  <2>3. inst' \in InstallationRows /\ InstAges
    BY <1>1, <2>2, AgesUnchanged, AgesDeleted
  <2>4. QED
    BY <2>1, <2>3 DEF InstTypeOK
<1>5. QED
  BY <1>2, <1>3, <1>4 DEF DashboardStep

LEMMA InstSteps == InstTypeOK /\ InstStep => InstTypeOK' /\ InstAges
BY GitHubSteps, EventSteps, HandlerSteps, DashboardSteps DEF InstStep

-------------------------------------------------------------------------------
(***************************************************************************)
(* The rows follow GitHub.  As long as everything is handled in order,     *)
(* the last event on its way that changes something says what GitHub has   *)
(* of it; without one the handler at work says it; and without that the    *)
(* row has it.  FollowInv says this of the row, of its status and of each  *)
(* repository.                                                             *)
(***************************************************************************)
\* What an event that is on its way will change: whether the row is there, its status,
\* and which repositories it has.
Presence(e) == e.kind \in {"created", "deleted"}
Status(e) == e.kind \notin {"added", "removed"}
Touches(e, r) == Presence(e) \/ (e.kind \in {"added", "removed"} /\ r \in e.repos)
Gives(e, r) == e.kind \in {"created", "added"} /\ r \in e.repos

\* What a handler at work will still write.
Busy(x) == x.pc # "idle"
BeforeRow(x) == x.pc \in {"account", "row"}
WillTouch(x, r) == BeforeRow(x) \/ (x.pc = "repos" /\ r \in x.left)

\* Events are handled one by one, in the order in which GitHub sent them.
InOrder ==
    /\ \A e, f \in sent : e.n = f.n => e = f
    /\ \A e \in sent : e.n <= github.count
    /\ \A h \in Handlers : Busy(handler[h]) =>
          /\ handler[h].event.n <= github.count
          /\ \A e \in sent : handler[h].event.n < e.n
          /\ \A g \in Handlers : Busy(handler[g]) => g = h

\* Each kind of event takes its own way through the handler.
HandlerKinds ==
    \A h \in Handlers :
        /\ BeforeRow(handler[h]) => handler[h].event.kind = "created"
        /\ handler[h].pc = "repos" => /\ handler[h].event.kind \in {"created", "added", "removed"}
                                      /\ handler[h].left \subseteq handler[h].event.repos

\* Installing and uninstalling alternate, so of what is on its way the later of the
\* two kinds says what GitHub has.
Alternation ==
    /\ ~github.installed =>
          /\ \A e \in sent : e.kind # "deleted" => \E d \in sent : d.kind = "deleted" /\ e.n < d.n
          /\ \A h \in Handlers : Busy(handler[h]) => \E d \in sent : d.kind = "deleted"
    /\ github.installed =>
          \A d \in sent : d.kind = "deleted" => \E e \in sent : e.kind = "created" /\ d.n < e.n
    /\ \A e \in sent : e.kind = "created" =>
          /\ \A f \in sent : f.n < e.n /\ f.kind # "deleted" =>
                \E d \in sent : d.kind = "deleted" /\ f.n < d.n /\ d.n < e.n
          /\ \A h \in Handlers : Busy(handler[h]) =>
                \E d \in sent : d.kind = "deleted" /\ d.n < e.n

\* Without an installation or a removal on its way, the row is there as GitHub says,
\* unless the handler is about to make it.
RowFollows ==
    (\A e \in sent : ~Presence(e)) =>
        /\ (\A h \in Handlers : ~BeforeRow(handler[h])) => Present = github.installed
        /\ \A h \in Handlers : handler[h].pc = "repos" => Present /\ inst.id = handler[h].inst

\* The last event that says anything of r, or the handler, or the row, has it as
\* GitHub does; and what will not write r does not find it there either.
RepoFollows(r) ==
    /\ \A e \in sent :
          Touches(e, r) /\ (\A f \in sent : Touches(f, r) => f.n <= e.n) =>
              /\ r \in github.repos <=> Gives(e, r)
              /\ e.kind = "created" /\ ~Gives(e, r) /\ (\A d \in sent : d.kind # "deleted") =>
                    r \notin inst.repos
    /\ (\A e \in sent : ~Touches(e, r)) =>
          /\ \A h \in Handlers : WillTouch(handler[h], r) =>
                /\ r \in github.repos <=> Gives(handler[h].event, r)
                /\ BeforeRow(handler[h]) /\ ~Gives(handler[h].event, r) => r \notin inst.repos
          /\ (\A h \in Handlers : ~WillTouch(handler[h], r)) => (r \in inst.repos <=> r \in github.repos)

\* The same of the suspension.
StatusFollows ==
    /\ \A e \in sent :
          Status(e) /\ (\A f \in sent : Status(f) => f.n <= e.n) => github.suspended = (e.kind = "suspend")
    /\ (\A e \in sent : ~Status(e)) =>
          IF \E h \in Handlers : BeforeRow(handler[h])
          THEN ~github.suspended
          ELSE github.suspended = (inst.status = "SUSPENDED")

\* Holds in any order: what is not there has no repositories.
Absent ==
    /\ ~github.installed => github.repos = {} /\ ~github.suspended
    /\ ~Present => inst.repos = {}

FollowInv ==
    /\ Absent
    /\ ~disordered =>
          /\ InOrder /\ HandlerKinds /\ Alternation /\ RowFollows /\ StatusFollows
          /\ \A r \in Repos : RepoFollows(r)

-------------------------------------------------------------------------------
\* GitHub sends an event of what has just changed.
Sends(e) ==
    /\ e \in Events /\ e.n = github.count + 1
    /\ sent' = sent \cup {e}
    /\ github'.count = e.n
    /\ UNCHANGED <<handler, inst, disordered>>
    /\ \/ /\ e.kind = "created"
          /\ ~github.installed /\ github'.installed /\ github'.suspended = FALSE
          /\ github'.repos = e.repos
       \/ /\ e.kind = "deleted"
          /\ github.installed /\ ~github'.installed /\ github'.suspended = FALSE
          /\ github'.repos = {}
       \/ /\ e.kind \in {"suspend", "unsuspend"}
          /\ github.installed /\ github'.installed
          /\ github'.suspended = (e.kind = "suspend")
          /\ github'.repos = github.repos
       \/ /\ e.kind = "added"
          /\ github.installed /\ github'.installed /\ github'.suspended = github.suspended
          /\ github'.repos = github.repos \cup e.repos
       \/ /\ e.kind = "removed"
          /\ github.installed /\ github'.installed /\ github'.suspended = github.suspended
          /\ github'.repos = github.repos \ e.repos

Told(e, kind, repos, installed, suspended, rs) ==
    /\ e.n = github.count + 1 /\ e.kind = kind /\ e.repos = repos
    /\ sent' = sent \cup {e} /\ github'.count = e.n
    /\ github'.installed = installed /\ github'.suspended = suspended /\ github'.repos = rs
    /\ UNCHANGED <<handler, inst, disordered>>

LEMMA GitHubSends ==
    ASSUME InstTypeOK, Absent, GitHubStep, ~disordered'
    PROVE  (\E e : Sends(e)) \/ UNCHANGED <<github, sent, handler, inst, disordered>>
<1>1. ASSUME NEW kind \in Kinds, NEW repos \in SUBSET Repos, Tells(kind, repos),
             NEW installed \in BOOLEAN, NEW suspended \in BOOLEAN, NEW rs \in SUBSET Repos,
             Becomes(installed, suspended, rs)
      PROVE  \E e \in Events : Told(e, kind, repos, installed, suspended, rs)
  <2>1. github.count + 1 \in 0..MaxEvents
    BY <1>1, InstallationsAssumption DEF Tells, InstTypeOK
  <2>2. PICK e : e = [n |-> github.count + 1, kind |-> kind, repos |-> repos]
    OBVIOUS
  <2>3. e \in Events
    BY <2>1, <2>2 DEF Events
  <2>4. QED
    BY <1>1, <2>2, <2>3 DEF Tells, Becomes, Told
<1>2. github.repos \in SUBSET Repos /\ github.suspended \in BOOLEAN
  BY DEF InstTypeOK
<1>3. CASE IsInstalled
  <2>1. PICK repos \in SUBSET Repos : Becomes(TRUE, FALSE, repos) /\ Tells("created", repos)
    BY <1>3 DEF IsInstalled
  <2>2. PICK e \in Events : Told(e, "created", repos, TRUE, FALSE, repos)
    BY <1>1, <2>1 DEF Kinds
  <2>3. QED
    BY <1>3, <2>2 DEF IsInstalled, Told, Sends
<1>4. CASE IsUninstalled
  <2>1. PICK e \in Events : Told(e, "deleted", {}, FALSE, FALSE, {})
    BY <1>1, <1>2, <1>4 DEF IsUninstalled, Kinds
  <2>2. QED
    BY <1>4, <2>1 DEF IsUninstalled, Told, Sends
<1>5. CASE IsSuspended
  <2>1. PICK e \in Events : Told(e, "suspend", {}, TRUE, TRUE, github.repos)
    BY <1>1, <1>2, <1>5 DEF IsSuspended, Kinds
  <2>2. QED
    BY <1>5, <2>1 DEF IsSuspended, Told, Sends
<1>6. CASE IsUnsuspended
  <2>1. PICK e \in Events : Told(e, "unsuspend", {}, TRUE, FALSE, github.repos)
    BY <1>1, <1>2, <1>6 DEF IsUnsuspended, Kinds
  <2>2. QED
    BY <1>6, <2>1 DEF IsUnsuspended, Told, Sends, Absent
<1>7. ASSUME NEW r \in Repos, IsGiven(r) PROVE \E e : Sends(e)
  <2>1. PICK e \in Events : Told(e, "added", {r}, TRUE, github.suspended, github.repos \cup {r})
    BY <1>1, <1>2, <1>7 DEF IsGiven, Kinds
  <2>2. QED
    BY <1>7, <2>1 DEF IsGiven, Told, Sends
<1>8. ASSUME NEW r \in Repos, IsDenied(r) PROVE \E e : Sends(e)
  <2>1. PICK e \in Events : Told(e, "removed", {r}, TRUE, github.suspended, github.repos \ {r})
    BY <1>1, <1>2, <1>8 DEF IsDenied, Kinds
  <2>2. QED
    BY <1>8, <2>1 DEF IsDenied, Told, Sends, Absent
<1>9. ASSUME NEW e \in sent, IsLost(e) PROVE FALSE
  BY <1>9 DEF IsLost
<1>10. CASE SignsIn
  BY <1>10 DEF SignsIn
<1>11. QED
  BY <1>3, <1>4, <1>5, <1>6, <1>7, <1>8, <1>9, <1>10 DEF GitHubStep

LEMMA SendKeepsFollowInv ==
    ASSUME InstTypeOK, FollowInv, ~disordered, NEW e, Sends(e)
    PROVE  FollowInv'
<1> USE DEF Busy, BeforeRow, WillTouch
<1>1. /\ github.count \in Nat /\ \A f \in sent : f.n \in Nat
      /\ \A h \in Handlers : handler[h].event.n \in Nat
      /\ e.n \in Nat
  BY InstallationsAssumption DEF InstTypeOK, Events, HandlerStates, Sends
<1>2. /\ InOrder /\ HandlerKinds /\ Alternation /\ RowFollows /\ StatusFollows /\ Absent
      /\ \A r \in Repos : RepoFollows(r)
  BY DEF FollowInv
<1>3. \A f \in sent : f.n < e.n
  BY <1>1, <1>2 DEF Sends, InOrder
<1>4. InOrder'
  BY <1>1, <1>2, <1>3 DEF Sends, InOrder
<1>5. HandlerKinds'
  BY <1>2 DEF Sends, HandlerKinds
<1>6. Alternation'
  BY <1>1, <1>2, <1>3 DEF Sends, Alternation
<1>7. RowFollows'
  BY <1>1, <1>2, <1>3 DEF Sends, RowFollows, Presence, Present
<1>8. StatusFollows'
  <2>1. CASE Status(e)
    <3>1. /\ sent' = sent \cup {e}
          /\ github'.suspended = (e.kind = "suspend")
      BY <2>1 DEF Sends, Status
    <3>2. \A f \in sent : ~(e.n <= f.n)
      BY <1>1, <1>3
    <3>3. \A f \in sent' : (\A g \in sent' : Status(g) => g.n <= f.n) => f = e
      BY <2>1, <3>1, <3>2
    <3>4. ~\A f \in sent' : ~Status(f)
      BY <2>1, <3>1
    <3>5. ASSUME NEW f \in sent', \A g \in sent' : Status(g) => g.n <= f.n
          PROVE  github'.suspended = (f.kind = "suspend")
      <4>1. f = e
        BY <3>3, <3>5
      <4>2. QED
        BY <3>1, <4>1
    <3>6. QED
      BY <3>4, <3>5 DEF StatusFollows
  <2>2. CASE ~Status(e)
    <3>1. github'.suspended = github.suspended
      BY <2>2 DEF Sends, Status
    <3>2. \A f \in sent' : Status(f) => f \in sent
      BY <2>2 DEF Sends
    <3>3. sent \subseteq sent' /\ handler' = handler /\ inst' = inst
      BY DEF Sends
    <3>4. QED
      BY <1>2, <3>1, <3>2, <3>3 DEF StatusFollows
  <2>3. QED
    BY <2>1, <2>2
<1>9. ASSUME NEW r \in Repos PROVE RepoFollows(r)'
  <2>1. sent' = sent \cup {e} /\ handler' = handler /\ inst' = inst
    BY DEF Sends
  <2>2. RepoFollows(r)
    BY <1>2
  <2>3. CASE Touches(e, r)
    <3>1. r \in github'.repos <=> Gives(e, r)
      BY <2>3 DEF Sends, Touches, Presence, Gives
    <3>2. \A f \in sent : ~(e.n <= f.n)
      BY <1>1, <1>3
    <3>3. e.kind = "created" /\ (\A d \in sent' : d.kind # "deleted") => r \notin inst.repos
      <4>1. SUFFICES ASSUME e.kind = "created", \A d \in sent' : d.kind # "deleted"
                     PROVE  r \notin inst.repos
        OBVIOUS
      <4>2. ~github.installed /\ sent = {} /\ \A h \in Handlers : ~Busy(handler[h])
        BY <1>2, <2>1, <4>1 DEF Sends, Alternation
      <4>3. ~Present
        BY <1>2, <4>2 DEF RowFollows
      <4>4. QED
        BY <1>2, <4>3 DEF Absent
    <3>4. QED
      BY <2>1, <2>3, <3>1, <3>2, <3>3 DEF RepoFollows
  <2>4. CASE ~Touches(e, r)
    <3>1. r \in github'.repos <=> r \in github.repos
      BY <2>4 DEF Sends, Touches, Presence
    <3>2. e.kind # "created" /\ e.kind # "deleted"
      BY <2>4 DEF Touches, Presence
    <3>3. \A f \in sent' : Touches(f, r) => f \in sent
      BY <2>1, <2>4
    <3>4. QED
      BY <2>1, <2>2, <3>1, <3>2, <3>3 DEF RepoFollows
  <2>5. QED
    BY <2>3, <2>4
<1>10. Absent'
  BY <1>2 DEF Sends, Absent, Present
<1>11. QED
  BY <1>4, <1>5, <1>6, <1>7, <1>8, <1>9, <1>10 DEF FollowInv

\* The next event is received, by nobody else's handler.
Takes(e) ==
    /\ e \in sent /\ sent' = sent \ {e}
    /\ github' = github
    /\ \A f \in sent : ~(f.n < e.n)
    /\ \A h \in Handlers : ~Busy(handler[h])

\* Who is at work after an event was received is at work on it.
WorksOn(e) ==
    \A h \in Handlers : Busy(handler'[h]) =>
        /\ handler'[h].event = e /\ e.kind # "deleted"
        /\ BeforeRow(handler'[h]) => e.kind = "created"
        /\ handler'[h].pc = "repos" => /\ e.kind \in {"added", "removed"}
                                       /\ handler'[h].left \subseteq e.repos
        /\ \A g \in Handlers : Busy(handler'[g]) => g = h

LEMMA ReceivesTakes ==
    ASSUME NEW e, NEW kind, Receives(e, kind), ~disordered', github' = github
    PROVE  Takes(e) /\ ~disordered
BY DEF Receives, Overtakes, Takes, Busy

LEMMA EventNumbers ==
    ASSUME InstTypeOK PROVE \A e \in sent : e.n \in Nat
BY InstallationsAssumption DEF InstTypeOK, Events

LEMMA TakesInOrder ==
    ASSUME InstTypeOK, InOrder, Alternation, NEW e, Takes(e), WorksOn(e)
    PROVE  /\ InOrder' /\ HandlerKinds' /\ Alternation'
           /\ \A f \in sent' : e.n < f.n
<1>1. \A f \in sent' : e.n < f.n
  BY EventNumbers DEF Takes, InOrder
<1>2. InOrder'
  BY <1>1 DEF Takes, InOrder, WorksOn
<1>3. HandlerKinds'
  BY DEF HandlerKinds, WorksOn, Busy, BeforeRow
<1>4. \A d \in sent : e.n < d.n => d \in sent'
  BY EventNumbers DEF Takes
<1>5. \A c, d \in sent : c.n < d.n /\ e.n <= c.n => d \in sent'
  BY <1>4, EventNumbers DEF Takes
<1>6. ~github'.installed =>
          /\ \A f \in sent' : f.kind # "deleted" => \E d \in sent' : d.kind = "deleted" /\ f.n < d.n
          /\ \A h \in Handlers : Busy(handler'[h]) => \E d \in sent' : d.kind = "deleted"
  BY <1>1, <1>4, <1>5, EventNumbers DEF Takes, WorksOn, Alternation
<1>7. github'.installed =>
          \A d \in sent' : d.kind = "deleted" => \E f \in sent' : f.kind = "created" /\ d.n < f.n
  BY <1>1, <1>5, EventNumbers DEF Takes, Alternation
<1>8. ASSUME NEW c \in sent', c.kind = "created"
      PROVE  /\ \A f \in sent' : f.n < c.n /\ f.kind # "deleted" =>
                \E d \in sent' : d.kind = "deleted" /\ f.n < d.n /\ d.n < c.n
             /\ \A h \in Handlers : Busy(handler'[h]) =>
                \E d \in sent' : d.kind = "deleted" /\ d.n < c.n
  <2>1. c \in sent /\ e \in sent /\ e.n < c.n
    BY <1>1 DEF Takes
  <2>2. ASSUME NEW f \in sent, f.n < c.n, f.kind # "deleted", e.n <= f.n
        PROVE  \E d \in sent' : d.kind = "deleted" /\ f.n < d.n /\ d.n < c.n
    BY <1>5, <1>8, <2>1, <2>2 DEF Alternation
  <2>3. \A f \in sent' : f \in sent /\ e.n <= f.n
    BY <1>1, EventNumbers DEF Takes
  <2>4. QED
    BY <2>1, <2>2, <2>3, EventNumbers DEF WorksOn
<1>9. QED
  BY <1>1, <1>2, <1>3, <1>6, <1>7, <1>8 DEF Alternation

\* What is on its way apart from the next event, and what is if that says nothing
\* of the matter.
LEMMA TakesLast ==
    ASSUME InstTypeOK, InOrder, NEW e, Takes(e)
    PROVE  /\ \A f \in sent' : f \in sent
           /\ \A f \in sent : f \in sent' \/ f = e
           /\ \A f \in sent' : e.n <= f.n
           /\ e \in sent /\ e.n <= e.n
BY EventNumbers DEF Takes, InOrder

LEMMA DeletedKeepsFollowInv ==
    ASSUME InstTypeOK, FollowInv, NEW e \in sent, Deleted(e), ~disordered'
    PROVE  FollowInv'
<1>1. Takes(e) /\ ~disordered /\ e.kind = "deleted"
  BY ReceivesTakes DEF Deleted, Receives
<1>2. /\ InOrder /\ HandlerKinds /\ Alternation /\ RowFollows /\ StatusFollows /\ Absent
      /\ \A r \in Repos : RepoFollows(r)
  BY <1>1 DEF FollowInv
<1>3. handler' = handler /\ github' = github /\ inst'.status = "none" /\ inst'.repos = {}
  BY DEF Deleted, NoRow
<1>4. \A h \in Handlers : ~Busy(handler[h]) /\ ~BeforeRow(handler[h]) /\ handler[h].pc # "repos"
  BY <1>1 DEF Takes, Busy, BeforeRow
<1>5. InOrder' /\ HandlerKinds' /\ Alternation' /\ \A f \in sent' : e.n < f.n
  BY <1>1, <1>2, <1>3, <1>4, TakesInOrder DEF WorksOn
<1>6. /\ \A f \in sent' : f \in sent /\ e.n <= f.n
      /\ \A f \in sent : f \in sent' \/ f = e
      /\ e \in sent /\ e.n <= e.n
  BY <1>1, <1>2, TakesLast
<1>7. RowFollows'
  <2>1. (\A f \in sent' : ~Presence(f)) => ~github.installed
    BY <1>1, <1>2, <1>6, EventNumbers DEF Alternation, Presence
  <2>2. github.installed \in BOOLEAN
    BY DEF InstTypeOK
  <2>3. QED
    BY <1>3, <1>4, <2>1, <2>2 DEF RowFollows, Present
<1>8. StatusFollows'
  BY <1>1, <1>2, <1>3, <1>4, <1>6 DEF StatusFollows, Status
<1>9. ASSUME NEW r \in Repos PROVE RepoFollows(r)'
  BY <1>1, <1>2, <1>3, <1>4, <1>6 DEF RepoFollows, Touches, Presence, Gives, WillTouch
<1>10. Absent'
  BY <1>2, <1>3 DEF Absent
<1>11. QED
  BY <1>5, <1>7, <1>8, <1>9, <1>10 DEF FollowInv

LEMMA StatusKeepsFollowInv ==
    ASSUME InstTypeOK, FollowInv, NEW e \in sent, StatusChanged(e), ~disordered'
    PROVE  FollowInv'
<1>1. Takes(e) /\ ~disordered /\ e.kind \in {"suspend", "unsuspend"}
  BY ReceivesTakes DEF StatusChanged, Receives
<1>2. /\ InOrder /\ HandlerKinds /\ Alternation /\ RowFollows /\ StatusFollows /\ Absent
      /\ \A r \in Repos : RepoFollows(r)
  BY <1>1 DEF FollowInv
<1>3. /\ handler' = handler /\ github' = github
      /\ inst'.repos = inst.repos /\ inst'.id = inst.id /\ Present' = Present
      /\ Present => (inst'.status = "SUSPENDED") = (e.kind = "suspend")
      /\ ~Present => inst'.status = "none"
  <2>1. inst \in InstallationRows
    BY DEF InstTypeOK
  <2>2. CASE Present
    <3>1. PICK s \in {"SUSPENDED", "ACTIVE"} :
              (s = "SUSPENDED") = (e.kind = "suspend") /\ inst' = [inst EXCEPT !.status = s]
      BY <2>2 DEF StatusChanged
    <3>2. QED
      BY <2>1, <2>2, <3>1 DEF StatusChanged, InstallationRows, Present
  <2>3. CASE ~Present
    BY <2>3 DEF StatusChanged, Present
  <2>4. QED
    BY <2>2, <2>3
<1>4. \A h \in Handlers : ~Busy(handler[h]) /\ ~BeforeRow(handler[h]) /\ handler[h].pc # "repos"
  BY <1>1 DEF Takes, Busy, BeforeRow
<1>5. InOrder' /\ HandlerKinds' /\ Alternation' /\ \A f \in sent' : e.n < f.n
  BY <1>1, <1>2, <1>3, <1>4, TakesInOrder DEF WorksOn
<1>6. /\ \A f \in sent' : f \in sent /\ e.n <= f.n
      /\ \A f \in sent : f \in sent' \/ f = e
      /\ e \in sent /\ e.n <= e.n
  BY <1>1, <1>2, TakesLast
<1>7. ~Presence(e) /\ Status(e) /\ \A r \in Repos : ~Touches(e, r)
  BY <1>1 DEF Presence, Status, Touches
<1>8. RowFollows'
  BY <1>2, <1>3, <1>4, <1>6, <1>7 DEF RowFollows
<1>9. StatusFollows'
  <2>1. \A f \in sent' : Status(f) /\ (\A g \in sent' : Status(g) => g.n <= f.n) =>
            github.suspended = (f.kind = "suspend")
    BY <1>2, <1>6 DEF StatusFollows
  <2>2. ASSUME \A f \in sent' : ~Status(f) PROVE github.suspended = (inst'.status = "SUSPENDED")
    <3>1. \A f \in sent : ~Presence(f)
      BY <1>6, <1>7, <2>2 DEF Presence, Status
    <3>2. Present = github.installed
      BY <1>2, <1>4, <3>1 DEF RowFollows
    <3>3. github.suspended = (e.kind = "suspend")
      BY <1>2, <1>6, <1>7, <2>2 DEF StatusFollows
    <3>4. github.suspended \in BOOLEAN
      BY DEF InstTypeOK
    <3>5. QED
      BY <1>2, <1>3, <3>2, <3>3, <3>4 DEF Absent
  <2>3. QED
    BY <1>3, <1>4, <2>1, <2>2 DEF StatusFollows
<1>10. ASSUME NEW r \in Repos PROVE RepoFollows(r)'
  <2>1. ~Touches(e, r) /\ RepoFollows(r)
    BY <1>2, <1>7
  <2>2. \A f \in sent : Touches(f, r) => f \in sent'
    BY <1>6, <2>1
  <2>3. \A f \in sent' : f \in sent
    BY <1>6
  <2>4. (\A d \in sent' : d.kind # "deleted") => \A d \in sent : d.kind # "deleted"
    BY <1>1, <1>6
  <2>5. QED
    BY <1>3, <2>1, <2>2, <2>3, <2>4 DEF RepoFollows
<1>11. Absent'
  BY <1>2, <1>3 DEF Absent
<1>12. QED
  BY <1>5, <1>8, <1>9, <1>10, <1>11 DEF FollowInv

LEMMA CreatedKeepsFollowInv ==
    ASSUME InstTypeOK, FollowInv, NEW h \in Handlers, NEW e \in sent, Created(h, e), ~disordered'
    PROVE  FollowInv'
<1>1. Takes(e) /\ ~disordered /\ e.kind = "created"
  BY ReceivesTakes DEF Created, Receives
<1>2. /\ InOrder /\ HandlerKinds /\ Alternation /\ RowFollows /\ StatusFollows /\ Absent
      /\ \A r \in Repos : RepoFollows(r)
  BY <1>1 DEF FollowInv
<1>3. /\ github' = github /\ inst' = inst
      /\ handler'[h].event = e /\ BeforeRow(handler'[h])
      /\ \A g \in Handlers : g # h => handler'[g] = handler[g]
  <2>1. handler \in [Handlers -> HandlerStates]
    BY DEF InstTypeOK
  <2>2. PICK x : /\ handler' = [handler EXCEPT ![h] = x]
                 /\ \/ x = [handler[h] EXCEPT !.pc = "account", !.event = e]
                    \/ \E a : x = [handler[h] EXCEPT !.pc = "row", !.event = e, !.account = a]
    BY DEF Created
  <2>3. x.event = e /\ BeforeRow(x)
    BY <2>1, <2>2 DEF HandlerStates, BeforeRow
  <2>4. QED
    BY <2>1, <2>2, <2>3 DEF Created
<1>4. \A g \in Handlers : ~Busy(handler[g]) /\ ~BeforeRow(handler[g]) /\ handler[g].pc # "repos"
  BY <1>1 DEF Takes, Busy, BeforeRow
<1>5. \A g \in Handlers : g # h => ~Busy(handler'[g]) /\ ~BeforeRow(handler'[g]) /\ handler'[g].pc # "repos"
  BY <1>3, <1>4
<1>6. InOrder' /\ HandlerKinds' /\ Alternation' /\ \A f \in sent' : e.n < f.n
  BY <1>1, <1>2, <1>3, <1>5, TakesInOrder DEF WorksOn, Busy, BeforeRow
<1>7. /\ \A f \in sent' : f \in sent /\ e.n <= f.n
      /\ \A f \in sent : f \in sent' \/ f = e
      /\ e \in sent /\ e.n <= e.n
  BY <1>1, <1>2, TakesLast
<1>8. RowFollows'
  BY <1>3, <1>5 DEF RowFollows, BeforeRow
<1>9. StatusFollows'
  <2>1. \A f \in sent' : Status(f) /\ (\A g \in sent' : Status(g) => g.n <= f.n) =>
            github.suspended = (f.kind = "suspend")
    BY <1>2, <1>7 DEF StatusFollows
  <2>2. (\A f \in sent' : ~Status(f)) => ~github.suspended
    BY <1>1, <1>2, <1>7 DEF StatusFollows, Status
  <2>3. QED
    BY <1>3, <2>1, <2>2 DEF StatusFollows
<1>10. ASSUME NEW r \in Repos PROVE RepoFollows(r)'
  <2>1. Touches(e, r) /\ RepoFollows(r)
    BY <1>1, <1>2 DEF Touches, Presence
  <2>2. ASSUME NEW f \in sent', Touches(f, r), \A g \in sent' : Touches(g, r) => g.n <= f.n
        PROVE  /\ r \in github.repos <=> Gives(f, r)
               /\ f.kind = "created" /\ ~Gives(f, r) /\ (\A d \in sent' : d.kind # "deleted") =>
                     r \notin inst.repos
    BY <1>1, <1>7, <2>1, <2>2 DEF RepoFollows
  <2>3. ASSUME \A f \in sent' : ~Touches(f, r)
        PROVE  /\ r \in github.repos <=> Gives(e, r)
               /\ ~Gives(e, r) => r \notin inst.repos
    <3>1. \A d \in sent : d.kind # "deleted"
      BY <1>1, <1>7, <2>3 DEF Touches, Presence
    <3>2. \A f \in sent : Touches(f, r) => f.n <= e.n
      BY <1>7, <2>3
    <3>3. QED
      BY <1>1, <2>1, <3>1, <3>2 DEF RepoFollows
  <2>4. \A g \in Handlers : WillTouch(handler'[g], r) => g = h
    BY <1>5 DEF WillTouch
  <2>5. WillTouch(handler'[h], r)
    BY <1>3 DEF WillTouch
  <2>6. QED
    BY <1>3, <2>2, <2>3, <2>4, <2>5 DEF RepoFollows
<1>11. Absent'
  BY <1>2, <1>3 DEF Absent, Present
<1>12. QED
  BY <1>6, <1>8, <1>9, <1>10, <1>11 DEF FollowInv

LEMMA ReposChangedKeepsFollowInv ==
    ASSUME InstTypeOK, FollowInv, NEW h \in Handlers, NEW e \in sent, ReposChanged(h, e), ~disordered'
    PROVE  FollowInv'
<1>1. Takes(e) /\ ~disordered /\ e.kind \in {"added", "removed"}
  BY ReceivesTakes DEF ReposChanged, Receives
<1>2. /\ InOrder /\ HandlerKinds /\ Alternation /\ RowFollows /\ StatusFollows /\ Absent
      /\ \A r \in Repos : RepoFollows(r)
  BY <1>1 DEF FollowInv
<1>3. /\ github' = github /\ inst' = inst
      /\ \A g \in Handlers : g # h => handler'[g] = handler[g]
      /\ IF Present /\ e.repos # {}
         THEN /\ handler'[h].pc = "repos" /\ handler'[h].event = e /\ handler'[h].inst = inst.id
              /\ handler'[h].left = e.repos
         ELSE handler'[h] = handler[h]
  <2>1. handler \in [Handlers -> HandlerStates]
    BY DEF InstTypeOK
  <2>2. PICK x : x = [handler[h] EXCEPT !.pc = "repos", !.event = e, !.inst = inst.id, !.left = e.repos]
    OBVIOUS
  <2>3. x.pc = "repos" /\ x.event = e /\ x.inst = inst.id /\ x.left = e.repos
    BY <2>1, <2>2 DEF HandlerStates
  <2>4. handler' = [handler EXCEPT ![h] = IF Present /\ e.repos # {} THEN x ELSE handler[h]]
    BY <2>2 DEF ReposChanged
  <2>5. QED
    BY <2>1, <2>3, <2>4 DEF ReposChanged
<1>4. \A g \in Handlers : ~Busy(handler[g]) /\ ~BeforeRow(handler[g]) /\ handler[g].pc # "repos"
  BY <1>1 DEF Takes, Busy, BeforeRow
<1>5. /\ \A g \in Handlers : g # h => ~Busy(handler'[g]) /\ handler'[g].pc # "repos"
      /\ \A g \in Handlers : ~BeforeRow(handler'[g])
      /\ Busy(handler'[h]) => handler'[h].pc = "repos" /\ Present /\ e.repos # {}
  BY <1>3, <1>4 DEF BeforeRow, Busy
<1>6. InOrder' /\ HandlerKinds' /\ Alternation' /\ \A f \in sent' : e.n < f.n
  <2>1. WorksOn(e)
    BY <1>1, <1>3, <1>5 DEF WorksOn
  <2>2. QED
    BY <1>1, <1>2, <2>1, TakesInOrder
<1>7. /\ \A f \in sent' : f \in sent /\ e.n <= f.n
      /\ \A f \in sent : f \in sent' \/ f = e
      /\ e \in sent /\ e.n <= e.n
  BY <1>1, <1>2, TakesLast
<1>8. ~Presence(e) /\ ~Status(e) /\ \A r \in Repos : Touches(e, r) <=> r \in e.repos
  BY <1>1 DEF Presence, Status, Touches
<1>9. (\A f \in sent' : ~Presence(f)) => Present = github.installed
  BY <1>2, <1>4, <1>7, <1>8 DEF RowFollows
<1>10. RowFollows'
  <2>1. ASSUME NEW g \in Handlers, handler'[g].pc = "repos" PROVE Present' /\ inst'.id = handler'[g].inst
    <3>1. g = h /\ Busy(handler'[h])
      BY <1>5, <2>1 DEF Busy
    <3>2. QED
      BY <1>3, <1>4, <1>5, <3>1 DEF Present
  <2>2. (\A f \in sent' : ~Presence(f)) => Present' = github'.installed
    BY <1>3, <1>9 DEF Present
  <2>3. QED
    BY <2>1, <2>2 DEF RowFollows
<1>11. StatusFollows'
  <2>1. \A f \in sent : Status(f) <=> f \in sent' /\ Status(f)
    BY <1>7, <1>8
  <2>2. \A f \in sent' : f \in sent
    BY <1>7
  <2>3. /\ ~\E g \in Handlers : BeforeRow(handler[g])
        /\ ~\E g \in Handlers : BeforeRow(handler'[g])
    BY <1>4, <1>5
  <2>4. StatusFollows
    BY <1>2
  <2>5. ASSUME NEW f \in sent', Status(f), \A g \in sent' : Status(g) => g.n <= f.n
        PROVE  github'.suspended = (f.kind = "suspend")
    <3>1. f \in sent /\ \A g \in sent : Status(g) => g.n <= f.n
      BY <2>1, <2>2, <2>5
    <3>2. QED
      BY <1>3, <2>4, <2>5, <3>1 DEF StatusFollows
  <2>6. ASSUME \A f \in sent' : ~Status(f)
        PROVE  github'.suspended = (inst'.status = "SUSPENDED")
    <3>1. \A f \in sent : ~Status(f)
      BY <2>1, <2>6
    <3>2. QED
      BY <1>3, <2>3, <2>4, <3>1 DEF StatusFollows
  <2>7. QED
    BY <2>3, <2>5, <2>6 DEF StatusFollows
<1>12. ASSUME NEW r \in Repos PROVE RepoFollows(r)'
  <2>1. RepoFollows(r)
    BY <1>2
  <2>2. ASSUME NEW f \in sent', Touches(f, r), \A g \in sent' : Touches(g, r) => g.n <= f.n
        PROVE  /\ r \in github.repos <=> Gives(f, r)
               /\ f.kind = "created" /\ ~Gives(f, r) /\ (\A d \in sent' : d.kind # "deleted") =>
                     r \notin inst.repos
    BY <1>1, <1>7, <2>1, <2>2 DEF RepoFollows
  <2>3. ASSUME \A f \in sent' : ~Touches(f, r)
        PROVE  IF WillTouch(handler'[h], r)
               THEN r \in github.repos <=> Gives(e, r)
               ELSE r \in inst.repos <=> r \in github.repos
    <3>1. WillTouch(handler'[h], r) <=> Present /\ r \in e.repos
      BY <1>3, <1>4, <1>5 DEF WillTouch
    <3>2. CASE r \notin e.repos
      <4>1. \A f \in sent : ~Touches(f, r)
        BY <1>7, <1>8, <2>3, <3>2
      <4>2. QED
        BY <1>4, <2>1, <3>1, <3>2, <4>1 DEF RepoFollows, WillTouch
    <3>3. CASE r \in e.repos /\ Present
      <4>1. \A f \in sent : Touches(f, r) => f.n <= e.n
        BY <1>7, <2>3
      <4>2. QED
        BY <1>8, <2>1, <3>1, <3>3, <4>1 DEF RepoFollows
    <3>4. CASE r \in e.repos /\ ~Present
      <4>1. \A f \in sent' : ~Presence(f)
        BY <2>3 DEF Touches
      <4>2. github.installed \in BOOLEAN
        BY DEF InstTypeOK
      <4>3. QED
        BY <1>2, <1>9, <3>1, <3>4, <4>1, <4>2 DEF Absent, Present
    <3>5. QED
      BY <3>2, <3>3, <3>4
  <2>4. /\ \A g \in Handlers : WillTouch(handler'[g], r) => g = h
        /\ WillTouch(handler'[h], r) => handler'[h].event = e
    BY <1>3, <1>5 DEF WillTouch, Busy
  <2>5. QED
    BY <1>3, <1>5, <2>2, <2>3, <2>4 DEF RepoFollows
<1>13. Absent'
  BY <1>2, <1>3 DEF Absent, Present
<1>14. QED
  BY <1>6, <1>10, <1>11, <1>12, <1>13 DEF FollowInv

-------------------------------------------------------------------------------
(***************************************************************************)
(* The handler at work.                                                    *)
(***************************************************************************)
\* What holds of the one handler that is at work.
LEMMA AtWork ==
    ASSUME FollowInv, ~disordered, NEW h \in Handlers, Busy(handler[h])
    PROVE  /\ InOrder /\ HandlerKinds /\ Alternation /\ RowFollows /\ StatusFollows /\ Absent
           /\ \A r \in Repos : RepoFollows(r)
           /\ \A g \in Handlers : g # h =>
                 ~Busy(handler[g]) /\ ~BeforeRow(handler[g]) /\ handler[g].pc # "repos"
           /\ (\A d \in sent : d.kind # "deleted") => \A f \in sent : f.kind # "created"
BY DEF FollowInv, InOrder, Alternation, Busy, BeforeRow

\* A handler that goes on with its event, or ends.
LEMMA HandlerInOrder ==
    ASSUME FollowInv, ~disordered, NEW h \in Handlers, Busy(handler[h]),
           UNCHANGED <<github, sent>>,
           \A g \in Handlers : g # h => handler'[g] = handler[g],
           Busy(handler'[h]) => /\ handler'[h].event = handler[h].event
                                /\ BeforeRow(handler'[h]) => BeforeRow(handler[h])
                                /\ handler'[h].pc = "repos" =>
                                      /\ BeforeRow(handler[h]) \/ handler[h].pc = "repos"
                                      /\ handler'[h].left \subseteq handler[h].event.repos
    PROVE  InOrder' /\ HandlerKinds' /\ Alternation'
<1>1. InOrder /\ HandlerKinds /\ Alternation
  BY AtWork
<1>2. \A g \in Handlers : Busy(handler'[g]) => Busy(handler[g]) /\ handler'[g].event = handler[g].event
  OBVIOUS
<1>3. InOrder'
  BY <1>1, <1>2 DEF InOrder
<1>4. HandlerKinds'
  BY <1>1 DEF HandlerKinds, Busy, BeforeRow
<1>5. Alternation'
  BY <1>1, <1>2 DEF Alternation
<1>6. QED
  BY <1>3, <1>4, <1>5

LEMMA CreateAccountKeepsFollowInv ==
    ASSUME InstTypeOK, FollowInv, NEW h \in Handlers, CreateAccount(h), ~disordered
    PROVE  FollowInv'
<1>1. /\ Busy(handler[h]) /\ BeforeRow(handler[h]) /\ UNCHANGED <<github, sent, inst, disordered>>
      /\ handler \in [Handlers -> HandlerStates]
  BY DEF CreateAccount, HandlerOnly, Busy, BeforeRow, InstTypeOK
<1>2. PICK x : x = [handler[h] EXCEPT !.pc = "row", !.account = Placeholder]
  OBVIOUS
<1>3. BeforeRow(x) /\ x.pc = "row" /\ x.event = handler[h].event
  BY <1>1, <1>2 DEF HandlerStates, BeforeRow
<1>4. handler' = [handler EXCEPT ![h] = x]
  BY <1>2 DEF CreateAccount
<1>5. handler'[h] = x /\ \A g \in Handlers : g # h => handler'[g] = handler[g]
  BY <1>1, <1>4
<1>6. InOrder' /\ HandlerKinds' /\ Alternation'
  BY <1>1, <1>3, <1>5, HandlerInOrder
<1>7. \A g \in Handlers : /\ BeforeRow(handler'[g]) <=> BeforeRow(handler[g])
                          /\ handler'[g].pc = "repos" <=> handler[g].pc = "repos"
                          /\ handler'[g].event = handler[g].event
                          /\ g # h => handler'[g] = handler[g]
  BY <1>1, <1>3, <1>5 DEF BeforeRow
<1>8. \A r \in Repos, g \in Handlers : WillTouch(handler'[g], r) <=> WillTouch(handler[g], r)
  BY <1>1, <1>3, <1>5, <1>7 DEF WillTouch
<1>9. RowFollows' /\ StatusFollows' /\ Absent'
  BY <1>1, <1>3, <1>5, <1>7, AtWork DEF RowFollows, StatusFollows, Absent, Present
<1>10. \A r \in Repos : RepoFollows(r)'
  BY <1>1, <1>7, <1>8, AtWork DEF RepoFollows
<1>11. QED
  BY <1>6, <1>9, <1>10 DEF FollowInv

\* The loop over the repositories: h goes on with left, or ends.
Continues(h, id, left) ==
    /\ \A g \in Handlers : g # h => handler'[g] = handler[g]
    /\ handler'[h].event = handler[h].event \/ left = {}
    /\ ~BeforeRow(handler'[h])
    /\ IF left = {} THEN ~Busy(handler'[h])
       ELSE handler'[h].pc = "repos" /\ handler'[h].inst = id /\ handler'[h].left = left

LEMMA AfterReposContinues ==
    ASSUME InstTypeOK, NEW h \in Handlers, NEW id, NEW left, AfterRepos(h, id, left)
    PROVE  Continues(h, id, left)
<1>1. handler \in [Handlers -> HandlerStates]
  BY DEF InstTypeOK
<1>2. PICK x : x = [handler[h] EXCEPT !.pc = "repos", !.inst = id, !.left = left]
  OBVIOUS
<1>3. x.pc = "repos" /\ x.inst = id /\ x.left = left /\ x.event = handler[h].event
  BY <1>1, <1>2 DEF HandlerStates
<1>4. handler' = [handler EXCEPT ![h] = IF left = {} THEN IdleHandler ELSE x]
  BY <1>2 DEF AfterRepos
<1>5. IdleHandler.pc = "idle"
  BY DEF IdleHandler
<1>6. /\ handler'[h] = IF left = {} THEN IdleHandler ELSE x
      /\ \A g \in Handlers : g # h => handler'[g] = handler[g]
  BY <1>1, <1>4
<1>7. QED
  BY <1>3, <1>5, <1>6 DEF Continues, BeforeRow, Busy

LEMMA UpsertRowKeepsFollowInv ==
    ASSUME InstTypeOK, FollowInv, NEW h \in Handlers, UpsertRow(h), ~disordered
    PROVE  FollowInv'
<1>1. Busy(handler[h]) /\ BeforeRow(handler[h]) /\ UNCHANGED <<github, sent, disordered>>
  BY DEF UpsertRow, HandlerOnly, Busy, BeforeRow
<1>2. /\ InOrder /\ HandlerKinds /\ Alternation /\ RowFollows /\ StatusFollows /\ Absent
      /\ \A r \in Repos : RepoFollows(r)
      /\ \A g \in Handlers : g # h => ~Busy(handler[g]) /\ ~BeforeRow(handler[g]) /\ handler[g].pc # "repos"
      /\ (\A d \in sent : d.kind # "deleted") => \A f \in sent : f.kind # "created"
  BY <1>1, AtWork
<1>3. PICK e : e = handler[h].event
  OBVIOUS
<1>4. e.kind = "created"
  BY <1>1, <1>2, <1>3 DEF HandlerKinds
<1>5. inst'.status = "ACTIVE" /\ inst'.repos = inst.repos
  BY <1>2 DEF UpsertRow, NoRow, InstTypeOK, InstallationRows, Absent
<1>6. Continues(h, inst'.id, e.repos)
  BY <1>3, AfterReposContinues DEF UpsertRow
<1>7. /\ \A g \in Handlers : g # h => ~Busy(handler'[g]) /\ handler'[g].pc # "repos"
      /\ \A g \in Handlers : ~BeforeRow(handler'[g])
      /\ \A g \in Handlers : g # h => handler'[g] = handler[g]
      /\ Busy(handler'[h]) => /\ handler'[h].event = e /\ handler'[h].pc = "repos"
                              /\ handler'[h].inst = inst'.id
      /\ handler'[h].pc = "repos" => handler'[h].left = e.repos /\ Busy(handler'[h])
      /\ handler'[h].pc # "repos" => e.repos = {}
  BY <1>2, <1>3, <1>6 DEF Continues, BeforeRow, Busy
<1>8. InOrder' /\ HandlerKinds' /\ Alternation'
  BY <1>1, <1>3, <1>7, HandlerInOrder
<1>9. RowFollows'
  <2>1. (\A f \in sent : ~Presence(f)) => github.installed
    BY <1>1, <1>2 DEF Alternation, Presence
  <2>2. Present' = TRUE
    BY <1>5 DEF Present
  <2>3. \A g \in Handlers : handler'[g].pc = "repos" => inst'.id = handler'[g].inst
    BY <1>7
  <2>4. github.installed \in BOOLEAN
    BY DEF InstTypeOK
  <2>5. (\A f \in sent' : ~Presence(f)) => Present' = github'.installed
    BY <1>1, <2>1, <2>2, <2>4
  <2>6. QED
    BY <2>2, <2>3, <2>5 DEF RowFollows
<1>10. StatusFollows'
  <2>1. (\A f \in sent : ~Status(f)) => ~github.suspended
    BY <1>1, <1>2 DEF StatusFollows
  <2>2. ~(\E g \in Handlers : BeforeRow(handler'[g]))
    BY <1>7
  <2>3. (\A f \in sent' : ~Status(f)) => github'.suspended = (inst'.status = "SUSPENDED")
    BY <1>1, <1>5, <2>1 DEF InstTypeOK
  <2>4. ASSUME NEW f \in sent', Status(f), \A g \in sent' : Status(g) => g.n <= f.n
        PROVE  github'.suspended = (f.kind = "suspend")
    BY <1>1, <1>2, <2>4 DEF StatusFollows
  <2>5. QED
    BY <2>2, <2>3, <2>4 DEF StatusFollows
<1>11. ASSUME NEW r \in Repos PROVE RepoFollows(r)'
  <2>1. RepoFollows(r)
    BY <1>2
  <2>2. ASSUME NEW f \in sent', Touches(f, r), \A g \in sent' : Touches(g, r) => g.n <= f.n
        PROVE  /\ r \in github'.repos <=> Gives(f, r)
               /\ f.kind = "created" /\ ~Gives(f, r) /\ (\A d \in sent' : d.kind # "deleted") =>
                     r \notin inst'.repos
    BY <1>1, <1>5, <2>1, <2>2 DEF RepoFollows
  <2>3. ASSUME \A f \in sent' : ~Touches(f, r)
        PROVE  /\ r \in github'.repos <=> r \in e.repos
               /\ r \notin e.repos => r \notin inst'.repos
    <3>1. WillTouch(handler[h], r)
      BY <1>1 DEF WillTouch
    <3>2. Gives(e, r) <=> r \in e.repos
      BY <1>4 DEF Gives
    <3>3. QED
      BY <1>1, <1>3, <1>5, <2>1, <2>3, <3>1, <3>2 DEF RepoFollows
  <2>4. \A g \in Handlers : WillTouch(handler'[g], r) => g = h /\ handler'[g].event = e
    BY <1>7 DEF WillTouch
  <2>5. WillTouch(handler'[h], r) <=> r \in e.repos
    BY <1>7 DEF WillTouch
  <2>6. Gives(e, r) <=> r \in e.repos
    BY <1>4 DEF Gives
  <2>7. QED
    BY <1>7, <2>2, <2>3, <2>4, <2>5, <2>6 DEF RepoFollows
<1>12. Absent'
  BY <1>1, <1>2, <1>5 DEF Absent, Present
<1>13. QED
  BY <1>8, <1>9, <1>10, <1>11, <1>12 DEF FollowInv

LEMMA WriteRepoKeepsFollowInv ==
    ASSUME InstTypeOK, FollowInv, NEW h \in Handlers, WriteRepo(h), ~disordered
    PROVE  FollowInv'
<1>1. Busy(handler[h]) /\ handler[h].pc = "repos" /\ UNCHANGED <<github, sent, disordered>>
  BY DEF WriteRepo, HandlerOnly, Busy
<1>2. /\ InOrder /\ HandlerKinds /\ Alternation /\ RowFollows /\ StatusFollows /\ Absent
      /\ \A r \in Repos : RepoFollows(r)
      /\ \A g \in Handlers : g # h => ~Busy(handler[g]) /\ ~BeforeRow(handler[g]) /\ handler[g].pc # "repos"
      /\ (\A d \in sent : d.kind # "deleted") => \A f \in sent : f.kind # "created"
  BY <1>1, AtWork
<1>3. PICK e : e = handler[h].event
  OBVIOUS
<1>4. e.kind \in {"created", "added", "removed"} /\ handler[h].left \subseteq e.repos
  BY <1>1, <1>2, <1>3 DEF HandlerKinds
<1>5. PICK q \in handler[h].left :
          /\ IF e.kind = "removed"
             THEN inst' = IF inst.id = handler[h].inst THEN [inst EXCEPT !.repos = inst.repos \ {q}] ELSE inst
             ELSE /\ Present /\ inst.id = handler[h].inst
                  /\ inst' = [inst EXCEPT !.repos = inst.repos \cup {q}]
          /\ AfterRepos(h, handler[h].inst, handler[h].left \ {q})
  BY <1>3 DEF WriteRepo
<1>6. /\ inst'.status = inst.status /\ inst'.id = inst.id
      /\ \A r \in Repos \ {q} : r \in inst'.repos <=> r \in inst.repos
      /\ e.kind # "removed" => q \in inst'.repos
      /\ e.kind = "removed" /\ inst.id = handler[h].inst => q \notin inst'.repos
      /\ ~Present => inst'.repos = {}
  <2>1. inst \in InstallationRows
    BY DEF InstTypeOK
  <2>2. ~Present => inst.repos = {}
    BY <1>2 DEF Absent
  <2>3. QED
    BY <1>5, <2>1, <2>2 DEF InstallationRows
<1>7. Continues(h, handler[h].inst, handler[h].left \ {q})
  BY <1>5, AfterReposContinues
<1>8. /\ \A g \in Handlers : g # h => ~Busy(handler'[g]) /\ handler'[g].pc # "repos"
      /\ \A g \in Handlers : ~BeforeRow(handler[g]) /\ ~BeforeRow(handler'[g])
      /\ \A g \in Handlers : g # h => handler'[g] = handler[g]
      /\ Busy(handler'[h]) => /\ handler'[h].event = e /\ handler'[h].pc = "repos"
                              /\ handler'[h].inst = handler[h].inst
      /\ handler'[h].pc = "repos" => handler'[h].left = handler[h].left \ {q} /\ Busy(handler'[h])
      /\ handler'[h].pc # "repos" => handler[h].left \ {q} = {}
  BY <1>1, <1>2, <1>3, <1>7 DEF Continues, BeforeRow, Busy
<1>9. InOrder' /\ HandlerKinds' /\ Alternation'
  BY <1>1, <1>3, <1>4, <1>8, HandlerInOrder
<1>10. Present' = Present
  BY <1>6 DEF Present
<1>11. RowFollows'
  <2>1. \A g \in Handlers : handler'[g].pc = "repos" =>
            handler[g].pc = "repos" /\ handler'[g].inst = handler[g].inst
    BY <1>1, <1>8
  <2>2. (\A f \in sent' : ~Presence(f)) => Present' = github'.installed
    BY <1>1, <1>2, <1>8, <1>10 DEF RowFollows
  <2>3. QED
    BY <1>1, <1>2, <1>6, <1>10, <2>1, <2>2 DEF RowFollows
<1>12. StatusFollows'
  BY <1>1, <1>2, <1>6, <1>8 DEF StatusFollows
<1>13. ASSUME NEW r \in Repos PROVE RepoFollows(r)'
  <2>1. RepoFollows(r)
    BY <1>2
  <2>2. ASSUME NEW f \in sent', Touches(f, r), \A g \in sent' : Touches(g, r) => g.n <= f.n
        PROVE  /\ r \in github'.repos <=> Gives(f, r)
               /\ f.kind = "created" /\ ~Gives(f, r) /\ (\A d \in sent' : d.kind # "deleted") =>
                     r \notin inst'.repos
    BY <1>1, <1>2, <2>1, <2>2 DEF RepoFollows
  <2>3. ASSUME \A f \in sent' : ~Touches(f, r)
        PROVE  IF WillTouch(handler'[h], r)
               THEN r \in github'.repos <=> Gives(e, r)
               ELSE r \in inst'.repos <=> r \in github'.repos
    <3>1. WillTouch(handler[h], r) <=> r \in handler[h].left
      BY <1>1, <1>8 DEF WillTouch
    <3>2. WillTouch(handler'[h], r) <=> r \in handler[h].left \ {q}
      BY <1>8 DEF WillTouch
    <3>3. r \in handler[h].left => (r \in github'.repos <=> Gives(e, r))
      BY <1>1, <1>3, <2>1, <2>3, <3>1 DEF RepoFollows
    <3>4. CASE r # q
      <4>1. r \notin handler[h].left => (r \in inst'.repos <=> r \in github'.repos)
        <5>1. \A g \in Handlers : g # h => ~WillTouch(handler[g], r)
          BY <1>2 DEF WillTouch
        <5>2. QED
          BY <1>1, <1>6, <2>1, <2>3, <3>1, <3>4, <5>1 DEF RepoFollows
      <4>2. QED
        BY <3>2, <3>3, <3>4, <4>1
    <3>5. CASE r = q
      <4>1. Present /\ inst.id = handler[h].inst
        <5>1. \A f \in sent : ~Presence(f)
          BY <1>1, <2>3 DEF Touches
        <5>2. QED
          BY <1>1, <1>2, <5>1 DEF RowFollows
      <4>2. Gives(e, r) <=> e.kind # "removed"
        BY <1>4, <1>5, <3>5 DEF Gives
      <4>3. QED
        BY <1>6, <3>2, <3>3, <3>5, <4>1, <4>2
    <3>6. QED
      BY <3>4, <3>5
  <2>4. \A g \in Handlers : WillTouch(handler'[g], r) => g = h /\ handler'[g].event = e
    BY <1>8 DEF WillTouch
  <2>5. QED
    BY <1>8, <2>2, <2>3, <2>4 DEF RepoFollows
<1>14. Absent'
  BY <1>1, <1>2, <1>6, <1>10 DEF Absent
<1>15. QED
  BY <1>9, <1>11, <1>12, <1>13, <1>14 DEF FollowInv

-------------------------------------------------------------------------------
(***************************************************************************)
(* The dashboard, the first state, and the steps that leave order behind.  *)
(***************************************************************************)
LEMMA SyncKeepsFollowInv ==
    ASSUME InstTypeOK, FollowInv, NEW u \in Users, Sync(u), ~disordered'
    PROVE  FollowInv'
<1>1. /\ UNCHANGED <<github, sent, handler>> /\ ~disordered
      /\ github.installed = TRUE /\ github.suspended = FALSE
  BY DEF Sync, InstTypeOK
<1>2. /\ InOrder /\ HandlerKinds /\ Alternation /\ RowFollows /\ StatusFollows /\ Absent
      /\ \A r \in Repos : RepoFollows(r)
  BY <1>1 DEF FollowInv
<1>3. PICK repos \in SUBSET Repos :
          /\ repos \subseteq github.repos
          /\ inst' = IF Present
                     THEN [inst EXCEPT !.status = "ACTIVE", !.owner = u, !.repos = inst.repos \cup repos,
                                       !.moved = inst.moved \/ inst.owner # u]
                     ELSE [NoRow(inst.id + 1) EXCEPT !.status = "ACTIVE", !.owner = u, !.repos = repos]
  BY DEF Sync
<1>4. inst'.status = "ACTIVE" /\ inst'.repos = inst.repos \cup repos /\ (Present => inst'.id = inst.id)
  <2>1. inst \in InstallationRows /\ (~Present => inst.repos = {})
    BY <1>2 DEF InstTypeOK, Absent
  <2>2. CASE Present
    BY <1>3, <2>1, <2>2 DEF InstallationRows
  <2>3. CASE ~Present
    BY <1>3, <2>1, <2>3 DEF NoRow
  <2>4. QED
    BY <2>2, <2>3
<1>5. InOrder' /\ HandlerKinds' /\ Alternation'
  BY <1>1, <1>2 DEF InOrder, HandlerKinds, Alternation
<1>6. Present' = TRUE
  BY <1>4 DEF Present
<1>7. RowFollows'
  BY <1>1, <1>2, <1>4, <1>6 DEF RowFollows
<1>8. StatusFollows'
  BY <1>1, <1>2, <1>4 DEF StatusFollows
<1>9. ASSUME NEW r \in Repos PROVE RepoFollows(r)'
  <2>1. RepoFollows(r)
    BY <1>2
  <2>2. r \in inst'.repos <=> r \in inst.repos \/ r \in repos
    BY <1>4
  <2>3. r \in repos => r \in github.repos
    BY <1>3
  <2>4. QED
    BY <1>1, <2>1, <2>2, <2>3 DEF RepoFollows
<1>10. Absent'
  BY <1>1, <1>2, <1>6 DEF Absent
<1>11. QED
  BY <1>5, <1>7, <1>8, <1>9, <1>10 DEF FollowInv

LEMMA DeleteKeepsFollowInv ==
    ASSUME InstTypeOK, FollowInv, NEW id \in removing, DeleteInstallation(id), ~disordered'
    PROVE  FollowInv'
<1>1. UNCHANGED <<github, sent, handler>> /\ ~disordered /\ github.installed = FALSE
  BY DEF DeleteInstallation, InstTypeOK
<1>2. /\ InOrder /\ HandlerKinds /\ Alternation /\ RowFollows /\ StatusFollows /\ Absent
      /\ \A r \in Repos : RepoFollows(r)
  BY <1>1 DEF FollowInv
<1>3. github.repos = {} /\ github.suspended = FALSE
  BY <1>1, <1>2 DEF Absent, InstTypeOK
<1>4. InOrder' /\ HandlerKinds' /\ Alternation'
  BY <1>1, <1>2 DEF InOrder, HandlerKinds, Alternation
<1>5. CASE inst' = inst
  <2>1. RowFollows' /\ StatusFollows' /\ Absent'
    BY <1>1, <1>2, <1>5 DEF RowFollows, StatusFollows, Absent, Present
  <2>2. \A r \in Repos : RepoFollows(r)'
    BY <1>1, <1>2, <1>5 DEF RepoFollows
  <2>3. QED
    BY <1>4, <2>1, <2>2 DEF FollowInv
<1>6. CASE inst' = NoRow(id)
  <2>1. inst'.status = "none" /\ inst'.repos = {}
    BY <1>6 DEF NoRow
  <2>2. (\A f \in sent : ~Presence(f)) => \A h \in Handlers : ~Busy(handler[h])
    BY <1>1, <1>2 DEF Alternation, Presence
  <2>3. Present' = FALSE
    BY <2>1 DEF Present
  <2>4. RowFollows'
    BY <1>1, <2>2, <2>3 DEF RowFollows, Busy
  <2>5. StatusFollows'
    BY <1>1, <1>2, <1>3, <2>1 DEF StatusFollows
  <2>6. ASSUME NEW r \in Repos PROVE RepoFollows(r)'
    BY <1>1, <1>2, <1>3, <2>1 DEF RepoFollows
  <2>7. Absent'
    BY <1>1, <1>2, <2>1 DEF Absent
  <2>8. QED
    BY <1>4, <2>4, <2>5, <2>6, <2>7 DEF FollowInv
<1>7. QED
  BY <1>5, <1>6 DEF DeleteInstallation

\* Whatever happens: what is not installed has no repositories, nor has a row that is
\* not there, and order that was left does not come back.
LEMMA AbsentStays ==
    ASSUME InstTypeOK, Absent, InstStep
    PROVE  Absent' /\ (disordered => disordered')
<1>1. inst \in InstallationRows
  BY DEF InstTypeOK
<1>2. CASE GitHubStep
  BY <1>2 DEF GitHubStep, IsInstalled, IsUninstalled, IsSuspended, IsUnsuspended, IsGiven, IsDenied, IsLost,
              SignsIn, Becomes, Tells, Absent, Present
<1>3. ASSUME NEW e \in sent, Deleted(e) \/ StatusChanged(e)
      PROVE  Absent' /\ (disordered => disordered')
  <2>1. UNCHANGED github /\ (disordered => disordered')
    BY <1>3 DEF Deleted, StatusChanged, Receives
  <2>2. ~Present' => inst'.repos = {}
    BY <1>1, <1>3 DEF Deleted, StatusChanged, NoRow, InstallationRows, Absent, Present
  <2>3. QED
    BY <2>1, <2>2 DEF Absent
<1>4. ASSUME NEW h \in Handlers, HandlerStep(h)
      PROVE  Absent' /\ (disordered => disordered')
  <2>1. UNCHANGED github /\ (disordered => disordered')
    <3>1. ASSUME NEW e \in sent, Created(h, e) \/ ReposChanged(h, e)
          PROVE  UNCHANGED github /\ (disordered => disordered')
      BY <3>1 DEF Created, ReposChanged, Receives
    <3>2. CASE CreateAccount(h) \/ UpsertRow(h) \/ WriteRepo(h) \/ HandlerFails(h)
      BY <3>2 DEF CreateAccount, UpsertRow, WriteRepo, HandlerFails, HandlerOnly
    <3>3. QED
      BY <1>4, <3>1, <3>2 DEF HandlerStep
  <2>2. UNCHANGED inst \/ UpsertRow(h) \/ WriteRepo(h)
    BY <1>4, Zenon DEF HandlerStep, Created, ReposChanged, CreateAccount, HandlerFails
  <2>3. ~Present' => inst'.repos = {}
    <3>1. CASE UNCHANGED inst
      BY <3>1 DEF Absent, Present
    <3>2. CASE UpsertRow(h)
      BY <1>1, <3>2 DEF UpsertRow, NoRow, InstallationRows, Present
    <3>3. CASE WriteRepo(h)
      BY <1>1, <3>3 DEF WriteRepo, InstallationRows, Present, Absent
    <3>4. QED
      BY <2>2, <3>1, <3>2, <3>3
  <2>4. QED
    BY <2>1, <2>3 DEF Absent
<1>5. CASE DashboardStep
  <2>1. ASSUME NEW u \in Users, Sync(u)
        PROVE  UNCHANGED github /\ (disordered => disordered') /\ Present'
    <3>1. UNCHANGED github /\ (disordered => disordered')
      BY <2>1 DEF Sync
    <3>2. inst'.status = "ACTIVE"
      BY <1>1, <2>1 DEF Sync, NoRow, InstallationRows
    <3>3. QED
      BY <3>1, <3>2 DEF Present
  <2>2. ASSUME NEW u \in Users, FindInstallation(u)
        PROVE  UNCHANGED <<github, inst>> /\ (disordered => disordered')
    BY <2>2 DEF FindInstallation
  <2>3. ASSUME NEW id \in removing, DeleteInstallation(id)
        PROVE  UNCHANGED github /\ (disordered => disordered') /\ (UNCHANGED inst \/ inst'.repos = {})
    BY <2>3 DEF DeleteInstallation, NoRow
  <2>4. QED
    BY <1>5, <2>1, <2>2, <2>3 DEF DashboardStep, Absent, Present
<1>6. QED
  BY <1>2, <1>3, <1>4, <1>5 DEF InstStep, EventStep

LEMMA InitFollows == InstInit => FollowInv
<1>1. SUFFICES ASSUME InstInit PROVE FollowInv
  OBVIOUS
<1>2. sent = {} /\ \A h \in Handlers : handler[h].pc = "idle"
  <2>1. sent = {} /\ \A h \in Handlers : handler[h] = IdleHandler
    BY <1>1 DEF InstInit
  <2>2. IdleHandler.pc = "idle"
    BY DEF IdleHandler
  <2>3. QED
    BY <2>1, <2>2
<1>3. /\ github.suspended = FALSE /\ github.repos = inst.repos
      /\ Present = github.installed /\ inst.status # "SUSPENDED"
      /\ github.installed \/ github.repos = {}
      /\ github.installed \in BOOLEAN
  <2>1. CASE /\ github = [installed |-> FALSE, suspended |-> FALSE, repos |-> {}, count |-> 0]
             /\ inst = NoRow(0)
    BY <2>1 DEF NoRow, Present
  <2>2. CASE /\ github = [installed |-> TRUE, suspended |-> FALSE, repos |-> Repos, count |-> 0]
             /\ inst = [id |-> 1, status |-> "ACTIVE", owner |-> Sender, repos |-> Repos, moved |-> FALSE]
    BY <2>2 DEF Present
  <2>3. QED
    BY <1>1, <2>1, <2>2 DEF InstInit
<1>4. InOrder /\ HandlerKinds /\ Alternation
  BY <1>2 DEF InOrder, HandlerKinds, Alternation, Busy, BeforeRow
<1>5. RowFollows /\ StatusFollows /\ Absent
  BY <1>2, <1>3 DEF RowFollows, StatusFollows, Absent, BeforeRow
<1>6. \A r \in Repos : RepoFollows(r)
  BY <1>2, <1>3 DEF RepoFollows, WillTouch, BeforeRow
<1>7. QED
  BY <1>4, <1>5, <1>6 DEF FollowInv

LEMMA UnchangedFollows ==
    ASSUME FollowInv, UNCHANGED <<github, sent, handler, inst, disordered>>
    PROVE  FollowInv'
<1>1. /\ InOrder' = InOrder /\ HandlerKinds' = HandlerKinds /\ Alternation' = Alternation
      /\ RowFollows' = RowFollows /\ StatusFollows' = StatusFollows /\ Absent' = Absent
  BY DEF InOrder, HandlerKinds, Alternation, RowFollows, StatusFollows, Absent, Present
<1>2. \A r \in Repos : RepoFollows(r)' = RepoFollows(r)
  BY DEF RepoFollows
<1>3. QED
  BY <1>1, <1>2 DEF FollowInv

LEMMA StepFollows ==
    ASSUME InstTypeOK, FollowInv, InstStep
    PROVE  FollowInv'
<1>1. Absent' /\ (disordered => disordered')
  BY AbsentStays DEF FollowInv
<1>2. CASE disordered'
  BY <1>1, <1>2 DEF FollowInv
<1>3. CASE ~disordered'
  <2>1. ~disordered /\ Absent
    BY <1>1, <1>3 DEF FollowInv
  <2>2. CASE GitHubStep
    <3>1. CASE UNCHANGED <<github, sent, handler, inst, disordered>>
      BY <3>1, UnchangedFollows
    <3>2. QED
      BY <1>3, <2>1, <2>2, <3>1, GitHubSends, SendKeepsFollowInv
  <2>3. ASSUME NEW e \in sent, Deleted(e) \/ StatusChanged(e) PROVE FollowInv'
    BY <1>3, <2>3, DeletedKeepsFollowInv, StatusKeepsFollowInv
  <2>4. ASSUME NEW h \in Handlers, HandlerStep(h) PROVE FollowInv'
    <3>1. ~HandlerFails(h)
      BY <1>3 DEF HandlerFails
    <3>2. QED
      BY <1>3, <2>1, <2>4, <3>1, CreatedKeepsFollowInv, ReposChangedKeepsFollowInv,
         CreateAccountKeepsFollowInv, UpsertRowKeepsFollowInv, WriteRepoKeepsFollowInv DEF HandlerStep
  <2>5. CASE DashboardStep
    <3>1. ASSUME NEW u \in Users, FindInstallation(u) PROVE FollowInv'
      BY <3>1, UnchangedFollows DEF FindInstallation
    <3>2. QED
      BY <1>3, <2>5, <3>1, SyncKeepsFollowInv, DeleteKeepsFollowInv DEF DashboardStep
  <2>6. QED
    BY <2>2, <2>3, <2>4, <2>5 DEF InstStep, EventStep
<1>4. QED
  BY <1>2, <1>3

LEMMA FollowsImplies == FollowInv /\ InstTypeOK => RowsFollowGitHub
<1>1. SUFFICES ASSUME FollowInv, InstTypeOK, sent = {}, ~disordered,
                      \A h \in Handlers : handler[h].pc = "idle"
               PROVE  /\ github.installed = Present
                      /\ github.installed => /\ inst.repos = github.repos
                                             /\ github.suspended = (inst.status = "SUSPENDED")
  BY DEF RowsFollowGitHub
<1>2. RowFollows /\ StatusFollows /\ \A r \in Repos : RepoFollows(r)
  BY <1>1 DEF FollowInv
<1>3. Present = github.installed
  BY <1>1, <1>2 DEF RowFollows, BeforeRow
<1>4. github.suspended = (inst.status = "SUSPENDED")
  BY <1>1, <1>2 DEF StatusFollows, BeforeRow
<1>5. \A r \in Repos : r \in inst.repos <=> r \in github.repos
  BY <1>1, <1>2 DEF RepoFollows, WillTouch, BeforeRow
<1>6. inst.repos \subseteq Repos /\ github.repos \subseteq Repos
  BY <1>1 DEF InstTypeOK, InstallationRows
<1>7. QED
  BY <1>3, <1>4, <1>5, <1>6

-------------------------------------------------------------------------------
(***************************************************************************)
(* The invariant.                                                          *)
(***************************************************************************)
\* The project that was looked up is, or was, the user's.
FoundOK(x) ==
    x.pc \in {"conflict", "variable", "write"} =>
        /\ x.found \in Ids
        /\ project[x.found].st # "none"
        /\ There(x.found) => project[x.found].owner = x.user

\* The installation a project is to be linked to is the user's, or has passed on.
AuthorizedOK(x) ==
    /\ x.pc \in {"idle", "name", "count"} => x.link = 0
    /\ x.pc = "insert" /\ x.link # 0 =>
           /\ x.link <= inst.id
           /\ Present /\ inst.id = x.link => inst.owner = x.user \/ inst.moved

RequestOK(x) == x \in RequestStates /\ FoundOK(x) /\ AuthorizedOK(x)

ProjectsInv ==
    /\ InstTypeOK
    /\ project \in [Ids -> ProjectRows]
    /\ env \subseteq Ids
    /\ request \in [Requests -> RequestStates]
    /\ \A q \in Requests : RequestOK(request[q])
    /\ LinkHasACause

LEMMA ProjectsInvImplies == ProjectsInv => ProjectsTypeOK /\ LinkHasACause
BY DEF ProjectsInv, ProjectsTypeOK

LEMMA IdleRequestOK == IdleRequest \in RequestStates /\ RequestOK(IdleRequest) /\ RequestOK(IdleRequest)'
BY DEF IdleRequest, RequestStates, RequestOK, FoundOK, AuthorizedOK

LEMMA InitProjectsInv == ProjectsInit => ProjectsInv
<1> SUFFICES ASSUME ProjectsInit PROVE ProjectsInv
  OBVIOUS
<1>1. InstTypeOK
  BY InitInstType DEF ProjectsInit
<1>2. NoProject \in ProjectRows /\ NoProject.link = 0
  BY DEF NoProject, ProjectRows
<1>3. QED
  BY <1>1, <1>2, IdleRequestOK DEF ProjectsInit, ProjectsInv, LinkHasACause

-------------------------------------------------------------------------------
(***************************************************************************)
(* What every step keeps.                                                  *)
(***************************************************************************)
\* Ids are not given again, and a project keeps its owner as long as it is there.
ProjectsAge ==
    \A p \in Ids :
        /\ project[p].st # "none" => project'[p].st # "none"
        /\ There(p)' /\ project[p].st # "none" => There(p) /\ project'[p].owner = project[p].owner

LEMMA RequestStays ==
    ASSUME InstTypeOK, InstTypeOK', InstAges, ProjectsAge, NEW x, RequestOK(x)
    PROVE  RequestOK(x)'
<1>1. x \in RequestStates /\ x.link \in Nat
  BY DEF RequestOK, RequestStates
<1>2. inst.id \in Nat /\ inst'.id \in Nat
  BY DEF InstTypeOK, InstallationRows
<1>3. FoundOK(x)'
  BY DEF RequestOK, FoundOK, ProjectsAge
<1>4. AuthorizedOK(x)'
  <2>1. SUFFICES ASSUME x.pc = "insert", x.link # 0
                 PROVE  /\ x.link <= inst'.id
                        /\ Present' /\ inst'.id = x.link => inst'.owner = x.user \/ inst'.moved
    BY DEF AuthorizedOK, RequestOK
  <2>2. /\ x.link <= inst.id
        /\ Present /\ inst.id = x.link => inst.owner = x.user \/ inst.moved
    BY <2>1 DEF RequestOK, AuthorizedOK
  <2>3. x.link <= inst'.id
    BY <1>1, <1>2, <2>2 DEF InstAges
  <2>4. Present' /\ inst'.id = x.link => inst'.id = inst.id
    BY <1>1, <1>2, <2>2 DEF InstAges
  <2>5. QED
    BY <2>2, <2>3, <2>4 DEF InstAges
<1>5. QED
  BY <1>1, <1>3, <1>4 DEF RequestOK

\* A request goes on as y, and the installation is left alone.
LEMMA RequestChanges ==
    ASSUME ProjectsInv, NEW q \in Requests, NEW y, RequestOK(y)',
           request' = [request EXCEPT ![q] = y],
           UNCHANGED instVars, ProjectsAge,
           project' \in [Ids -> ProjectRows], env' \subseteq Ids, LinkHasACause'
    PROVE  ProjectsInv'
<1>1. InstTypeOK' /\ InstAges
  BY AgesUnchanged DEF ProjectsInv, instVars, InstTypeOK
<1>2. y \in RequestStates
  BY DEF RequestOK
<1>3. ASSUME NEW w \in Requests PROVE RequestOK(request[w])'
  <2>1. CASE w = q
    BY <2>1 DEF ProjectsInv
  <2>2. CASE w # q
    <3>1. request'[w] = request[w] /\ RequestOK(request[w])
      BY <2>2 DEF ProjectsInv
    <3>2. \A x : RequestOK(x) => RequestOK(x)'
      BY <1>1, RequestStays DEF ProjectsInv
    <3>3. QED
      BY <3>1, <3>2
  <2>3. QED
    BY <2>1, <2>2
<1>4. QED
  BY <1>1, <1>2, <1>3 DEF ProjectsInv

LEMMA LooksOnly ==
    ASSUME ProjectsInv, NEW q \in Requests, NEW y, RequestOK(y),
           request' = [request EXCEPT ![q] = y], ProjectsOnly
    PROVE  ProjectsInv'
<1>1. UNCHANGED <<project, env, inst>> /\ UNCHANGED instVars
  BY DEF ProjectsOnly, instVars
<1>2. ProjectsAge
  BY <1>1 DEF ProjectsAge, There
<1>3. RequestOK(y)'
  BY <1>1 DEF RequestOK, FoundOK, AuthorizedOK, There, Present
<1>4. LinkHasACause'
  BY <1>1 DEF ProjectsInv, LinkHasACause, There, Present
<1>5. QED
  BY <1>1, <1>2, <1>3, <1>4, RequestChanges DEF ProjectsInv

-------------------------------------------------------------------------------
(***************************************************************************)
(* The steps.                                                              *)
(***************************************************************************)
LEMMA InstStepKeeps ==
    ASSUME ProjectsInv, InstStep, Linked, UNCHANGED <<env, request>> PROVE ProjectsInv'
<1>1. InstTypeOK /\ InstTypeOK' /\ InstAges
  BY InstSteps DEF ProjectsInv
<1>2. inst \in InstallationRows /\ inst' \in InstallationRows
  BY <1>1 DEF InstTypeOK
<1>3. ASSUME NEW p \in Ids
      PROVE  /\ project'[p] \in ProjectRows
             /\ project'[p].st = project[p].st /\ project'[p].owner = project[p].owner
             /\ IF inst' # inst /\ inst'.status = "none" THEN project'[p].link = 0
                ELSE project'[p].link = project[p].link
  <2>1. project[p] \in ProjectRows
    BY DEF ProjectsInv
  <2>2. project'[p] = IF inst' # inst /\ inst'.status = "none"
                      THEN [project[p] EXCEPT !.link = 0] ELSE project[p]
    BY DEF Linked
  <2>3. QED
    BY <2>1, <2>2 DEF ProjectRows
<1>4. project' \in [Ids -> ProjectRows]
  BY <1>3 DEF Linked
<1>5. ProjectsAge
  BY <1>3 DEF ProjectsAge, There
<1>6. LinkHasACause'
  <2>1. SUFFICES ASSUME NEW p \in Ids, project'[p].link # 0
                 PROVE  /\ There(p)' /\ Present' /\ inst'.id = project'[p].link
                        /\ inst'.owner = project'[p].owner \/ inst'.moved
    BY DEF LinkHasACause
  <2>2. project'[p].link = project[p].link /\ (inst' = inst \/ inst'.status # "none")
    BY <1>3, <2>1
  <2>3. /\ There(p) /\ Present /\ inst.id = project[p].link
        /\ inst.owner = project[p].owner \/ inst.moved
    BY <2>1, <2>2 DEF ProjectsInv, LinkHasACause
  <2>4. There(p)'
    BY <1>3, <2>3 DEF There
  <2>5. Present'
    BY <2>2, <2>3 DEF Present
  <2>6. inst'.id = inst.id /\ (inst'.moved \/ (inst'.owner = inst.owner /\ inst'.moved = inst.moved))
    BY <1>1, <2>3, <2>5 DEF InstAges
  <2>7. QED
    BY <1>3, <2>2, <2>3, <2>4, <2>5, <2>6
<1>7. \A x : RequestOK(x) => RequestOK(x)'
  BY <1>1, <1>5, RequestStays
<1>8. QED
  BY <1>1, <1>4, <1>6, <1>7 DEF ProjectsInv

\* Every step of a request that only looks, or is the first.
LEMMA LookingSteps ==
    ASSUME ProjectsInv, NEW q \in Requests,
           \/ \E u \in Users, s \in Slugs, n \in Names : BeginCreate(q, u, s, n)
           \/ CheckName(q) \/ CountInstallations(q) \/ FindRepo(q)
           \/ \E u \in Users, n \in Names : BeginDeploy(q, u, n)
           \/ \E op \in {"delete", "setEnv", "dropEnv"}, u \in Users, p \in Ids : Find(q, op, u, p)
           \/ \E u \in Users, p \in Ids, s \in Slugs \cup {None}, n \in Names \cup {None} :
                 FindToUpdate(q, u, p, s, n)
           \/ CheckConflict(q) \/ FindVariable(q) \/ RequestFails(q)
    PROVE  ProjectsInv'
<1>1. PICK x : x = request[q]
  OBVIOUS
<1>2. x \in RequestStates /\ RequestOK(x)
  BY <1>1 DEF ProjectsInv
<1>3. CASE Answer(q) /\ ProjectsOnly
  BY <1>3, IdleRequestOK, LooksOnly DEF Answer
<1>4. ASSUME NEW u \in Users, NEW s \in Slugs, NEW n \in Names, BeginCreate(q, u, s, n)
      PROVE  ProjectsInv'
  <2>1. PICK y : y = [x EXCEPT !.pc = "name", !.op = "create", !.user = u, !.slug = s, !.name = n]
    OBVIOUS
  <2>2. x.pc = "idle"
    BY <1>1, <1>4 DEF BeginCreate, MayAsk
  <2>3. y \in RequestStates /\ y.pc = "name" /\ y.link = 0
    BY <1>2, <2>1, <2>2 DEF RequestStates, RequestOK, AuthorizedOK
  <2>4. RequestOK(y)
    BY <2>3 DEF RequestOK, FoundOK, AuthorizedOK
  <2>5. request' = [request EXCEPT ![q] = y] /\ ProjectsOnly
    BY <1>1, <1>4, <2>1 DEF BeginCreate
  <2>6. QED
    BY <2>4, <2>5, LooksOnly
<1>5. ASSUME x.pc = "name", Goto(q, "count"), ProjectsOnly PROVE ProjectsInv'
  <2>1. PICK y : y = [x EXCEPT !.pc = "count"]
    OBVIOUS
  <2>2. y \in RequestStates /\ y.pc = "count" /\ y.link = 0
    BY <1>2, <1>5, <2>1 DEF RequestStates, RequestOK, AuthorizedOK
  <2>3. RequestOK(y)
    BY <2>2 DEF RequestOK, FoundOK, AuthorizedOK
  <2>4. QED
    BY <1>1, <1>5, <2>1, <2>3, LooksOnly DEF Goto
<1>6. CASE CheckName(q)
  BY <1>1, <1>3, <1>5, <1>6 DEF CheckName
<1>7. ASSUME x.pc = "count", NEW pc \in {"repo", "insert"}, Goto(q, pc), ProjectsOnly,
             x.link = 0
      PROVE  ProjectsInv'
  <2>1. PICK y : y = [x EXCEPT !.pc = pc]
    OBVIOUS
  <2>2. y \in RequestStates /\ y.pc = pc /\ y.link = x.link
    BY <1>2, <2>1 DEF RequestStates
  <2>3. RequestOK(y)
    BY <1>7, <2>2 DEF RequestOK, FoundOK, AuthorizedOK
  <2>4. QED
    BY <1>1, <1>7, <2>1, <2>3, LooksOnly DEF Goto
<1>8. CASE CountInstallations(q)
  <2>1. x.pc = "count" /\ x.link = 0
    BY <1>1, <1>2, <1>8 DEF CountInstallations, RequestOK, AuthorizedOK
  <2>2. \E pc \in {"repo", "insert"} : Goto(q, pc)
    BY <1>8 DEF CountInstallations
  <2>3. QED
    BY <1>7, <1>8, <2>1, <2>2 DEF CountInstallations
<1>9. CASE FindRepo(q)
  <2>1. PICK r \in Repos :
            IF inst.status = "ACTIVE" /\ inst.owner = x.user /\ r \in inst.repos
            THEN request' = [request EXCEPT ![q] = [x EXCEPT !.pc = "insert", !.link = inst.id]]
            ELSE Answer(q)
    BY <1>1, <1>9 DEF FindRepo
  <2>2. ProjectsOnly
    BY <1>9 DEF FindRepo
  <2>3. CASE inst.status = "ACTIVE" /\ inst.owner = x.user /\ r \in inst.repos
    <3>1. PICK y : y = [x EXCEPT !.pc = "insert", !.link = inst.id]
      OBVIOUS
    <3>2. inst.id \in Nat
      BY DEF ProjectsInv, InstTypeOK, InstallationRows
    <3>3. y \in RequestStates /\ y.pc = "insert" /\ y.link = inst.id /\ y.user = x.user
      BY <1>2, <3>1, <3>2 DEF RequestStates
    <3>4. RequestOK(y)
      BY <2>3, <3>2, <3>3 DEF RequestOK, FoundOK, AuthorizedOK
    <3>5. QED
      BY <2>1, <2>2, <2>3, <3>1, <3>4, LooksOnly
  <2>4. CASE ~(inst.status = "ACTIVE" /\ inst.owner = x.user /\ r \in inst.repos)
    BY <1>3, <2>1, <2>2, <2>4
  <2>5. QED
    BY <2>3, <2>4
<1>10. ASSUME NEW u \in Users, NEW n \in Names, BeginDeploy(q, u, n) PROVE ProjectsInv'
  <2>1. PICK y : y = [x EXCEPT !.pc = "insert", !.op = "create", !.user = u, !.slug = SlugOf[n], !.name = n]
    OBVIOUS
  <2>2. x.pc = "idle" /\ SlugOf[n] \in Slugs
    BY <1>1, <1>10, ProjectsAssumption DEF BeginDeploy, MayAsk
  <2>3. y \in RequestStates /\ y.pc = "insert" /\ y.link = 0
    BY <1>2, <2>1, <2>2 DEF RequestStates, RequestOK, AuthorizedOK
  <2>4. RequestOK(y)
    BY <2>3 DEF RequestOK, FoundOK, AuthorizedOK
  <2>5. request' = [request EXCEPT ![q] = y] /\ ProjectsOnly
    BY <1>1, <1>10, <2>1 DEF BeginDeploy
  <2>6. QED
    BY <2>4, <2>5, LooksOnly
\* The form of every step that finds a project of the user's.
<1>11. ASSUME NEW u \in Users, NEW p \in Ids, There(p), project[p].owner = u, NEW y \in RequestStates,
              y.pc \in {"conflict", "variable", "write"}, y.found = p, y.user = u,
              request' = [request EXCEPT ![q] = y], ProjectsOnly
       PROVE  ProjectsInv'
  <2>1. RequestOK(y)
    BY <1>11 DEF RequestOK, FoundOK, AuthorizedOK, There
  <2>2. QED
    BY <1>11, <2>1, LooksOnly
<1>12. ASSUME NEW op \in {"delete", "setEnv", "dropEnv"}, NEW u \in Users, NEW p \in Ids,
              Find(q, op, u, p)
       PROVE  ProjectsInv'
  <2>1. PICK y : y = [x EXCEPT !.pc = IF op = "dropEnv" THEN "variable" ELSE "write", !.op = op,
                               !.user = u, !.found = p, !.slug = project[p].slug]
    OBVIOUS
  <2>2. project[p].slug \in Slugs \cup {None}
    BY DEF ProjectsInv, ProjectRows
  <2>3. /\ y \in RequestStates /\ y.pc \in {"conflict", "variable", "write"}
        /\ y.found = p /\ y.user = u
    BY <1>2, <2>1, <2>2 DEF RequestStates
  <2>4. /\ There(p) /\ project[p].owner = u /\ ProjectsOnly
        /\ request' = [request EXCEPT ![q] = y]
    BY <1>1, <1>12, <2>1 DEF Find
  <2>5. QED
    BY <1>11, <2>3, <2>4
<1>13. ASSUME NEW u \in Users, NEW p \in Ids, NEW s \in Slugs \cup {None},
              NEW n \in Names \cup {None}, FindToUpdate(q, u, p, s, n)
       PROVE  ProjectsInv'
  <2>1. PICK old : old = project[p].slug
    OBVIOUS
  <2>2. PICK y : y = [x EXCEPT !.pc = IF s \in {None, old} THEN "write" ELSE "conflict",
                               !.op = "update", !.user = u, !.found = p,
                               !.slug = IF s = None THEN old ELSE s, !.name = n]
    OBVIOUS
  <2>3. old \in Slugs \cup {None}
    BY <2>1 DEF ProjectsInv, ProjectRows
  <2>4. /\ y \in RequestStates /\ y.pc \in {"conflict", "variable", "write"}
        /\ y.found = p /\ y.user = u
    BY <1>2, <2>2, <2>3, Zenon DEF RequestStates
  <2>5. /\ There(p) /\ project[p].owner = u /\ ProjectsOnly
        /\ request' = [request EXCEPT ![q] = y]
    BY <1>1, <1>13, <2>1, <2>2 DEF FindToUpdate
  <2>6. QED
    BY <1>11, <2>4, <2>5
<1>14. ASSUME x.pc \in {"conflict", "variable"}, Goto(q, "write"), ProjectsOnly PROVE ProjectsInv'
  <2>1. PICK y : y = [x EXCEPT !.pc = "write"]
    OBVIOUS
  <2>2. y \in RequestStates /\ y.pc = "write" /\ y.found = x.found /\ y.user = x.user
    BY <1>2, <2>1 DEF RequestStates
  <2>3. RequestOK(y)
    BY <1>2, <1>14, <2>2 DEF RequestOK, FoundOK, AuthorizedOK
  <2>4. QED
    BY <1>1, <1>14, <2>1, <2>3, LooksOnly DEF Goto
<1>15. CASE CheckConflict(q) \/ FindVariable(q)
  BY <1>1, <1>3, <1>14, <1>15 DEF CheckConflict, FindVariable
<1>16. CASE RequestFails(q)
  BY <1>3, <1>16 DEF RequestFails
<1>17. QED
  BY <1>4, <1>6, <1>8, <1>9, <1>10, <1>12, <1>13, <1>15, <1>16

\* A request writes project p, which is its own, and is answered.
LEMMA ProjectChanges ==
    ASSUME ProjectsInv, NEW q \in Requests, Answer(q), UNCHANGED instVars,
           NEW p \in Ids, NEW r \in ProjectRows, project' = [project EXCEPT ![p] = r],
           env' \subseteq Ids,
           r.st # "none",
           project[p].st # "none" /\ r.st = "present" => There(p) /\ r.owner = project[p].owner,
           r.link # 0 => /\ r.st = "present" /\ Present /\ inst.id = r.link
                         /\ inst.owner = r.owner \/ inst.moved
    PROVE  ProjectsInv'
<1>1. project'[p] = r /\ \A o \in Ids : o # p => project'[o] = project[o]
  BY DEF ProjectsInv
<1>2. ProjectsAge
  BY <1>1 DEF ProjectsAge, There
<1>3. inst' = inst
  BY DEF instVars
<1>4. ASSUME NEW o \in Ids, project'[o].link # 0
      PROVE  /\ There(o)' /\ Present' /\ inst'.id = project'[o].link
             /\ inst'.owner = project'[o].owner \/ inst'.moved
  <2>1. CASE o = p
    BY <1>1, <1>3, <1>4, <2>1 DEF There, Present
  <2>2. CASE o # p
    BY <1>1, <1>3, <1>4, <2>2 DEF ProjectsInv, LinkHasACause, There, Present
  <2>3. QED
    BY <2>1, <2>2
<1>5. LinkHasACause'
  BY <1>4 DEF LinkHasACause
<1>6. project' \in [Ids -> ProjectRows]
  BY DEF ProjectsInv
<1>7. QED
  BY <1>2, <1>5, <1>6, IdleRequestOK, RequestChanges DEF Answer

LEMMA InsertStep ==
    ASSUME ProjectsInv, NEW q \in Requests, Insert(q) PROVE ProjectsInv'
<1>1. PICK x : x = request[q]
  OBVIOUS
<1>2. x \in RequestStates /\ RequestOK(x) /\ x.pc = "insert"
  BY <1>1 DEF ProjectsInv, Insert
<1>3. PICK r : r = [st |-> "present", owner |-> x.user, slug |-> x.slug, name |-> x.name,
                    link |-> x.link]
  OBVIOUS
<1>4. r \in ProjectRows /\ r.st = "present" /\ r.link = x.link /\ r.owner = x.user
  BY <1>2, <1>3 DEF RequestStates, ProjectRows
<1>5. PICK p \in Ids : project[p].st = "none" /\ project' = [project EXCEPT ![p] = r]
  BY <1>1, <1>3 DEF Insert
<1>6. x.link # 0 => Present /\ inst.id = x.link
  BY <1>1 DEF Insert
<1>7. r.link # 0 => inst.owner = r.owner \/ inst.moved
  BY <1>2, <1>4, <1>6 DEF RequestOK, AuthorizedOK
<1>8. Answer(q) /\ UNCHANGED instVars /\ env' \subseteq Ids
  BY DEF Insert, ProjectsInv
<1>9. QED
  BY <1>4, <1>5, <1>6, <1>7, <1>8, ProjectChanges

LEMMA UpdateStep ==
    ASSUME ProjectsInv, NEW q \in Requests, Update(q) PROVE ProjectsInv'
<1>1. PICK x : x = request[q]
  OBVIOUS
<1>2. x \in RequestStates /\ RequestOK(x) /\ x.pc = "write"
  BY <1>1 DEF ProjectsInv, Update
<1>3. PICK p \in Ids : p = x.found
  BY <1>2 DEF RequestOK, FoundOK
<1>4. There(p) /\ project[p] \in ProjectRows
  BY <1>1, <1>3 DEF Update, ProjectsInv
<1>5. PICK r : r = [project[p] EXCEPT !.slug = x.slug,
                                     !.name = IF x.name = None THEN project[p].name ELSE x.name]
  OBVIOUS
<1>6. /\ r \in ProjectRows /\ r.st = project[p].st /\ r.owner = project[p].owner
      /\ r.link = project[p].link
  BY <1>2, <1>4, <1>5 DEF RequestStates, ProjectRows
<1>7. project' = [project EXCEPT ![p] = r]
  BY <1>1, <1>3, <1>5 DEF Update
<1>8. r.link # 0 => /\ r.st = "present" /\ Present /\ inst.id = r.link
                    /\ inst.owner = r.owner \/ inst.moved
  BY <1>6 DEF ProjectsInv, LinkHasACause, There
<1>9. Answer(q) /\ UNCHANGED instVars /\ env' \subseteq Ids
  BY DEF Update, ProjectsInv
<1>10. r.st # "none" /\ (project[p].st # "none" /\ r.st = "present" => There(p) /\ r.owner = project[p].owner)
  BY <1>4, <1>6 DEF There
<1>11. QED
  BY <1>6, <1>7, <1>8, <1>9, <1>10, ProjectChanges

LEMMA DeleteStep ==
    ASSUME ProjectsInv, NEW q \in Requests, Delete(q) PROVE ProjectsInv'
<1>1. PICK x : x = request[q]
  OBVIOUS
<1>2. PICK p \in Ids : p = x.found
  BY <1>1 DEF ProjectsInv, Delete, RequestOK, FoundOK
<1>3. PICK r : r = [NoProject EXCEPT !.st = "deleted"]
  OBVIOUS
<1>4. r \in ProjectRows /\ r.st = "deleted" /\ r.link = 0
  BY <1>3 DEF NoProject, ProjectRows
<1>5. project' = [project EXCEPT ![p] = r]
  BY <1>1, <1>2, <1>3 DEF Delete
<1>6. Answer(q) /\ UNCHANGED instVars /\ env' \subseteq Ids
  BY DEF Delete, ProjectsInv
<1>7. QED
  BY <1>4, <1>5, <1>6, ProjectChanges

LEMMA EnvSteps ==
    ASSUME ProjectsInv, NEW q \in Requests, SetEnv(q) \/ DropEnv(q) PROVE ProjectsInv'
<1>1. UNCHANGED project /\ UNCHANGED instVars /\ inst' = inst
  BY DEF SetEnv, DropEnv, instVars
<1>2. ProjectsAge /\ LinkHasACause'
  BY <1>1 DEF ProjectsAge, There, ProjectsInv, LinkHasACause, Present
<1>3. CASE SetEnv(q)
  <2>1. request[q].found \in Ids
    BY <1>3 DEF SetEnv, ProjectsInv, RequestOK, FoundOK
  <2>2. env' \subseteq Ids /\ Answer(q)
    BY <1>3, <2>1 DEF SetEnv, ProjectsInv
  <2>3. project' \in [Ids -> ProjectRows]
    BY <1>1 DEF ProjectsInv
  <2>4. QED
    BY <1>1, <1>2, <2>2, <2>3, IdleRequestOK, RequestChanges DEF Answer
<1>4. CASE DropEnv(q)
  <2>1. ASSUME NEW w \in Requests
        PROVE  request'[w] \in RequestStates /\ RequestOK(request'[w])
    <3>1. PICK x : x = request[w]
      OBVIOUS
    <3>2. x \in RequestStates /\ RequestOK(x)
      BY <3>1 DEF ProjectsInv
    <3>3. PICK b \in BOOLEAN :
              request'[w] = IF w = q THEN IdleRequest ELSE [x EXCEPT !.stale = b]
      <4>1. x.stale \in BOOLEAN
        BY <3>2 DEF RequestStates
      <4>2. request'[w] = IF w = q THEN IdleRequest
                          ELSE [x EXCEPT !.stale = x.stale \/ (x.op = "dropEnv" /\ x.pc = "write"
                                                               /\ x.found = request[q].found)]
        BY <1>4, <3>1 DEF DropEnv
      <4>3. QED
        BY <4>1, <4>2
    <3>4. PICK y : y = [x EXCEPT !.stale = b]
      OBVIOUS
    <3>5. /\ y \in RequestStates /\ y.pc = x.pc /\ y.found = x.found /\ y.user = x.user
          /\ y.link = x.link
      BY <3>2, <3>4 DEF RequestStates
    <3>6. RequestOK(y)
      BY <3>2, <3>5 DEF RequestOK, FoundOK, AuthorizedOK
    <3>7. QED
      BY <3>3, <3>4, <3>5, <3>6, IdleRequestOK
  <2>2. \A w \in Requests : RequestOK(request[w])'
    BY <1>1, <2>1 DEF RequestOK, FoundOK, AuthorizedOK, There, Present
  <2>3. request' \in [Requests -> RequestStates]
    BY <1>4, <2>1 DEF DropEnv
  <2>4. env' \subseteq Ids /\ InstTypeOK'
    BY <1>1, <1>4 DEF DropEnv, ProjectsInv, InstTypeOK, instVars
  <2>5. QED
    BY <1>1, <1>2, <2>2, <2>3, <2>4 DEF ProjectsInv
<1>5. QED
  BY <1>3, <1>4

LEMMA NextProjectsInv == ProjectsInv /\ [ProjectsNext]_allVars => ProjectsInv'
<1> SUFFICES ASSUME ProjectsInv, [ProjectsNext]_allVars PROVE ProjectsInv'
  OBVIOUS
<1>1. CASE InstStep /\ Linked /\ UNCHANGED <<env, request>>
  BY <1>1, InstStepKeeps
<1>2. ASSUME NEW q \in Requests, RequestStep(q) PROVE ProjectsInv'
  <2>1. CASE Insert(q)
    BY <2>1, InsertStep
  <2>2. CASE Update(q)
    BY <2>2, UpdateStep
  <2>3. CASE Delete(q)
    BY <2>3, DeleteStep
  <2>4. CASE SetEnv(q) \/ DropEnv(q)
    BY <2>4, EnvSteps
  <2>5. QED
    BY <1>2, <2>1, <2>2, <2>3, <2>4, LookingSteps DEF RequestStep
<1>3. CASE UNCHANGED allVars
  BY <1>3 DEF allVars, projectVars, instVars, ProjectsInv, InstTypeOK, LinkHasACause, There, Present,
              RequestOK, FoundOK, AuthorizedOK
<1>4. QED
  BY <1>1, <1>2, <1>3 DEF ProjectsNext

LEMMA ProjectsInvariance == ProjectsSpec => []ProjectsInv
BY InitProjectsInv, NextProjectsInv, PTL DEF ProjectsSpec

LEMMA NextFollows == ProjectsInv /\ FollowInv /\ [ProjectsNext]_allVars => FollowInv'
<1> SUFFICES ASSUME ProjectsInv, FollowInv, [ProjectsNext]_allVars PROVE FollowInv'
  OBVIOUS
<1>1. CASE InstStep
  BY <1>1, StepFollows DEF ProjectsInv
<1>2. ASSUME NEW q \in Requests, RequestStep(q) PROVE UNCHANGED instVars
  BY <1>2 DEF RequestStep, BeginCreate, CheckName, CountInstallations, FindRepo, BeginDeploy, Insert, Find,
              FindToUpdate, CheckConflict, Update, Delete, SetEnv, FindVariable, DropEnv, RequestFails,
              ProjectsOnly
<1>3. CASE UNCHANGED instVars
  BY <1>3, UnchangedFollows DEF instVars
<1>4. QED
  BY <1>1, <1>2, <1>3 DEF ProjectsNext, allVars

LEMMA FollowInvariance == ProjectsSpec => []FollowInv
<1>1. ProjectsInit => FollowInv
  BY InitFollows DEF ProjectsInit
<1>2. QED
  BY <1>1, NextFollows, ProjectsInvariance, PTL DEF ProjectsSpec

-------------------------------------------------------------------------------
(***************************************************************************)
(* Who changes a project.                                                  *)
(***************************************************************************)
Changes(p) ==
    There(p) /\ ([project'[p] EXCEPT !.link = 0] # [project[p] EXCEPT !.link = 0]
                 \/ (p \in env') # (p \in env))

ByItsOwner(p) ==
    \E q \in Requests :
        /\ request[q].pc = "write"
        /\ request[q].found = p
        /\ request[q].user = project[p].owner
        /\ request'[q] = IdleRequest

\* A request that changes the project it found changes its user's project.
LEMMA WritesItsOwn ==
    ASSUME ProjectsInv, NEW q \in Requests, request[q].pc = "write", request'[q] = IdleRequest,
           project' = project \/ \E r : project' = [project EXCEPT ![request[q].found] = r],
           \A p \in Ids : p # request[q].found => ((p \in env') <=> (p \in env)),
           NEW p \in Ids, Changes(p)
    PROVE  ByItsOwner(p)
<1>1. FoundOK(request[q])
  BY DEF ProjectsInv, RequestOK
<1>2. p = request[q].found
  BY DEF Changes, ProjectsInv
<1>3. request[q].user = project[p].owner
  BY <1>1, <1>2 DEF FoundOK, Changes
<1>4. QED
  BY <1>2, <1>3 DEF ByItsOwner

LEMMA StepsAreByOwners ==
    ProjectsInv /\ [ProjectsNext]_allVars => \A p \in Ids : Changes(p) => ByItsOwner(p)
<1> SUFFICES ASSUME ProjectsInv, [ProjectsNext]_allVars, NEW p \in Ids, Changes(p)
             PROVE  ByItsOwner(p)
  OBVIOUS
<1>1. CASE InstStep /\ Linked /\ UNCHANGED <<env, request>>
  <2>1. project[p] \in ProjectRows
    BY DEF ProjectsInv
  <2>2. project'[p] = project[p] \/ project'[p] = [project[p] EXCEPT !.link = 0]
    BY <1>1 DEF Linked
  <2>3. [project'[p] EXCEPT !.link = 0] = [project[p] EXCEPT !.link = 0]
    BY <2>1, <2>2 DEF ProjectRows
  <2>4. QED
    BY <1>1, <2>3 DEF Changes
<1>2. ASSUME UNCHANGED <<project, env>> PROVE FALSE
  BY <1>2 DEF Changes
<1>3. ASSUME NEW q \in Requests, Insert(q) PROVE FALSE
  <2>1. PICK o \in Ids : project[o].st = "none" /\ \E r : project' = [project EXCEPT ![o] = r]
    BY <1>3 DEF Insert
  <2>2. project'[p] = project[p]
    BY <2>1 DEF Changes, There, ProjectsInv
  <2>3. env' = env
    BY <1>3 DEF Insert
  <2>4. QED
    BY <2>2, <2>3 DEF Changes
<1>4. ASSUME NEW q \in Requests, Update(q) PROVE ByItsOwner(p)
  <2>1. request[q].pc = "write" /\ request'[q] = IdleRequest /\ env' = env
    BY <1>4 DEF Update, Answer, ProjectsInv
  <2>2. \E r : project' = [project EXCEPT ![request[q].found] = r]
    BY <1>4 DEF Update
  <2>3. QED
    BY <2>1, <2>2, WritesItsOwn
<1>5. ASSUME NEW q \in Requests, Delete(q) PROVE ByItsOwner(p)
  <2>1. /\ request[q].pc = "write" /\ request'[q] = IdleRequest
        /\ env' = env \ {request[q].found}
    BY <1>5 DEF Delete, Answer, ProjectsInv
  <2>2. \E r : project' = [project EXCEPT ![request[q].found] = r]
    BY <1>5 DEF Delete
  <2>3. QED
    BY <2>1, <2>2, WritesItsOwn
<1>6. ASSUME NEW q \in Requests, SetEnv(q) \/ DropEnv(q) PROVE ByItsOwner(p)
  <2>1. request[q].pc = "write" /\ request'[q] = IdleRequest /\ project' = project
    BY <1>6 DEF SetEnv, DropEnv, Answer, ProjectsInv
  <2>2. \A o \in Ids : o # request[q].found => ((o \in env') <=> (o \in env))
    BY <1>6 DEF SetEnv, DropEnv
  <2>3. QED
    BY <2>1, <2>2, WritesItsOwn
<1>7. ASSUME NEW q \in Requests, RequestStep(q) PROVE ByItsOwner(p)
  <2>1. CASE UNCHANGED <<project, env>>
    BY <1>2, <2>1
  <2>2. CASE ~UNCHANGED <<project, env>>
    <3>1. Insert(q) \/ Update(q) \/ Delete(q) \/ SetEnv(q) \/ DropEnv(q)
      BY <1>7, <2>2, Zenon DEF RequestStep, BeginCreate, CheckName, CountInstallations, FindRepo, BeginDeploy,
                        Find, FindToUpdate, CheckConflict, FindVariable, RequestFails, ProjectsOnly
    <3>2. QED
      BY <1>3, <1>4, <1>5, <1>6, <3>1
  <2>3. QED
    BY <2>1, <2>2
<1>8. CASE UNCHANGED allVars
  BY <1>2, <1>8 DEF allVars, projectVars
<1>9. QED
  BY <1>1, <1>7, <1>8 DEF ProjectsNext

-------------------------------------------------------------------------------
(***************************************************************************)
(* The theorems.                                                           *)
(***************************************************************************)
\* Every variable keeps its type, whatever events and requests interleave (projects.ts,
\* webhooks.ts, github.ts).
THEOREM ProjectsTypeCorrectness == ProjectsSpec => []ProjectsTypeOK
BY ProjectsInvariance, ProjectsInvImplies, PTL

\* A project is linked to an installation that is there and its owner's, unless the
\* installation has passed on: the check of a creation is not repeated when the row is
\* inserted, the foreign key and onDelete: SetNull do the rest.
THEOREM LinksHaveCauses == ProjectsSpec => []LinkHasACause
BY ProjectsInvariance, ProjectsInvImplies, PTL

\* What was looked up by slug is written by id: nobody changes a project that is not
\* theirs, whoever has its slug by then.
THEOREM OnlyOwnersWrite == ProjectsSpec => OwnersOnly
<1>1. ProjectsInv /\ [ProjectsNext]_allVars =>
          [\A p \in Ids : Changes(p) => ByItsOwner(p)]_allVars
  BY StepsAreByOwners
<1>2. QED
  BY <1>1, ProjectsInvariance, PTL DEF ProjectsSpec, OwnersOnly, Changes, ByItsOwner

\* When nothing is on its way the rows are what GitHub has, unless an event was lost,
\* failed or overtaken, or the dashboard wrote something else (webhooks.ts, github.ts).
THEOREM RowsStayWithGitHub == ProjectsSpec => []RowsFollowGitHub
<1>1. ProjectsInv /\ FollowInv => RowsFollowGitHub
  BY FollowsImplies DEF ProjectsInv
<1>2. QED
  BY <1>1, ProjectsInvariance, FollowInvariance, PTL

===============================================================================
