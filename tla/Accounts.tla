------------------------------- MODULE Accounts -------------------------------
(***************************************************************************)
(* Accounts: registration with a password, the mail that confirms the      *)
(* address, sign-in with GitHub or Google, and the sessions they end in,   *)
(* configured as in production.                                            *)
(*                                                                         *)
(* All of these find a row of users, by the address or by the provider's   *)
(* id, and write it some statements later.  Which password belongs to a    *)
(* request is not modelled: a request with another password than the row's *)
(* changes nothing.                                                        *)
(***************************************************************************)
EXTENDS Naturals, FiniteSets

CONSTANTS
    Rows,       \* ids of users, each given at most once
    Emails,     \* addresses
    GitHubIds, GoogleIds,
    Tokens,     \* bound: links that may be in Redis or in a mailbox at once
    Flows,      \* bound: sign-ins with a provider, each begun at most once
    Requests,   \* requests that may be at work at once
    None

ASSUME AccountsAssumption ==
    None \notin Rows \cup Emails \cup GitHubIds \cup GoogleIds \cup Tokens \cup Flows

VARIABLES
    user,       \* the rows of users
    cooldown,   \* users who were sent a mail less than a minute ago
    link,       \* Redis: the user a link confirms
    mailbox,    \* links that have arrived
    sessions,   \* users with a session
    flow,       \* sign-ins with a provider
    cookie,     \* the browser's cookies: the newest sign-in with each provider
    request,    \* the requests
    confirmed   \* history: users whose address a link has confirmed

mailVars == <<cooldown, link, mailbox>>
browserVars == <<flow, cookie>>
vars == <<user, mailVars, sessions, browserVars, request, confirmed>>

Providers == {"github", "google"}
IdsOf(provider) == IF provider = "github" THEN GitHubIds ELSE GoogleIds
Ids == GitHubIds \cup GoogleIds

\* hash: there is a password; token: the GitHub account whose token is stored.
UserRows ==
    [email : Emails \cup {None}, hash : BOOLEAN, verified : BOOLEAN,
     id : [Providers -> Ids \cup {None}], token : GitHubIds \cup {None}]

NoUser ==
    [email |-> None, hash |-> FALSE, verified |-> FALSE,
     id |-> [p \in Providers |-> None], token |-> None]

FlowStates == [provider : Providers, st : {"unused", "begun", "exchanged"}]

\* row: the user that was found; unverified: as it was when it was found.
RequestStates ==
    [pc : {"idle", "insert", "send", "token", "mail", "undo", "confirm",
           "exchange", "find", "write", "keep", "session"},
     row : Rows \cup {None}, unverified : BOOLEAN, email : Emails \cup {None},
     token : Tokens \cup {None}, flow : Flows \cup {None}, id : Ids \cup {None}]

IdleRequest ==
    [pc |-> "idle", row |-> None, unverified |-> FALSE, email |-> None,
     token |-> None, flow |-> None, id |-> None]

Init ==
    /\ user = [a \in Rows |-> NoUser]
    /\ cooldown = {}
    /\ link = [t \in Tokens |-> None]
    /\ mailbox = {}
    /\ sessions = {}
    /\ flow = [f \in Flows |-> [provider |-> "github", st |-> "unused"]]
    /\ cookie = [p \in Providers |-> None]
    /\ request = [q \in Requests |-> IdleRequest]
    /\ confirmed = {}

Present(a) == user[a].email # None

At(q, pc) == request[q].pc = pc

Begin(q, r) == At(q, "idle") /\ request' = [request EXCEPT ![q] = r]

Goto(q, pc) == request' = [request EXCEPT ![q].pc = pc]

ProviderOf(q) == flow[request[q].flow].provider

\* The answer to a callback takes the provider's cookie from the browser,
\* whichever sign-in it is of by then.
Answer(q) ==
    /\ request' = [request EXCEPT ![q] = IdleRequest]
    /\ cookie' = IF request[q].flow = None THEN cookie
                 ELSE [cookie EXCEPT ![ProviderOf(q)] = None]
    /\ UNCHANGED flow

-------------------------------------------------------------------------------
(***************************************************************************)
(* Registration and login with a password.                                 *)
(***************************************************************************)
\* A verified account, or one without a password, is answered 409.
Register(q, e) ==
    /\ \/ /\ \A a \in Rows : user[a].email # e
          /\ Begin(q, [IdleRequest EXCEPT !.pc = "insert", !.email = e])
       \/ \E a \in Rows :
             /\ user[a].email = e /\ user[a].hash /\ ~user[a].verified
             /\ Begin(q, [IdleRequest EXCEPT !.pc = "send", !.row = a])
    /\ UNCHANGED <<user, mailVars, sessions, browserVars, confirmed>>

\* The address may be taken by now: the statement throws (RequestFails).
InsertUser(q) ==
    /\ At(q, "insert")
    /\ \A a \in Rows : user[a].email # request[q].email
    /\ \E a \in Rows :
          /\ ~Present(a)
          /\ user' = [user EXCEPT ![a].email = request[q].email, ![a].hash = TRUE]
          /\ request' = [request EXCEPT ![q].pc = "send", ![q].row = a]
    /\ UNCHANGED <<mailVars, sessions, browserVars, confirmed>>

Login(q, a) ==
    /\ Present(a) /\ user[a].hash
    /\ Begin(q, [IdleRequest EXCEPT !.pc = IF user[a].verified THEN "session" ELSE "send", !.row = a])
    /\ UNCHANGED <<user, mailVars, sessions, browserVars, confirmed>>

-------------------------------------------------------------------------------
(***************************************************************************)
(* The mail that confirms the address.                                     *)
(***************************************************************************)
\* SET NX; who was sent a mail a moment ago is answered 202 without another.
SetCooldown(q) ==
    /\ At(q, "send")
    /\ IF request[q].row \in cooldown
       THEN Answer(q) /\ UNCHANGED cooldown
       ELSE Goto(q, "token") /\ cooldown' = cooldown \cup {request[q].row} /\ UNCHANGED browserVars
    /\ UNCHANGED <<user, link, mailbox, sessions, confirmed>>

StoreToken(q) ==
    /\ At(q, "token")
    /\ \E t \in Tokens \ mailbox :
          /\ link[t] = None
          /\ \A w \in Requests : request[w].token # t
          /\ link' = [link EXCEPT ![t] = request[q].row]
          /\ request' = [request EXCEPT ![q].pc = "mail", ![q].token = t]
    /\ UNCHANGED <<user, cooldown, mailbox, sessions, browserVars, confirmed>>

Deliver(q) ==
    /\ At(q, "mail")
    /\ mailbox' = mailbox \cup {request[q].token}
    /\ Answer(q)
    /\ UNCHANGED <<user, cooldown, link, sessions, confirmed>>

\* Refused, or no answer in time: the mail may arrive all the same.
DeliverFails(q) ==
    /\ At(q, "mail")
    /\ mailbox' \in {mailbox, mailbox \cup {request[q].token}}
    /\ Goto(q, "undo")
    /\ UNCHANGED <<user, cooldown, link, sessions, browserVars, confirmed>>

Undo(q) ==
    /\ At(q, "undo")
    /\ link' = [link EXCEPT ![request[q].token] = None]
    /\ cooldown' = cooldown \ {request[q].row}
    /\ Answer(q)
    /\ UNCHANGED <<user, mailbox, sessions, confirmed>>

\* GETDEL; a link that is not in Redis any more is answered 400.
Click(q, t) ==
    /\ t \in mailbox
    /\ link[t] # None
    /\ Begin(q, [IdleRequest EXCEPT !.pc = "confirm", !.row = link[t]])
    /\ link' = [link EXCEPT ![t] = None]
    /\ UNCHANGED <<user, cooldown, mailbox, sessions, browserVars, confirmed>>

\* updateMany, of a row that is not verified.
Confirm(q) ==
    /\ At(q, "confirm")
    /\ LET a == request[q].row IN
       IF user[a].verified
       THEN UNCHANGED <<user, confirmed>>
       ELSE /\ user' = [user EXCEPT ![a].verified = TRUE]
            /\ confirmed' = confirmed \cup {a}
    /\ Answer(q)
    /\ UNCHANGED <<mailVars, sessions>>

\* Deviation: the key is set without a time to live.
CooldownStays(a) == FALSE /\ UNCHANGED vars

\* A minute has passed.
CooldownExpires(a) ==
    /\ a \in cooldown
    /\ cooldown' = cooldown \ {a}
    /\ UNCHANGED <<user, link, mailbox, sessions, browserVars, request, confirmed>>

\* Half an hour has passed; the call that sends the mail does not take that long.
LinkExpires(t) ==
    /\ link[t] # None
    /\ \A q \in Requests : request[q].token # t
    /\ link' = [link EXCEPT ![t] = None]
    /\ UNCHANGED <<user, cooldown, mailbox, sessions, browserVars, request, confirmed>>

\* A mail whose link does not work any more is thrown away.
Discard(t) ==
    /\ t \in mailbox
    /\ link[t] = None
    /\ mailbox' = mailbox \ {t}
    /\ UNCHANGED <<user, cooldown, link, sessions, browserVars, request, confirmed>>

-------------------------------------------------------------------------------
(***************************************************************************)
(* Sign-in with a provider.                                                *)
(***************************************************************************)
\* The newest sign-in takes the cookie of an older one.
BeginSignIn(f, provider) ==
    /\ flow[f].st = "unused"
    /\ flow' = [flow EXCEPT ![f] = [provider |-> provider, st |-> "begun"]]
    /\ cookie' = [cookie EXCEPT ![provider] = f]
    /\ UNCHANGED <<user, mailVars, sessions, request, confirmed>>

\* The state of the callback is compared with the cookie's.
Callback(q, f) ==
    /\ flow[f].st # "unused"
    /\ At(q, "idle")
    /\ IF cookie[flow[f].provider] = f
       THEN Begin(q, [IdleRequest EXCEPT !.pc = "exchange", !.flow = f]) /\ UNCHANGED cookie
       ELSE cookie' = [cookie EXCEPT ![flow[f].provider] = None] /\ UNCHANGED request
    /\ UNCHANGED <<user, mailVars, sessions, flow, confirmed>>

\* The provider takes a code once.
Exchange(q) ==
    /\ At(q, "exchange")
    /\ IF flow[request[q].flow].st = "begun"
       THEN /\ flow' = [flow EXCEPT ![request[q].flow].st = "exchanged"]
            /\ Goto(q, "find")
            /\ UNCHANGED cookie
       ELSE Answer(q)
    /\ UNCHANGED <<user, mailVars, sessions, confirmed>>

HasId(a, provider, id) == user[a].id[provider] = id

\* By the id or by the address, whichever row the query gives first.
FindUser(q) ==
    /\ At(q, "find")
    /\ \E id \in IdsOf(ProviderOf(q)), e \in Emails :
          LET found == {a \in Rows : HasId(a, ProviderOf(q), id) \/ user[a].email = e}
              Found(a, unverified) ==
                  request' = [request EXCEPT ![q] =
                      [@ EXCEPT !.pc = "write", !.row = a, !.unverified = unverified,
                                !.email = e, !.id = id]]
          IN \/ found = {} /\ Found(None, FALSE)
             \/ \E a \in found : Found(a, ~user[a].verified)
    /\ UNCHANGED <<user, mailVars, sessions, browserVars, confirmed>>

\* GitHub's token is stored before the session.
AfterWrite(q, a) ==
    request' = [request EXCEPT ![q].pc = IF ProviderOf(q) = "github" THEN "keep" ELSE "session",
                               ![q].row = a]

\* Deviation: the password of an address nobody has confirmed is kept.
UpdateUserKeepsPassword(q) ==
    /\ At(q, "write")
    /\ LET a == request[q].row IN
       /\ a # None
       /\ \A b \in Rows \ {a} : ~HasId(b, ProviderOf(q), request[q].id)
       /\ user' = [user EXCEPT ![a] = [@ EXCEPT !.id[ProviderOf(q)] = request[q].id,
                                                !.verified = TRUE]]
       /\ AfterWrite(q, a)
    /\ UNCHANGED <<mailVars, sessions, browserVars, confirmed>>

\* The password of an address that was not verified goes.  Another row may have the
\* id: the statement throws (RequestFails).
UpdateUser(q) ==
    /\ At(q, "write")
    /\ LET a == request[q].row IN
       /\ a # None
       /\ \A b \in Rows \ {a} : ~HasId(b, ProviderOf(q), request[q].id)
       /\ user' = [user EXCEPT ![a] = [@ EXCEPT !.id[ProviderOf(q)] = request[q].id,
                                                !.hash = user[a].hash /\ ~request[q].unverified,
                                                !.verified = TRUE]]
       /\ AfterWrite(q, a)
    /\ UNCHANGED <<mailVars, sessions, browserVars, confirmed>>

\* The id or the address may be taken by now.
CreateUser(q) ==
    /\ At(q, "write")
    /\ request[q].row = None
    /\ \A b \in Rows : ~HasId(b, ProviderOf(q), request[q].id) /\ user[b].email # request[q].email
    /\ \E a \in Rows :
          /\ ~Present(a)
          /\ user' = [user EXCEPT ![a] =
                 [NoUser EXCEPT !.email = request[q].email, !.verified = TRUE,
                                !.id[ProviderOf(q)] = request[q].id]]
          /\ AfterWrite(q, a)
    /\ UNCHANGED <<mailVars, sessions, browserVars, confirmed>>

\* Deviation: the token is stored under the address that came with it.
KeepTokenMisplaced(q) ==
    /\ At(q, "keep")
    /\ user' = [user EXCEPT ![request[q].row].token = request[q].email]
    /\ Goto(q, "session")
    /\ UNCHANGED <<mailVars, sessions, browserVars, confirmed>>

KeepToken(q) ==
    /\ At(q, "keep")
    /\ user' = [user EXCEPT ![request[q].row].token = request[q].id]
    /\ Goto(q, "session")
    /\ UNCHANGED <<mailVars, sessions, browserVars, confirmed>>

-------------------------------------------------------------------------------
\* A session that Redis refuses is answered like one that is there.
OpenSession(q) ==
    /\ At(q, "session")
    /\ sessions' \in {sessions, sessions \cup {request[q].row}}
    /\ Answer(q)
    /\ UNCHANGED <<user, mailVars, confirmed>>

\* Logout, or a week has passed.
CloseSession(a) ==
    /\ a \in sessions
    /\ sessions' = sessions \ {a}
    /\ UNCHANGED <<user, mailVars, browserVars, request, confirmed>>

\* What the middleware asks of the user of a session.
Admits(a) == Present(a) /\ user[a].verified

\* A statement throws, Redis or the provider does not answer, or the API dies.
RequestFails(q) ==
    /\ ~At(q, "idle")
    /\ \/ Answer(q)
       \/ request' = [request EXCEPT ![q] = IdleRequest] /\ UNCHANGED browserVars
    /\ UNCHANGED <<user, mailVars, sessions, confirmed>>

Step(q) ==
    \/ InsertUser(q)
    \/ SetCooldown(q) \/ StoreToken(q) \/ Deliver(q) \/ DeliverFails(q) \/ Undo(q)
    \/ Confirm(q)
    \/ Exchange(q) \/ FindUser(q) \/ UpdateUser(q) \/ CreateUser(q) \/ KeepToken(q)
    \/ OpenSession(q) \/ RequestFails(q)

Next ==
    \/ \E q \in Requests :
          \/ Step(q)
          \/ \E e \in Emails : Register(q, e)
          \/ \E a \in Rows : Login(q, a)
          \/ \E t \in Tokens : Click(q, t)
          \/ \E f \in Flows : Callback(q, f)
    \/ \E f \in Flows, p \in Providers : BeginSignIn(f, p)
    \/ \E a \in Rows : CooldownExpires(a) \/ CloseSession(a)
    \/ \E t \in Tokens : LinkExpires(t) \/ Discard(t)

Spec == Init /\ [][Next]_vars

\* Requests end and times run out.  A person who keeps logging in and reading mails
\* does not meet a failure every time.
Patience(a) ==
    /\ WF_vars(CooldownExpires(a))
    /\ SF_vars(\E q \in Requests : Login(q, a))
    /\ SF_vars(\E q \in Requests : request[q].row = a /\ SetCooldown(q))
    /\ SF_vars(\E q \in Requests : request[q].row = a /\ StoreToken(q))
    /\ SF_vars(\E q \in Requests : request[q].row = a /\ Deliver(q))
    /\ SF_vars(\E q \in Requests, t \in Tokens : link[t] = a /\ Click(q, t))
    /\ SF_vars(\E q \in Requests : request[q].row = a /\ Confirm(q))

FairSpec ==
    /\ Spec
    /\ \A q \in Requests : WF_vars(Step(q))
    /\ \A t \in Tokens : WF_vars(LinkExpires(t)) /\ WF_vars(Discard(t))
    /\ \A a \in Rows : Patience(a)

-------------------------------------------------------------------------------
(***************************************************************************)
(* Properties.                                                             *)
(***************************************************************************)
\* The types of all variables.
AccountsTypeOK ==
    /\ user \in [Rows -> UserRows]
    /\ cooldown \subseteq Rows
    /\ link \in [Tokens -> Rows \cup {None}]
    /\ mailbox \subseteq Tokens
    /\ sessions \subseteq Rows
    /\ flow \in [Flows -> FlowStates]
    /\ cookie \in [Providers -> Flows \cup {None}]
    /\ request \in [Requests -> RequestStates]
    /\ confirmed \subseteq Rows

\* A password opens a verified account only if its mailbox has confirmed that very
\* registration, however mail, login and provider overlap; and no session is given
\* that the middleware would answer 403.
PasswordsAreConfirmed ==
    \A a \in Rows :
        /\ user[a].verified /\ user[a].hash => a \in confirmed
        /\ a \in sessions => Admits(a)

\* A registration whose person keeps trying ends as a verified account: a mail that
\* was lost, a link that has expired and a cooldown after a crash do not bar it.
RegisteredIsVerified ==
    \A a \in Rows : user[a].hash ~> user[a].verified

===============================================================================
