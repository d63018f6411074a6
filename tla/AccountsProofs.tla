---------------------------- MODULE AccountsProofs ----------------------------
(***************************************************************************)
(* Theorems about accounts, for any number of users, addresses, links,     *)
(* sign-ins and requests.  A row only gains: it is never deleted and never *)
(* becomes unverified again, so that what a request found of it stays true *)
(* until the request writes.                                               *)
(***************************************************************************)
EXTENDS Accounts, TLAPS

-------------------------------------------------------------------------------
(***************************************************************************)
(* The invariant.                                                          *)
(***************************************************************************)
UsersOK ==
    /\ user \in [Rows -> UserRows]
    /\ confirmed \subseteq Rows
    /\ \A a \in Rows : /\ user[a].verified => Present(a)
                       /\ \A p \in Providers : user[a].id[p] # None => Present(a)
                       /\ user[a].verified /\ user[a].hash => a \in confirmed

MailOK ==
    /\ cooldown \subseteq Rows
    /\ mailbox \subseteq Tokens
    /\ link \in [Tokens -> Rows \cup {None}]
    /\ \A t \in Tokens : link[t] # None => Present(link[t])

SessionsOK == sessions \subseteq Rows /\ \A a \in sessions : Admits(a)

BrowserOK ==
    /\ flow \in [Flows -> FlowStates]
    /\ cookie \in [Providers -> Flows \cup {None}]

\* What a request has found is so until it writes.
RequestOK(x) ==
    /\ x \in RequestStates
    /\ x.pc \in {"send", "token", "mail", "undo", "confirm"} => x.row \in Rows /\ Present(x.row)
    /\ x.pc \in {"mail", "undo"} => x.token \in Tokens
    /\ x.pc = "insert" => x.email \in Emails
    /\ x.pc \in {"exchange", "find", "write", "keep"} =>
           x.flow \in Flows /\ flow[x.flow].st # "unused"
    /\ x.pc = "write" => /\ x.email \in Emails
                         /\ x.id \in IdsOf(flow[x.flow].provider)
                         /\ x.row # None => /\ Present(x.row)
                                            /\ ~x.unverified => user[x.row].verified
    /\ x.pc = "keep" => x.id \in GitHubIds
    /\ x.pc \in {"keep", "session"} => x.row \in Rows /\ Admits(x.row)

RequestsOK ==
    /\ request \in [Requests -> RequestStates]
    /\ \A q \in Requests : RequestOK(request[q])

AccountsInv == UsersOK /\ MailOK /\ SessionsOK /\ BrowserOK /\ RequestsOK

LEMMA AccountsInvImplies == AccountsInv => AccountsTypeOK /\ PasswordsAreConfirmed
BY DEF AccountsInv, UsersOK, MailOK, SessionsOK, BrowserOK, RequestsOK, AccountsTypeOK,
       PasswordsAreConfirmed

LEMMA InitAccountsInv == Init => AccountsInv
<1> SUFFICES ASSUME Init PROVE AccountsInv
  OBVIOUS
<1>1. /\ NoUser \in UserRows /\ NoUser.email = None /\ ~NoUser.verified
      /\ \A p \in Providers : NoUser.id[p] = None
  BY DEF NoUser, UserRows
<1>2. UsersOK
  BY <1>1 DEF Init, UsersOK, Present
<1>3. MailOK /\ SessionsOK /\ BrowserOK
  BY DEF Init, MailOK, SessionsOK, BrowserOK, FlowStates, Providers
<1>4. RequestsOK
  BY DEF Init, RequestsOK, RequestOK, IdleRequest, RequestStates
<1>5. QED
  BY <1>2, <1>3, <1>4 DEF AccountsInv

-------------------------------------------------------------------------------
(***************************************************************************)
(* What every step keeps.                                                  *)
(***************************************************************************)
Grows ==
    /\ \A a \in Rows : /\ Present(a) => Present(a)'
                       /\ user[a].verified => user'[a].verified
    /\ \A f \in Flows : flow[f].st # "unused" =>
           flow'[f].st # "unused" /\ flow'[f].provider = flow[f].provider

LEMMA AdmittedStays ==
    ASSUME Grows, NEW a \in Rows, Admits(a) PROVE Admits(a)'
BY DEF Grows, Admits

LEMMA RequestStays ==
    ASSUME Grows, NEW x, RequestOK(x) PROVE RequestOK(x)'
<1>1. x \in RequestStates /\ (x.row # None => x.row \in Rows)
  BY DEF RequestOK, RequestStates
<1>2. x.row \in Rows /\ Admits(x.row) => Admits(x.row)'
  BY AdmittedStays
<1>3. x.row \in Rows => /\ Present(x.row) => Present(x.row)'
                        /\ user[x.row].verified => user'[x.row].verified
  BY DEF Grows
<1>4. x.flow \in Flows /\ flow[x.flow].st # "unused" =>
          flow'[x.flow].st # "unused" /\ flow'[x.flow].provider = flow[x.flow].provider
  BY DEF Grows
<1>5. QED
  BY <1>1, <1>2, <1>3, <1>4 DEF RequestOK

\* A step of one request changes this request only.
LEMMA RequestChanges ==
    ASSUME RequestsOK, Grows, NEW q \in Requests, NEW y, RequestOK(y)',
           request' = [request EXCEPT ![q] = y]
    PROVE  RequestsOK'
<1>1. y \in RequestStates
  BY DEF RequestOK
<1>2. request' \in [Requests -> RequestStates]
  BY <1>1 DEF RequestsOK
<1>3. ASSUME NEW w \in Requests PROVE RequestOK(request[w])'
  <2>1. CASE w = q
    BY <2>1, request'[q] = y DEF RequestsOK
  <2>2. CASE w # q
    <3>1. request'[w] = request[w] /\ RequestOK(request[w])
      BY <2>2 DEF RequestsOK
    <3>2. \A x : RequestOK(x) => RequestOK(x)'
      BY RequestStays
    <3>3. QED
      BY <3>1, <3>2
  <2>3. QED
    BY <2>1, <2>2
<1>4. QED
  BY <1>2, <1>3 DEF RequestsOK

LEMMA RequestsStay ==
    ASSUME RequestsOK, Grows, request' = request PROVE RequestsOK'
<1>1. \A x : RequestOK(x) => RequestOK(x)'
  BY RequestStays
<1>2. QED
  BY <1>1 DEF RequestsOK

LEMMA MailStays ==
    ASSUME MailOK, Grows, UNCHANGED mailVars PROVE MailOK'
BY DEF MailOK, Grows, mailVars

LEMMA SessionsStay ==
    ASSUME SessionsOK, Grows, UNCHANGED sessions PROVE SessionsOK'
BY AdmittedStays DEF SessionsOK

LEMMA UsersStay ==
    ASSUME UsersOK, UNCHANGED <<user, confirmed>> PROVE UsersOK'
BY DEF UsersOK, Present

\* Of the rows and the sign-ins nothing changes.
LEMMA NothingIsLost ==
    ASSUME UNCHANGED <<user, flow>> PROVE Grows
BY DEF Grows, Present

LEMMA AnswerIsOK ==
    ASSUME AccountsInv, NEW q \in Requests, Answer(q)
    PROVE  /\ request' = [request EXCEPT ![q] = IdleRequest]
           /\ RequestOK(IdleRequest)'
           /\ BrowserOK'
           /\ flow' = flow
<1>1. RequestOK(IdleRequest)'
  BY DEF RequestOK, IdleRequest, RequestStates
<1>2. request[q] \in RequestStates
  BY DEF AccountsInv, RequestsOK
<1>3. request[q].flow # None => ProviderOf(q) \in Providers
  BY <1>2 DEF AccountsInv, BrowserOK, FlowStates, RequestStates, ProviderOf
<1>4. cookie' \in [Providers -> Flows \cup {None}]
  BY <1>3 DEF Answer, AccountsInv, BrowserOK
<1>5. QED
  BY <1>1, <1>4 DEF Answer, AccountsInv, BrowserOK

-------------------------------------------------------------------------------
(***************************************************************************)
(* Steps of a request that leave the rows as they are.                     *)
(***************************************************************************)
\* A request goes on as y, or is answered.
LEMMA RequestGoesOn ==
    ASSUME AccountsInv, NEW q \in Requests, NEW y, RequestOK(y)',
           request' = [request EXCEPT ![q] = y],
           UNCHANGED <<user, confirmed>>, Grows, MailOK', SessionsOK', BrowserOK'
    PROVE  AccountsInv'
BY RequestChanges, UsersStay DEF AccountsInv

LEMMA RequestEnds ==
    ASSUME AccountsInv, NEW q \in Requests, Answer(q),
           UNCHANGED <<user, confirmed>>, MailOK', SessionsOK'
    PROVE  AccountsInv'
BY AnswerIsOK, NothingIsLost, RequestGoesOn DEF Answer

LEMMA PasswordSteps ==
    ASSUME AccountsInv, NEW q \in Requests,
           \/ \E e \in Emails : Register(q, e)
           \/ \E a \in Rows : Login(q, a)
           \/ \E t \in Tokens : Click(q, t)
    PROVE  AccountsInv'
<1> USE DEF AccountsInv
<1>1. UNCHANGED <<user, flow, cookie, sessions, confirmed, mailbox, cooldown>>
  BY DEF Register, Login, Click, mailVars, browserVars
<1>2. Grows /\ SessionsOK' /\ BrowserOK'
  BY <1>1, NothingIsLost, SessionsStay DEF BrowserOK
<1>3. ASSUME NEW e \in Emails, Register(q, e) PROVE AccountsInv'
  <2>1. MailOK'
    BY <1>2, <1>3, MailStays DEF Register
  <2>2. CASE request' = [request EXCEPT ![q] = [IdleRequest EXCEPT !.pc = "insert", !.email = e]]
    <3>1. RequestOK([IdleRequest EXCEPT !.pc = "insert", !.email = e])'
      BY DEF RequestOK, IdleRequest, RequestStates
    <3>2. QED
      BY <1>1, <1>2, <2>1, <2>2, <3>1, RequestGoesOn
  <2>3. ASSUME NEW a \in Rows, user[a].email = e,
               request' = [request EXCEPT ![q] = [IdleRequest EXCEPT !.pc = "send", !.row = a]]
        PROVE  AccountsInv'
    <3>1. Present(a)'
      BY <1>1, <2>3, AccountsAssumption DEF Present
    <3>2. RequestOK([IdleRequest EXCEPT !.pc = "send", !.row = a])'
      BY <3>1 DEF RequestOK, IdleRequest, RequestStates
    <3>3. QED
      BY <1>1, <1>2, <2>1, <2>3, <3>2, RequestGoesOn
  <2>4. QED
    BY <1>3, <2>2, <2>3 DEF Register, Begin
<1>4. ASSUME NEW a \in Rows, Login(q, a) PROVE AccountsInv'
  <2> DEFINE y == [IdleRequest EXCEPT !.pc = IF user[a].verified THEN "session" ELSE "send", !.row = a]
  <2>1. MailOK'
    BY <1>2, <1>4, MailStays DEF Login
  <2>2. y.row = a /\ y \in RequestStates /\ y.pc \in {"session", "send"}
        /\ (y.pc = "session" => user[a].verified)
    BY DEF IdleRequest, RequestStates
  <2>3. Present(a)' /\ (user[a].verified => Admits(a)')
    BY <1>1, <1>4 DEF Login, Present, Admits
  <2> HIDE DEF y
  <2>4. \A x : /\ x \in RequestStates /\ x.row = a /\ x.pc \in {"session", "send"}
              /\ (x.pc = "session" => user[a].verified)
              => RequestOK(x)'
    BY <2>3 DEF RequestOK
  <2>5. PICK x : x = y
    OBVIOUS
  <2>6. request' = [request EXCEPT ![q] = x]
    BY <1>4, <2>5 DEF Login, Begin, y
  <2>7. QED
    BY <1>1, <1>2, <2>1, <2>2, <2>4, <2>5, <2>6, RequestGoesOn
<1>5. ASSUME NEW t \in Tokens, Click(q, t) PROVE AccountsInv'
  <2>1. link[t] \in Rows /\ Present(link[t])
    BY <1>5 DEF MailOK, Click
  <2>2. PICK a \in Rows : a = link[t]
    BY <2>1
  <2>3. request' = [request EXCEPT ![q] = [IdleRequest EXCEPT !.pc = "confirm", !.row = a]]
    BY <1>5, <2>2 DEF Click, Begin
  <2>4. RequestOK([IdleRequest EXCEPT !.pc = "confirm", !.row = a])'
    BY <1>1, <2>1, <2>2 DEF RequestOK, IdleRequest, RequestStates, Present
  <2>5. MailOK'
    <3>1. link' = [link EXCEPT ![t] = None]
      BY <1>5 DEF Click
    <3>2. QED
      BY <1>1, <3>1 DEF MailOK, Present
  <2>6. QED
    BY <1>1, <1>2, <2>3, <2>4, <2>5, RequestGoesOn
<1>6. QED
  BY <1>3, <1>4, <1>5

LEMMA MailSteps ==
    ASSUME AccountsInv, NEW q \in Requests,
           SetCooldown(q) \/ StoreToken(q) \/ Deliver(q) \/ DeliverFails(q) \/ Undo(q)
    PROVE  AccountsInv'
<1> USE DEF AccountsInv
<1>1. UNCHANGED <<user, flow, sessions, confirmed>>
  BY DEF SetCooldown, StoreToken, Deliver, DeliverFails, Undo, browserVars, Answer
<1>2. Grows /\ SessionsOK'
  BY <1>1, NothingIsLost, SessionsStay
<1>3. PICK x : x = request[q]
  OBVIOUS
<1>4. RequestOK(x)
  BY <1>3 DEF RequestsOK
<1>5. RequestOK(x)'
  BY <1>2, <1>4, RequestStays
<1>6. \A a \in Rows : Present(a)' <=> Present(a)
  BY <1>1 DEF Present
<1>7. CASE SetCooldown(q)
  <2>1. CASE x.row \in cooldown
    <3>1. MailOK'
      BY <1>3, <1>6, <1>7, <2>1 DEF SetCooldown, MailOK
    <3>2. QED
      BY <1>1, <1>2, <1>3, <1>7, <2>1, <3>1, RequestEnds DEF SetCooldown
  <2>2. CASE x.row \notin cooldown
    <3>1. x.row \in Rows
      BY <1>3, <1>4, <1>7 DEF SetCooldown, At, RequestOK
    <3>2. MailOK'
      BY <1>3, <1>6, <1>7, <2>2, <3>1 DEF SetCooldown, MailOK
    <3>3. RequestOK([x EXCEPT !.pc = "token"])'
      BY <1>3, <1>5, <1>7 DEF SetCooldown, At, RequestOK, RequestStates
    <3>4. request' = [request EXCEPT ![q] = [x EXCEPT !.pc = "token"]]
      BY <1>3, <1>7, <2>2 DEF SetCooldown, Goto
    <3>5. BrowserOK'
      BY <1>3, <1>7, <2>2 DEF SetCooldown, browserVars, BrowserOK
    <3>6. QED
      BY <1>1, <1>2, <3>2, <3>3, <3>4, <3>5, RequestGoesOn
  <2>3. QED
    BY <2>1, <2>2
<1>8. ASSUME NEW t \in Tokens, link' = [link EXCEPT ![t] = x.row], x.pc = "token",
             request' = [request EXCEPT ![q].pc = "mail", ![q].token = t],
             UNCHANGED <<cooldown, mailbox>>, BrowserOK'
      PROVE  AccountsInv'
  <2>1. x.row \in Rows /\ Present(x.row)
    BY <1>4, <1>8 DEF RequestOK
  <2>2. MailOK'
    BY <1>6, <1>8, <2>1 DEF MailOK
  <2>3. RequestOK([x EXCEPT !.pc = "mail", !.token = t])'
    BY <1>5, <1>8 DEF RequestOK, RequestStates
  <2>4. request' = [request EXCEPT ![q] = [x EXCEPT !.pc = "mail", !.token = t]]
    BY <1>3, <1>8 DEF RequestsOK, RequestStates
  <2>5. QED
    BY <1>1, <1>2, <1>8, <2>2, <2>3, <2>4, RequestGoesOn
<1>9. CASE StoreToken(q)
  <2>1. PICK t \in Tokens : /\ link' = [link EXCEPT ![t] = request[q].row]
                           /\ request' = [request EXCEPT ![q].pc = "mail", ![q].token = t]
    BY <1>9 DEF StoreToken
  <2>2. x.pc = "token" /\ UNCHANGED <<cooldown, mailbox>> /\ BrowserOK'
    BY <1>3, <1>9 DEF StoreToken, At, browserVars, BrowserOK
  <2>3. QED
    BY <1>3, <1>8, <2>1, <2>2
<1>10. CASE Deliver(q)
  <2>1. x.token \in Tokens
    BY <1>3, <1>4, <1>10 DEF Deliver, At, RequestOK
  <2>2. MailOK'
    BY <1>3, <1>6, <1>10, <2>1 DEF Deliver, MailOK
  <2>3. QED
    BY <1>1, <1>2, <1>10, <2>2, RequestEnds DEF Deliver
<1>11. CASE DeliverFails(q)
  <2>1. x.token \in Tokens
    BY <1>3, <1>4, <1>11 DEF DeliverFails, At, RequestOK
  <2>2. MailOK'
    BY <1>3, <1>6, <1>11, <2>1 DEF DeliverFails, MailOK
  <2>3. RequestOK([x EXCEPT !.pc = "undo"])'
    BY <1>3, <1>5, <1>11 DEF DeliverFails, At, RequestOK, RequestStates
  <2>4. request' = [request EXCEPT ![q] = [x EXCEPT !.pc = "undo"]]
    BY <1>3, <1>11 DEF DeliverFails, Goto
  <2>5. BrowserOK'
    BY <1>11 DEF DeliverFails, browserVars, BrowserOK
  <2>6. QED
    BY <1>1, <1>2, <2>2, <2>3, <2>4, <2>5, RequestGoesOn
<1>12. CASE Undo(q)
  <2>1. MailOK'
    BY <1>6, <1>12 DEF Undo, MailOK
  <2>2. QED
    BY <1>1, <1>2, <1>12, <2>1, RequestEnds DEF Undo
<1>13. QED
  BY <1>7, <1>9, <1>10, <1>11, <1>12

\* Times run out, mails are thrown away, sessions end.
LEMMA TimeSteps ==
    ASSUME AccountsInv,
           \/ \E a \in Rows : CooldownExpires(a) \/ CloseSession(a)
           \/ \E t \in Tokens : LinkExpires(t) \/ Discard(t)
    PROVE  AccountsInv'
<1> USE DEF AccountsInv
<1>1. UNCHANGED <<user, flow, cookie, request, confirmed>>
  BY DEF CooldownExpires, CloseSession, LinkExpires, Discard, browserVars
<1>2. Grows /\ BrowserOK' /\ UsersOK' /\ RequestsOK'
  BY <1>1, NothingIsLost, UsersStay, RequestsStay DEF BrowserOK
<1>3. \A a \in Rows : (Present(a)' <=> Present(a)) /\ (Admits(a)' <=> Admits(a))
  BY <1>1 DEF Present, Admits
<1>4. MailOK'
  BY <1>3 DEF MailOK, CooldownExpires, CloseSession, LinkExpires, Discard, mailVars
<1>5. SessionsOK'
  BY <1>3 DEF SessionsOK, CooldownExpires, CloseSession, LinkExpires, Discard
<1>6. QED
  BY <1>2, <1>4, <1>5

LEMMA BrowserSteps ==
    ASSUME AccountsInv, NEW f \in Flows,
           \/ \E p \in Providers : BeginSignIn(f, p)
           \/ \E q \in Requests : Callback(q, f)
    PROVE  AccountsInv'
<1> USE DEF AccountsInv
<1>1. UNCHANGED <<user, mailVars, sessions, confirmed>>
  BY DEF BeginSignIn, Callback
<1>2. ASSUME Grows PROVE UsersOK' /\ MailOK' /\ SessionsOK'
  BY <1>1, <1>2, UsersStay, MailStays, SessionsStay
<1>3. ASSUME NEW p \in Providers, BeginSignIn(f, p) PROVE AccountsInv'
  <2>1. Grows
    BY <1>1, <1>3 DEF BeginSignIn, Grows, Present, BrowserOK
  <2>2. BrowserOK'
    BY <1>3 DEF BeginSignIn, BrowserOK, FlowStates
  <2>3. RequestsOK'
    BY <1>3, <2>1, RequestsStay DEF BeginSignIn
  <2>4. QED
    BY <1>2, <2>1, <2>2, <2>3
<1>4. ASSUME NEW q \in Requests, Callback(q, f) PROVE AccountsInv'
  <2>1. Grows
    BY <1>1, <1>4, NothingIsLost DEF Callback
  <2>2. flow[f].provider \in Providers
    BY DEF BrowserOK, FlowStates
  <2>3. BrowserOK'
    BY <1>4, <2>2 DEF Callback, BrowserOK, Begin
  <2>4. CASE request' = request
    BY <1>2, <2>1, <2>3, <2>4, RequestsStay
  <2>5. CASE request' = [request EXCEPT ![q] = [IdleRequest EXCEPT !.pc = "exchange", !.flow = f]]
    <3>1. RequestOK([IdleRequest EXCEPT !.pc = "exchange", !.flow = f])'
      BY <1>4 DEF Callback, RequestOK, IdleRequest, RequestStates
    <3>2. QED
      BY <1>2, <2>1, <2>3, <2>5, <3>1, RequestChanges
  <2>6. QED
    BY <1>4, <2>4, <2>5 DEF Callback, Begin
<1>5. QED
  BY <1>3, <1>4

-------------------------------------------------------------------------------
(***************************************************************************)
(* Steps that write a row.                                                 *)
(***************************************************************************)
\* Row a becomes r, which has what it had, and the request goes on as y.
LEMMA RowChanges ==
    ASSUME AccountsInv, NEW q \in Requests, NEW y, NEW a \in Rows, NEW r \in UserRows,
           user' = [user EXCEPT ![a] = r],
           r.email # None,
           user[a].verified => r.verified,
           r.verified /\ r.hash => a \in confirmed',
           confirmed \subseteq confirmed', confirmed' \subseteq Rows,
           request' = [request EXCEPT ![q] = y], Grows => RequestOK(y)',
           UNCHANGED <<mailVars, sessions, flow>>, BrowserOK'
    PROVE  AccountsInv'
<1> USE DEF AccountsInv
<1>1. user'[a] = r /\ \A b \in Rows : b # a => user'[b] = user[b]
  BY DEF UsersOK
<1>2. Grows
  BY <1>1 DEF Grows, Present
<1>3. user' \in [Rows -> UserRows]
  BY DEF UsersOK
<1>4. ASSUME NEW b \in Rows
      PROVE  /\ user'[b].verified => Present(b)'
             /\ \A p \in Providers : user'[b].id[p] # None => Present(b)'
             /\ user'[b].verified /\ user'[b].hash => b \in confirmed'
  <2>1. CASE b = a
    BY <1>1, <2>1 DEF Present
  <2>2. CASE b # a
    BY <1>1, <2>2 DEF Present, UsersOK
  <2>3. QED
    BY <2>1, <2>2
<1>5. UsersOK'
  BY <1>3, <1>4 DEF UsersOK
<1>6. MailOK' /\ SessionsOK'
  BY <1>2, MailStays, SessionsStay
<1>7. RequestsOK'
  BY <1>2, RequestChanges
<1>8. QED
  BY <1>5, <1>6, <1>7

LEMMA InsertUserStep ==
    ASSUME AccountsInv, NEW q \in Requests, InsertUser(q) PROVE AccountsInv'
<1> USE DEF AccountsInv
<1>1. PICK x : x = request[q]
  OBVIOUS
<1>2. RequestOK(x) /\ x.email \in Emails /\ x \in RequestStates
  BY <1>1 DEF RequestsOK, InsertUser, At, RequestOK
<1>3. PICK a \in Rows : /\ ~Present(a)
                       /\ user' = [user EXCEPT ![a].email = x.email, ![a].hash = TRUE]
                       /\ request' = [request EXCEPT ![q].pc = "send", ![q].row = a]
  BY <1>1 DEF InsertUser
<1>4. user[a] \in UserRows /\ ~user[a].verified
  BY <1>3 DEF UsersOK
<1>5. PICK r : r = [user[a] EXCEPT !.email = x.email, !.hash = TRUE]
  OBVIOUS
<1>6. r \in UserRows /\ ~r.verified /\ r.email = x.email
  BY <1>2, <1>4, <1>5 DEF UserRows
<1>7. user' = [user EXCEPT ![a] = r]
  BY <1>3, <1>5 DEF UsersOK, UserRows
<1>8. PICK y : y = [x EXCEPT !.pc = "send", !.row = a]
  OBVIOUS
<1>9. y \in RequestStates /\ y.pc = "send" /\ y.row = a
  BY <1>2, <1>8 DEF RequestStates
<1>10. request' = [request EXCEPT ![q] = y]
  BY <1>1, <1>3, <1>8 DEF RequestsOK, RequestStates
<1>11. user'[a] = r
  BY <1>7 DEF UsersOK
<1>12. x.email # None
  BY <1>2, AccountsAssumption
<1>13. Present(a)'
  BY <1>6, <1>11, <1>12 DEF Present
<1>14. RequestOK(y)'
  BY <1>9, <1>13 DEF RequestOK
<1>15. UNCHANGED <<mailVars, sessions, flow, confirmed>> /\ BrowserOK' /\ confirmed \subseteq Rows
  BY DEF InsertUser, browserVars, BrowserOK, UsersOK
<1>16. /\ r.email # None
       /\ user[a].verified => r.verified
       /\ r.verified /\ r.hash => a \in confirmed'
  BY <1>4, <1>6, <1>12
<1>17. confirmed \subseteq confirmed' /\ confirmed' \subseteq Rows
  BY <1>15
<1>18. QED
  BY <1>6, <1>7, <1>10, <1>14, <1>15, <1>16, <1>17, RowChanges

LEMMA ConfirmStep ==
    ASSUME AccountsInv, NEW q \in Requests, Confirm(q) PROVE AccountsInv'
<1> USE DEF AccountsInv
<1>1. PICK x : x = request[q]
  OBVIOUS
<1>2. PICK a \in Rows : a = x.row /\ Present(a)
  BY <1>1 DEF RequestsOK, RequestOK, Confirm, At
<1>3. CASE user[a].verified
  <2>1. UNCHANGED <<user, confirmed, mailVars, sessions>> /\ Answer(q)
    BY <1>1, <1>2, <1>3 DEF Confirm
  <2>2. MailOK' /\ SessionsOK'
    BY <2>1 DEF MailOK, SessionsOK, Present, Admits, mailVars
  <2>3. QED
    BY <2>1, <2>2, RequestEnds
<1>4. CASE ~user[a].verified
  <2>1. user' = [user EXCEPT ![a].verified = TRUE] /\ confirmed' = confirmed \cup {a}
    BY <1>1, <1>2, <1>4 DEF Confirm
  <2>2. PICK r : r = [user[a] EXCEPT !.verified = TRUE]
    OBVIOUS
  <2>3. r \in UserRows /\ r.verified /\ r.email = user[a].email
    BY <2>2 DEF UsersOK, UserRows
  <2>4. user' = [user EXCEPT ![a] = r]
    BY <2>1, <2>2
  <2>5. /\ request' = [request EXCEPT ![q] = IdleRequest] /\ RequestOK(IdleRequest)'
        /\ BrowserOK' /\ flow' = flow
    BY AnswerIsOK DEF Confirm
  <2>6. UNCHANGED <<mailVars, sessions>>
    BY DEF Confirm
  <2>7. a \in confirmed' /\ confirmed \subseteq confirmed' /\ confirmed' \subseteq Rows
    BY <2>1 DEF UsersOK
  <2>8. QED
    BY <1>2, <2>3, <2>4, <2>5, <2>6, <2>7, RowChanges DEF Present
<1>5. QED
  BY <1>3, <1>4

\* What a request to write has found, and how it goes on.
LEMMA WriteFound ==
    ASSUME AccountsInv, NEW q \in Requests, At(q, "write"), NEW x, x = request[q]
    PROVE  /\ x \in RequestStates /\ x.email \in Emails /\ x.flow \in Flows
           /\ flow[x.flow].st # "unused" /\ flow[x.flow].provider \in Providers
           /\ x.id \in IdsOf(flow[x.flow].provider) /\ x.id \in Ids
           /\ x.row # None => x.row \in Rows /\ Present(x.row)
           /\ x.row # None /\ ~x.unverified => user[x.row].verified
<1>1. RequestOK(x) /\ x.pc = "write"
  BY DEF AccountsInv, RequestsOK, At
<1>2. x \in RequestStates /\ x.flow \in Flows
  BY <1>1 DEF RequestOK
<1>3. flow[x.flow] \in FlowStates
  BY <1>2 DEF AccountsInv, BrowserOK
<1>4. QED
  BY <1>1, <1>2, <1>3 DEF RequestOK, RequestStates, FlowStates, IdsOf, Ids

LEMMA AfterWriteIsOK ==
    ASSUME AccountsInv, NEW q \in Requests, At(q, "write"), NEW a \in Rows, AfterWrite(q, a),
           UNCHANGED flow, Admits(a)'
    PROVE  \E y : request' = [request EXCEPT ![q] = y] /\ RequestOK(y)'
<1>1. PICK x : x = request[q]
  OBVIOUS
<1>2. /\ x \in RequestStates /\ x.flow \in Flows /\ flow[x.flow].st # "unused"
      /\ x.id \in IdsOf(flow[x.flow].provider)
  BY <1>1, WriteFound
<1>3. PICK y : y = [x EXCEPT !.pc = IF flow[x.flow].provider = "github" THEN "keep" ELSE "session",
                             !.row = a]
  OBVIOUS
<1>4. request' = [request EXCEPT ![q] = y]
  BY <1>1, <1>2, <1>3 DEF AfterWrite, ProviderOf, AccountsInv, RequestsOK, RequestStates
<1>5. /\ y \in RequestStates /\ y.row = a /\ y.flow = x.flow /\ y.id = x.id
      /\ y.pc \in {"keep", "session"} /\ (y.pc = "keep" => flow[x.flow].provider = "github")
  BY <1>2, <1>3 DEF RequestStates
<1>6. y.pc = "keep" => y.id \in GitHubIds
  BY <1>2, <1>5 DEF IdsOf
<1>7. RequestOK(y)'
  BY <1>2, <1>5, <1>6 DEF RequestOK
<1>8. QED
  BY <1>4, <1>7

LEMMA UpdateUserStep ==
    ASSUME AccountsInv, NEW q \in Requests, UpdateUser(q) PROVE AccountsInv'
<1>1. PICK x : x = request[q]
  OBVIOUS
<1>2. At(q, "write") /\ x.row # None
  BY <1>1 DEF UpdateUser
<1>3. /\ flow[x.flow].provider \in Providers /\ x.id \in Ids
      /\ x.row \in Rows /\ Present(x.row)
      /\ ~x.unverified => user[x.row].verified
  BY <1>1, <1>2, WriteFound
<1>4. PICK a \in Rows : a = x.row
  BY <1>3
<1>5. PICK p \in Providers : p = flow[x.flow].provider
  BY <1>3
<1>6. PICK r : r = [user[a] EXCEPT !.id[p] = x.id, !.hash = @ /\ ~x.unverified, !.verified = TRUE]
  OBVIOUS
<1>7. user' = [user EXCEPT ![a] = r]
  BY <1>1, <1>4, <1>5, <1>6 DEF UpdateUser, ProviderOf
<1>8. user[a] \in UserRows
  BY DEF AccountsInv, UsersOK
<1>9. /\ r \in UserRows /\ r.email = user[a].email /\ r.verified
      /\ r.hash => user[a].hash /\ ~x.unverified
  BY <1>3, <1>6, <1>8 DEF UserRows
<1>10. Present(a) /\ r.email # None
  BY <1>3, <1>4, <1>9 DEF Present
<1>11. user'[a] = r
  BY <1>7 DEF AccountsInv, UsersOK
<1>12. Admits(a)'
  BY <1>9, <1>10, <1>11 DEF Admits, Present
<1>13. UNCHANGED <<mailVars, sessions, flow, cookie, confirmed>> /\ AfterWrite(q, a)
  BY <1>1, <1>4 DEF UpdateUser, browserVars
<1>14. PICK y : request' = [request EXCEPT ![q] = y] /\ RequestOK(y)'
  BY <1>2, <1>12, <1>13, AfterWriteIsOK
<1>15. BrowserOK' /\ confirmed \subseteq confirmed' /\ confirmed' \subseteq Rows
  BY <1>13 DEF AccountsInv, BrowserOK, UsersOK
<1>16. r.hash => a \in confirmed
  BY <1>3, <1>4, <1>9 DEF AccountsInv, UsersOK
<1>17. /\ r.email # None
       /\ user[a].verified => r.verified
       /\ r.verified /\ r.hash => a \in confirmed'
  BY <1>9, <1>10, <1>15, <1>16
<1>18. QED
  BY <1>7, <1>9, <1>13, <1>14, <1>15, <1>17, RowChanges

LEMMA CreateUserStep ==
    ASSUME AccountsInv, NEW q \in Requests, CreateUser(q) PROVE AccountsInv'
<1>1. PICK x : x = request[q]
  OBVIOUS
<1>2. At(q, "write")
  BY DEF CreateUser
<1>3. flow[x.flow].provider \in Providers /\ x.id \in Ids /\ x.email \in Emails
  BY <1>1, <1>2, WriteFound
<1>4. PICK p \in Providers : p = flow[x.flow].provider
  BY <1>3
<1>5. PICK r : r = [NoUser EXCEPT !.email = x.email, !.verified = TRUE, !.id[p] = x.id]
  OBVIOUS
<1>6. PICK a \in Rows : ~Present(a) /\ user' = [user EXCEPT ![a] = r] /\ AfterWrite(q, a)
  BY <1>1, <1>4, <1>5 DEF CreateUser, ProviderOf
<1>7. r \in UserRows /\ r.email = x.email /\ r.verified /\ ~r.hash
  BY <1>3, <1>5 DEF NoUser, UserRows
<1>8. r.email # None
  BY <1>3, <1>7, AccountsAssumption
<1>9. user'[a] = r
  BY <1>6 DEF AccountsInv, UsersOK
<1>10. Admits(a)'
  BY <1>7, <1>8, <1>9 DEF Admits, Present
<1>11. UNCHANGED <<mailVars, sessions, flow, cookie, confirmed>>
  BY DEF CreateUser, browserVars
<1>12. PICK y : request' = [request EXCEPT ![q] = y] /\ RequestOK(y)'
  BY <1>2, <1>6, <1>10, <1>11, AfterWriteIsOK
<1>13. BrowserOK' /\ confirmed \subseteq confirmed' /\ confirmed' \subseteq Rows
  BY <1>11 DEF AccountsInv, BrowserOK, UsersOK
<1>14. /\ r.email # None
       /\ user[a].verified => r.verified
       /\ r.verified /\ r.hash => a \in confirmed'
  BY <1>7, <1>8
<1>15. QED
  BY <1>6, <1>7, <1>11, <1>12, <1>13, <1>14, RowChanges

LEMMA KeepTokenStep ==
    ASSUME AccountsInv, NEW q \in Requests, KeepToken(q) PROVE AccountsInv'
<1>1. PICK x : x = request[q]
  OBVIOUS
<1>2. RequestOK(x) /\ x.pc = "keep"
  BY <1>1 DEF AccountsInv, RequestsOK, KeepToken, At
<1>3. x \in RequestStates /\ x.id \in GitHubIds /\ x.row \in Rows /\ Admits(x.row)
  BY <1>2 DEF RequestOK
<1>4. PICK a \in Rows : a = x.row /\ Present(a) /\ user[a].verified
  BY <1>3 DEF Admits
<1>5. PICK r : r = [user[a] EXCEPT !.token = x.id]
  OBVIOUS
<1>6. user' = [user EXCEPT ![a] = r]
  BY <1>1, <1>4, <1>5 DEF KeepToken
<1>7. user[a] \in UserRows
  BY DEF AccountsInv, UsersOK
<1>8. /\ r \in UserRows /\ r.email = user[a].email /\ r.verified = user[a].verified
      /\ r.hash = user[a].hash
  BY <1>3, <1>5, <1>7 DEF UserRows
<1>9. user'[a] = r
  BY <1>6 DEF AccountsInv, UsersOK
<1>10. Admits(a)'
  BY <1>4, <1>8, <1>9 DEF Admits, Present
<1>11. PICK y : y = [x EXCEPT !.pc = "session"]
  OBVIOUS
<1>12. y \in RequestStates /\ y.pc = "session" /\ y.row = a
  BY <1>3, <1>4, <1>11 DEF RequestStates
<1>13. request' = [request EXCEPT ![q] = y] /\ RequestOK(y)'
  BY <1>1, <1>10, <1>11, <1>12 DEF KeepToken, Goto, RequestOK
<1>14. UNCHANGED <<mailVars, sessions, flow, cookie, confirmed>>
  BY DEF KeepToken, browserVars
<1>15. BrowserOK' /\ confirmed \subseteq confirmed' /\ confirmed' \subseteq Rows
  BY <1>14 DEF AccountsInv, BrowserOK, UsersOK
<1>16. user[a].verified /\ user[a].hash => a \in confirmed
  BY DEF AccountsInv, UsersOK
<1>17. /\ r.email # None
       /\ user[a].verified => r.verified
       /\ r.verified /\ r.hash => a \in confirmed'
  BY <1>4, <1>8, <1>15, <1>16 DEF Present
<1>18. QED
  BY <1>6, <1>8, <1>13, <1>14, <1>15, <1>17, RowChanges

-------------------------------------------------------------------------------
(***************************************************************************)
(* The rest of a sign-in, and failures.                                    *)
(***************************************************************************)
LEMMA ExchangeStep ==
    ASSUME AccountsInv, NEW q \in Requests, Exchange(q) PROVE AccountsInv'
<1> USE DEF AccountsInv
<1>1. PICK x : x = request[q]
  OBVIOUS
<1>2. RequestOK(x) /\ x.pc = "exchange"
  BY <1>1 DEF RequestsOK, Exchange, At
<1>3. UNCHANGED <<user, mailVars, sessions, confirmed>>
  BY DEF Exchange
<1>4. CASE flow[x.flow].st = "begun"
  <2>1. /\ flow' = [flow EXCEPT ![x.flow].st = "exchanged"] /\ cookie' = cookie
        /\ request' = [request EXCEPT ![q] = [x EXCEPT !.pc = "find"]]
    BY <1>1, <1>4 DEF Exchange, Goto
  <2>2. Grows /\ BrowserOK'
    BY <1>3, <2>1 DEF Grows, Present, BrowserOK, FlowStates
  <2>3. RequestOK(x)'
    BY <1>2, <2>2, RequestStays
  <2>4. RequestOK([x EXCEPT !.pc = "find"])'
    BY <1>2, <2>3 DEF RequestOK, RequestStates
  <2>5. MailOK' /\ SessionsOK'
    BY <1>3, <2>2, MailStays, SessionsStay
  <2>6. QED
    BY <1>3, <2>1, <2>2, <2>4, <2>5, RequestGoesOn
<1>5. CASE flow[x.flow].st # "begun"
  <2>1. Answer(q)
    BY <1>1, <1>5 DEF Exchange
  <2>2. MailOK' /\ SessionsOK'
    BY <1>3 DEF MailOK, SessionsOK, Present, Admits, mailVars
  <2>3. QED
    BY <1>3, <2>1, <2>2, RequestEnds
<1>6. QED
  BY <1>4, <1>5

LEMMA FindUserStep ==
    ASSUME AccountsInv, NEW q \in Requests, FindUser(q) PROVE AccountsInv'
<1> USE DEF AccountsInv
<1>1. PICK x : x = request[q]
  OBVIOUS
<1>2. RequestOK(x) /\ x.pc = "find"
  BY <1>1 DEF RequestsOK, FindUser, At
<1>3. x \in RequestStates /\ x.flow \in Flows /\ flow[x.flow].st # "unused"
  BY <1>2 DEF RequestOK
<1>4. UNCHANGED <<user, mailVars, sessions, flow, cookie, confirmed>>
  BY DEF FindUser, browserVars
<1>5. PICK id \in IdsOf(flow[x.flow].provider), e \in Emails :
          \E a \in Rows \cup {None}, u \in BOOLEAN :
             /\ request' = [request EXCEPT ![q] =
                    [x EXCEPT !.pc = "write", !.row = a, !.unverified = u, !.email = e, !.id = id]]
             /\ a # None => /\ user[a].id[flow[x.flow].provider] = id \/ user[a].email = e
                            /\ u = ~user[a].verified
  BY <1>1, Zenon DEF FindUser, ProviderOf, HasId
<1>6. PICK a \in Rows \cup {None}, u \in BOOLEAN :
          /\ request' = [request EXCEPT ![q] =
                 [x EXCEPT !.pc = "write", !.row = a, !.unverified = u, !.email = e, !.id = id]]
          /\ a # None => /\ user[a].id[flow[x.flow].provider] = id \/ user[a].email = e
                         /\ u = ~user[a].verified
  BY <1>5
<1>7. flow[x.flow].provider \in Providers
  BY <1>3 DEF BrowserOK, FlowStates
<1>8. id # None /\ id \in Ids /\ e # None
  BY AccountsAssumption DEF IdsOf, Ids
<1>9. a # None => Present(a) /\ a \in Rows
  BY <1>6, <1>7, <1>8 DEF UsersOK, Present
<1>10. PICK y : y = [x EXCEPT !.pc = "write", !.row = a, !.unverified = u, !.email = e, !.id = id]
  OBVIOUS
<1>11. /\ y \in RequestStates /\ y.pc = "write" /\ y.row = a /\ y.unverified = u
       /\ y.email = e /\ y.id = id /\ y.flow = x.flow
  BY <1>3, <1>8, <1>10 DEF RequestStates
<1>12. a # None => (~u => user[a].verified)
  BY <1>6
<1>13. RequestOK(y)
  BY <1>3, <1>9, <1>11, <1>12 DEF RequestOK
<1>14. Grows /\ BrowserOK'
  BY <1>4, NothingIsLost DEF BrowserOK
<1>15. RequestOK(y)'
  BY <1>13, <1>14, RequestStays
<1>16. MailOK' /\ SessionsOK'
  BY <1>4, <1>14, MailStays, SessionsStay
<1>17. request' = [request EXCEPT ![q] = y]
  BY <1>6, <1>10
<1>18. QED
  BY <1>4, <1>14, <1>15, <1>16, <1>17, RequestGoesOn

LEMMA OpenSessionStep ==
    ASSUME AccountsInv, NEW q \in Requests, OpenSession(q) PROVE AccountsInv'
<1> USE DEF AccountsInv
<1>1. request[q].row \in Rows /\ Admits(request[q].row)
  BY DEF RequestsOK, RequestOK, OpenSession, At
<1>2. UNCHANGED <<user, mailVars, confirmed>> /\ Answer(q)
  BY DEF OpenSession
<1>3. MailOK'
  BY <1>2 DEF MailOK, Present, mailVars
<1>4. \A a : Admits(a)' <=> Admits(a)
  BY <1>2 DEF Admits, Present
<1>5. SessionsOK'
  BY <1>1, <1>4 DEF OpenSession, SessionsOK
<1>6. QED
  BY <1>2, <1>3, <1>5, RequestEnds

LEMMA RequestFailsStep ==
    ASSUME AccountsInv, NEW q \in Requests, RequestFails(q) PROVE AccountsInv'
<1> USE DEF AccountsInv
<1>1. UNCHANGED <<user, mailVars, sessions, confirmed>>
  BY DEF RequestFails
<1>2. MailOK' /\ SessionsOK'
  BY <1>1 DEF MailOK, SessionsOK, Present, Admits, mailVars
<1>3. CASE Answer(q)
  BY <1>1, <1>2, <1>3, RequestEnds
<1>4. CASE request' = [request EXCEPT ![q] = IdleRequest] /\ UNCHANGED browserVars
  <2>1. Grows /\ BrowserOK'
    BY <1>1, <1>4, NothingIsLost DEF browserVars, BrowserOK
  <2>2. RequestOK(IdleRequest)'
    BY DEF RequestOK, IdleRequest, RequestStates
  <2>3. QED
    BY <1>1, <1>2, <1>4, <2>1, <2>2, RequestGoesOn
<1>5. QED
  BY <1>3, <1>4 DEF RequestFails

-------------------------------------------------------------------------------
(***************************************************************************)
(* The theorems.                                                           *)
(***************************************************************************)
LEMMA NextAccountsInv == AccountsInv /\ [Next]_vars => AccountsInv'
<1> SUFFICES ASSUME AccountsInv, [Next]_vars PROVE AccountsInv'
  OBVIOUS
<1>1. ASSUME NEW q \in Requests, Step(q) PROVE AccountsInv'
  <2>1. CASE InsertUser(q)
    BY <2>1, InsertUserStep
  <2>2. CASE SetCooldown(q) \/ StoreToken(q) \/ Deliver(q) \/ DeliverFails(q) \/ Undo(q)
    BY <2>2, MailSteps
  <2>3. CASE Confirm(q)
    BY <2>3, ConfirmStep
  <2>4. CASE Exchange(q)
    BY <2>4, ExchangeStep
  <2>5. CASE FindUser(q)
    BY <2>5, FindUserStep
  <2>6. CASE UpdateUser(q)
    BY <2>6, UpdateUserStep
  <2>7. CASE CreateUser(q)
    BY <2>7, CreateUserStep
  <2>8. CASE KeepToken(q)
    BY <2>8, KeepTokenStep
  <2>9. CASE OpenSession(q)
    BY <2>9, OpenSessionStep
  <2>10. CASE RequestFails(q)
    BY <2>10, RequestFailsStep
  <2>11. QED
    BY <1>1, <2>1, <2>2, <2>3, <2>4, <2>5, <2>6, <2>7, <2>8, <2>9, <2>10 DEF Step
<1>2. ASSUME NEW q \in Requests, \E f \in Flows : Callback(q, f) PROVE AccountsInv'
  BY <1>2, BrowserSteps
<1>3. ASSUME NEW f \in Flows, \E p \in Providers : BeginSignIn(f, p) PROVE AccountsInv'
  BY <1>3, BrowserSteps
<1>4. CASE UNCHANGED vars
  BY <1>4, UsersStay, RequestsStay, NothingIsLost
     DEF vars, mailVars, browserVars, AccountsInv, MailOK, SessionsOK, BrowserOK, Present, Admits
<1>5. QED
  BY <1>1, <1>2, <1>3, <1>4, PasswordSteps, TimeSteps DEF Next

LEMMA AccountsInvariance == Spec => []AccountsInv
BY InitAccountsInv, NextAccountsInv, PTL DEF Spec

\* Every variable keeps its type, however many requests interleave (routes and lib
\* of auth.ts, email-verification.ts, session.ts).
THEOREM AccountsTypeCorrectness == Spec => []AccountsTypeOK
BY AccountsInvariance, AccountsInvImplies, PTL

\* A verified account has a password only if the mailbox has confirmed that very
\* registration, and no session is given that the middleware would turn away.
THEOREM PasswordsStayConfirmed == Spec => []PasswordsAreConfirmed
BY AccountsInvariance, AccountsInvImplies, PTL

===============================================================================
