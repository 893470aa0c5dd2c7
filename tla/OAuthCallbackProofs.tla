------------------------- MODULE OAuthCallbackProofs -------------------------
(***************************************************************************)
(* Proofs about OAuthCallback: for any number of callbacks, accounts and   *)
(* providers, with pictures that come as late as they like, accounts share *)
(* an e-mail only through the awaited picture, and the admin is the first  *)
(* account or one whose provider claims it.                                *)
(***************************************************************************)
EXTENDS OAuthCallback, TLAPS

Makers == Callbacks \cup {Nobody}
Pcs == {"waiting", "received", "download", "in", "refused", "failed"}

\* What may be said of the accounts there were before.
LowerAtFirst == \A s \in Existing : \A v \in DOMAIN s : Lower[s[v].email] = s[v].email
ApartAtFirst ==
  \A s \in Existing : \A v, w \in DOMAIN s : v < w => s[v].email # s[w].email
AdminAtFirst == \A s \in Existing : s # <<>> => \E v \in DOMAIN s : s[v].role = "admin"

Typed ==
  /\ conf \in Configs
  /\ users \in Seq(Account(Makers))
  /\ pc \in [Callbacks -> Pcs]
  /\ claims \in [Callbacks -> Claims \cup {NoClaims}]
  /\ user \in [Callbacks -> [id : Nat, role : Roles]]
  /\ user_count \in [Callbacks -> Nat]
  /\ \A c \in Callbacks : pc[c] \in {"received", "download"} => claims[c] \in Claims

\* E-mails are kept in lower case, and a callback that has made an account is over.
Kept ==
  \A v \in DOMAIN users :
    /\ Lower[users[v].email] = users[v].email
    /\ users[v].by \in Callbacks => pc[users[v].by] \in {"in", "failed"}

\* While a callback awaits a picture its e-mail is none of the accounts it counted.
Free ==
  \A c \in Callbacks :
    pc[c] = "download" =>
      /\ claims[c].picture /\ user_count[c] <= Len(users)
      /\ \A v \in DOMAIN users : v <= user_count[c] => users[v].email # lower(claims[c].email)

Apart ==
  \A v, w \in DOMAIN users :
    v < w /\ users[v].email = users[w].email =>
      /\ users[w].by \in Callbacks
      /\ claims[users[w].by].picture
      /\ user_count[users[w].by] < v

EmailInv == Typed /\ Kept /\ Free /\ Apart

-----------------------------------------------------------------------------
(* What the steps do to the accounts.                                      *)

LEMMA RolesTyped ==
  ASSUME Typed, NEW c \in Callbacks, NEW u \in DOMAIN users \cup {NoUser}
  PROVE  get_user_role(u, c) \in Roles
<1>1. ClaimedRole(c) \in Roles
  BY RoleAssumption DEF ClaimedRole, Roles
<1>2. u # NoUser => users[u].role \in Roles
  <2>1. u # NoUser => users[u] \in Account(Makers)
    BY DEF Typed
  <2> QED
    BY <2>1 DEF Account
<1>3. \/ get_user_role(u, c) \in {"admin", ClaimedRole(c), DefaultRole}
      \/ u # NoUser /\ get_user_role(u, c) = users[u].role
  BY DEF get_user_role
<1>4. "admin" \in Roles
  BY DEF Roles
<1> QED
  BY <1>1, <1>2, <1>3, <1>4, RoleAssumption

\* A login changes the sub and the role of one account.
LEMMA LogInUsers ==
  ASSUME Typed, NEW c \in Callbacks, LogIn(c)
  PROVE  \E u \in DOMAIN users :
           /\ users' \in Seq(Account(Makers))
           /\ DOMAIN users' = DOMAIN users /\ Len(users') = Len(users)
           /\ \A v \in DOMAIN users :
                users'[v].email = users[v].email /\ users'[v].by = users[v].by
           /\ \A v \in DOMAIN users \ {u} : users'[v].role = users[v].role
           /\ users'[u].role = get_user_role(u, c)
           /\ Finish(c, u, users[u].role)
<1>1. claims[c] \in Claims
  BY DEF Typed, LogIn
<1>2. PICK u \in found(c) :
        /\ users' = [users EXCEPT ![u].sub = claims[c].sub, ![u].role = get_user_role(u, c)]
        /\ Finish(c, u, users[u].role)
  BY DEF LogIn
<1>3. u \in DOMAIN users
  BY DEF found, bySub, byEmail
<1>4. claims[c].sub \in Subs /\ get_user_role(u, c) \in Roles
  BY <1>1, <1>3, ClaimsAssumption, RolesTyped
<1>5. users[u] \in Account(Makers)
  BY <1>3 DEF Typed
<1> DEFINE new == [users[u] EXCEPT !.sub = claims[c].sub, !.role = get_user_role(u, c)]
<1>6. /\ new \in Account(Makers)
      /\ new.email = users[u].email /\ new.by = users[u].by /\ new.role = get_user_role(u, c)
  BY <1>4, <1>5 DEF Account
<1>7. users' = [users EXCEPT ![u] = new]
  BY <1>2
<1> HIDE DEF new
<1>8. /\ users' \in Seq(Account(Makers))
      /\ DOMAIN users' = DOMAIN users /\ Len(users') = Len(users)
      /\ users'[u] = new
      /\ \A v \in DOMAIN users \ {u} : users'[v] = users[v]
  BY <1>3, <1>6, <1>7 DEF Typed
<1>9. \A v \in DOMAIN users : users'[v].email = users[v].email /\ users'[v].by = users[v].by
  BY <1>6, <1>8
<1>10. users'[u].role = get_user_role(u, c)
  BY <1>6, <1>8
<1> QED
  BY <1>2, <1>3, <1>8, <1>9, <1>10

\* A signup adds an account, or none.
LEMMA SignUpUsers ==
  ASSUME Typed, NEW c \in Callbacks, NEW count \in Nat, claims[c] \in Claims, SignUp(c, count)
  PROVE  \/ UNCHANGED <<db, user, latest>> /\ To(c, "failed")
         \/ \E role \in Roles :
              /\ role = get_user_role(NoUser, c)
              /\ users' \in Seq(Account(Makers))
              /\ Len(users') = Len(users) + 1
              /\ DOMAIN users' = DOMAIN users \cup {Len(users) + 1}
              /\ \A v \in DOMAIN users : users'[v] = users[v]
              /\ users'[Len(users) + 1] =
                   [email |-> lower(claims[c].email), sub |-> claims[c].sub, role |-> role, by |-> c]
              /\ Finish(c, Len(users) + 1, role)
<1>1. NewRole(c, count) = get_user_role(NoUser, c) /\ get_user_role(NoUser, c) \in Roles
  BY RolesTyped DEF NewRole
<1> DEFINE new == [email |-> lower(claims[c].email), sub |-> claims[c].sub,
                   role |-> get_user_role(NoUser, c), by |-> c]
<1>2. new \in Account(Makers)
  BY <1>1, ClaimsAssumption, LowerAssumption DEF Account, Makers, lower
<1>3. CASE users' = Append(users, new) /\ Finish(c, Len(users) + 1, get_user_role(NoUser, c))
  <2> HIDE DEF new
  <2>1. /\ users' \in Seq(Account(Makers)) /\ Len(users') = Len(users) + 1
        /\ DOMAIN users' = DOMAIN users \cup {Len(users) + 1}
        /\ \A v \in DOMAIN users : users'[v] = users[v]
        /\ users'[Len(users) + 1] = new
    BY <1>2, <1>3 DEF Typed
  <2> QED
    BY <1>1, <1>3, <2>1 DEF new
<1> QED
  BY <1>1, <1>3 DEF SignUp

LEMMA SeqOfMore ==
  ASSUME NEW S, NEW T, S \subseteq T, NEW s \in Seq(S)
  PROVE  s \in Seq(T)
OBVIOUS

LEMMA TypedInit == Init => Typed
<1>1. SUFFICES ASSUME Init PROVE Typed
  OBVIOUS
<1>2. users \in Seq(Account({Nobody}))
  BY <1>1, ExistingAssumption DEF Init
<1>3. Account({Nobody}) \subseteq Account(Makers)
  BY DEF Account, Makers
<1>4. users \in Seq(Account(Makers))
  BY <1>2, <1>3, SeqOfMore
<1> QED
  BY <1>1, <1>4, RoleAssumption DEF Init, Typed, Pcs, NoUser

\* The end of a callback keeps the types, and takes it to a state it does not leave.
LEMMA FinishTyped ==
  ASSUME Typed, NEW c \in Callbacks, NEW u \in Nat, NEW role \in Roles, Finish(c, u, role)
  PROVE  /\ user' \in [Callbacks -> [id : Nat, role : Roles]]
         /\ user'[c] = [id |-> u, role |-> role]
         /\ To(c, "in") \/ To(c, "failed")
BY DEF Finish, Typed

LEMMA SignUpTyped ==
  ASSUME Typed, NEW c \in Callbacks, pc[c] \in {"received", "download"}, NEW count \in Nat,
         SignUp(c, count), UNCHANGED <<conf, claims>>, user_count' \in [Callbacks -> Nat]
  PROVE  Typed' /\ (To(c, "in") \/ To(c, "failed"))
<1>1. claims[c] \in Claims
  BY DEF Typed
<1>2. CASE UNCHANGED <<db, user, latest>> /\ To(c, "failed")
  BY <1>2 DEF Typed, To, Pcs, db
<1>3. ASSUME NEW role \in Roles, users' \in Seq(Account(Makers)), Finish(c, Len(users) + 1, role)
      PROVE  Typed' /\ (To(c, "in") \/ To(c, "failed"))
  <2>1. Len(users) + 1 \in Nat
    BY DEF Typed
  <2>2. user' \in [Callbacks -> [id : Nat, role : Roles]] /\ (To(c, "in") \/ To(c, "failed"))
    BY <1>3, <2>1, FinishTyped
  <2> QED
    BY <1>3, <2>2 DEF Typed, To, Pcs
<1> QED
  BY <1>1, <1>2, <1>3, SignUpUsers

LEMMA TypedStep == ASSUME Typed, [Next]_vars PROVE Typed'
<1>1. CASE UNCHANGED vars
  BY <1>1 DEF vars, db, Typed
<1>2. ASSUME NEW c \in Callbacks, Receive(c) PROVE Typed'
  <2>1. PICK s \in {"received", "refused"} : To(c, s) /\ (s = "received" => claims'[c] \in Claims)
    BY <1>2 DEF Receive, Typed
  <2>2. /\ claims' \in [Callbacks -> Claims \cup {NoClaims}]
        /\ \A d \in Callbacks \ {c} : claims'[d] = claims[d]
    BY <1>2 DEF Receive, Typed
  <2> QED
    BY <1>2, <2>1, <2>2 DEF Receive, db, Typed, To, Pcs
<1>3. ASSUME NEW c \in Callbacks, LogIn(c) PROVE Typed'
  <2>1. PICK u \in DOMAIN users :
          users' \in Seq(Account(Makers)) /\ Finish(c, u, users[u].role)
    BY <1>3, LogInUsers
  <2>2. users[u] \in Account(Makers) /\ u \in Nat
    BY DEF Typed
  <2>3. users[u].role \in Roles
    BY <2>2 DEF Account
  <2>4. user' \in [Callbacks -> [id : Nat, role : Roles]] /\ (To(c, "in") \/ To(c, "failed"))
    BY <2>1, <2>2, <2>3, FinishTyped
  <2> QED
    BY <1>3, <2>1, <2>4 DEF LogIn, Typed, To, Pcs
<1>4. ASSUME NEW c \in Callbacks, TurnAway(c) \/ BeginSignUp(c) PROVE Typed'
  <2>1. Len(users) \in Nat
    BY DEF Typed
  <2>2. user_count' \in [Callbacks -> Nat] /\ UNCHANGED <<conf, claims>> /\ pc[c] = "received"
    BY <1>4, <2>1 DEF TurnAway, BeginSignUp, Typed
  <2>3. CASE SignUp(c, Len(users))
    BY <2>1, <2>2, <2>3, SignUpTyped
  <2>4. CASE UNCHANGED <<db, user>> /\ (To(c, "download") \/ To(c, "refused"))
    BY <2>2, <2>4 DEF Typed, To, Pcs, db
  <2> QED
    BY <1>4, <2>3, <2>4 DEF TurnAway, BeginSignUp
<1>5. ASSUME NEW c \in Callbacks, Downloaded(c) PROVE Typed'
  <2>1. user_count[c] \in Nat /\ user_count' \in [Callbacks -> Nat]
    BY <1>5 DEF Downloaded, Typed
  <2> QED
    BY <1>5, <2>1, SignUpTyped DEF Downloaded
<1> QED
  BY <1>1, <1>2, <1>3, <1>4, <1>5 DEF Next, Done, handle_callback

-----------------------------------------------------------------------------
(* E-mails.                                                                *)

LEMMA EmailInit == ASSUME LowerAtFirst, ApartAtFirst, Init PROVE EmailInv
<1>1. users \in Existing /\ users \in Seq(Account({Nobody}))
  BY ExistingAssumption DEF Init
<1>2. \A v \in DOMAIN users : users[v] \in Account({Nobody})
  BY <1>1
<1>3. Kept
  <2>1. \A v \in DOMAIN users : users[v].by = Nobody
    BY <1>2 DEF Account
  <2> QED
    BY <1>1, <2>1, NobodyAssumption DEF Kept, LowerAtFirst
<1>4. Free /\ Apart
  BY <1>1 DEF Free, Apart, ApartAtFirst, Init
<1> QED
  BY <1>3, <1>4, TypedInit DEF EmailInv

\* A callback that makes no account.
LEMMA OthersKeep ==
  ASSUME EmailInv, NEW c \in Callbacks, NEW s \in {"received", "refused", "in", "failed"},
         To(c, s), Typed', pc[c] \in {"waiting", "received", "download"},
         pc[c] # "waiting" => UNCHANGED claims, pc[c] # "received" => UNCHANGED user_count,
         \A d \in Callbacks \ {c} :
           claims'[d] = claims[d] /\ user_count'[d] = user_count[d],
         DOMAIN users' = DOMAIN users,
         \A v \in DOMAIN users : users'[v].email = users[v].email /\ users'[v].by = users[v].by
  PROVE  EmailInv'
<1>1. pc'[c] = s /\ \A d \in Callbacks \ {c} : pc'[d] = pc[d]
  BY DEF EmailInv, Typed, To
<1>2. \A v \in DOMAIN users : users[v].by \in Callbacks => users[v].by # c
  BY DEF EmailInv, Kept
<1>3. Kept'
  BY <1>1, <1>2 DEF EmailInv, Kept
<1>4. Free'
  BY <1>1 DEF EmailInv, Free, lower
<1>5. Apart'
  BY <1>2 DEF EmailInv, Apart
<1> QED
  BY <1>3, <1>4, <1>5 DEF EmailInv

\* A new account: its e-mail is that of no account the callback had counted, and of none
\* at all unless it has awaited a picture.
LEMMA NewAccountKeeps ==
  ASSUME EmailInv, NEW c \in Callbacks, pc[c] \in {"received", "download"}, UNCHANGED claims,
         To(c, "in") \/ To(c, "failed"), Typed',
         pc[c] = "download" => UNCHANGED user_count,
         \A d \in Callbacks \ {c} : user_count'[d] = user_count[d],
         \A v \in DOMAIN users : users[v].email = lower(claims[c].email) =>
           claims[c].picture /\ user_count'[c] < v,
         Len(users') = Len(users) + 1,
         DOMAIN users' = DOMAIN users \cup {Len(users) + 1},
         \A v \in DOMAIN users : users'[v] = users[v],
         users'[Len(users) + 1].email = lower(claims[c].email),
         users'[Len(users) + 1].by = c
  PROVE  EmailInv'
<1>1. pc'[c] \in {"in", "failed"} /\ \A d \in Callbacks \ {c} : pc'[d] = pc[d]
  BY DEF EmailInv, Typed, To
<1>2. \A v \in DOMAIN users : users[v].by \in Callbacks => users[v].by # c
  BY DEF EmailInv, Kept
<1>3. DOMAIN users = 1 .. Len(users) /\ Len(users) \in Nat
  BY DEF EmailInv, Typed
<1>4. claims[c].email \in Emails
  BY ClaimsAssumption DEF EmailInv, Typed
<1>5. Kept'
  <2>1. Lower[lower(claims[c].email)] = lower(claims[c].email)
    BY <1>4, LowerAssumption DEF lower
  <2> QED
    BY <1>1, <1>2, <2>1 DEF EmailInv, Kept
<1>6. Free'
  BY <1>1, <1>3 DEF EmailInv, Typed, Free, lower
<1>7. Apart'
  <2>1. SUFFICES ASSUME NEW v \in DOMAIN users', NEW w \in DOMAIN users', v < w,
                        users'[v].email = users'[w].email
                 PROVE  /\ users'[w].by \in Callbacks
                        /\ claims'[users'[w].by].picture
                        /\ user_count'[users'[w].by] < v
    BY DEF Apart
  <2>2. v \in DOMAIN users
    BY <1>3, <2>1
  <2>3. CASE w = Len(users) + 1
    BY <2>1, <2>2, <2>3
  <2>4. CASE w \in DOMAIN users
    BY <1>2, <2>1, <2>2, <2>4 DEF EmailInv, Apart
  <2> QED
    BY <2>3, <2>4
<1> QED
  BY <1>5, <1>6, <1>7 DEF EmailInv

LEMMA ReceiveKeeps ==
  ASSUME EmailInv, Typed', NEW c \in Callbacks, Receive(c) \/ TurnAway(c)
  PROVE  EmailInv'
<1>1. CASE Receive(c)
  <2>1. \A d \in Callbacks \ {c} : claims'[d] = claims[d]
    BY <1>1 DEF Receive, EmailInv, Typed
  <2> QED
    BY <1>1, <2>1, OthersKeep DEF Receive, db
<1>2. CASE TurnAway(c)
  <2>1. \A d \in Callbacks \ {c} : user_count'[d] = user_count[d]
    BY <1>2 DEF TurnAway, EmailInv, Typed
  <2> QED
    BY <1>2, <2>1, OthersKeep DEF TurnAway, db
<1> QED
  BY <1>1, <1>2

LEMMA LogInKeeps ==
  ASSUME EmailInv, Typed', NEW c \in Callbacks, LogIn(c)
  PROVE  EmailInv'
<1>1. PICK u \in DOMAIN users :
        /\ DOMAIN users' = DOMAIN users
        /\ \A v \in DOMAIN users : users'[v].email = users[v].email /\ users'[v].by = users[v].by
        /\ Finish(c, u, users[u].role)
  BY LogInUsers DEF EmailInv
<1>2. To(c, "in") \/ To(c, "failed")
  BY <1>1 DEF Finish
<1> QED
  BY <1>1, <1>2, OthersKeep DEF LogIn

\* The signup at once, when counted is the number of accounts there are, and the one after
\* a picture.
LEMMA SignUpKeeps ==
  ASSUME EmailInv, Typed', NEW c \in Callbacks, pc[c] \in {"received", "download"},
         NEW count \in Nat, SignUp(c, count), UNCHANGED <<conf, claims>>,
         pc[c] = "download" => UNCHANGED user_count,
         \A d \in Callbacks \ {c} : user_count'[d] = user_count[d],
         \A v \in DOMAIN users : users[v].email = lower(claims[c].email) =>
           claims[c].picture /\ user_count'[c] < v
  PROVE  EmailInv'
<1>1. claims[c] \in Claims
  BY DEF EmailInv, Typed
<1>2. CASE UNCHANGED <<db, user, latest>> /\ To(c, "failed")
  BY <1>2, OthersKeep DEF db
<1>3. ASSUME NEW role \in Roles,
             Len(users') = Len(users) + 1,
             DOMAIN users' = DOMAIN users \cup {Len(users) + 1},
             \A v \in DOMAIN users : users'[v] = users[v],
             users'[Len(users) + 1] =
               [email |-> lower(claims[c].email), sub |-> claims[c].sub, role |-> role, by |-> c],
             Finish(c, Len(users) + 1, role)
      PROVE  EmailInv'
  <2>1. To(c, "in") \/ To(c, "failed")
    BY <1>3 DEF Finish
  <2>2. users'[Len(users) + 1].email = lower(claims[c].email) /\ users'[Len(users) + 1].by = c
    BY <1>3
  <2> QED
    BY <1>3, <2>1, <2>2, NewAccountKeeps
<1> QED
  BY <1>1, <1>2, <1>3, SignUpUsers DEF EmailInv

LEMMA BeginSignUpKeeps ==
  ASSUME EmailInv, Typed', NEW c \in Callbacks, BeginSignUp(c)
  PROVE  EmailInv'
<1>1. /\ pc[c] = "received" /\ byEmail(c) = {} /\ UNCHANGED <<conf, claims>>
      /\ user_count' = [user_count EXCEPT ![c] = Len(users)]
  BY DEF BeginSignUp
<1>2. Len(users) \in Nat /\ DOMAIN users = 1 .. Len(users)
  BY DEF EmailInv, Typed
<1>3. /\ user_count'[c] = Len(users)
      /\ \A d \in Callbacks \ {c} : user_count'[d] = user_count[d]
  BY <1>1, <1>2 DEF EmailInv, Typed
<1>4. \A v \in DOMAIN users : users[v].email # lower(claims[c].email)
  BY <1>1 DEF byEmail
<1>5. CASE SignUp(c, Len(users))
  BY <1>1, <1>2, <1>3, <1>4, <1>5, SignUpKeeps
<1>6. CASE claims[c].picture /\ To(c, "download") /\ UNCHANGED <<db, user, latest>>
  <2>1. UNCHANGED <<users, user>> /\ pc'[c] = "download" /\ \A d \in Callbacks \ {c} : pc'[d] = pc[d]
    BY <1>6 DEF EmailInv, Typed, To, db
  <2>2. \A v \in DOMAIN users : users[v].by \in Callbacks => users[v].by # c
    BY <1>1 DEF EmailInv, Kept
  <2>3. Kept'
    BY <2>1, <2>2 DEF EmailInv, Kept
  <2>4. Free'
    BY <1>1, <1>2, <1>3, <1>4, <1>6, <2>1 DEF EmailInv, Free, lower
  <2>5. Apart'
    BY <1>1, <1>3, <2>1, <2>2 DEF EmailInv, Apart
  <2> QED
    BY <2>3, <2>4, <2>5 DEF EmailInv
<1> QED
  BY <1>5, <1>6 DEF BeginSignUp

LEMMA DownloadedKeeps ==
  ASSUME EmailInv, Typed', NEW c \in Callbacks, Downloaded(c)
  PROVE  EmailInv'
<1>1. /\ pc[c] = "download" /\ SignUp(c, user_count[c]) /\ UNCHANGED <<conf, claims, user_count>>
  BY DEF Downloaded
<1>2. user_count \in [Callbacks -> Nat] /\ DOMAIN users = 1 .. Len(users) /\ Len(users) \in Nat
  BY DEF EmailInv, Typed
<1>3. claims[c].picture
      /\ \A v \in DOMAIN users : users[v].email = lower(claims[c].email) => user_count[c] < v
  BY <1>1, <1>2 DEF EmailInv, Free
<1> QED
  BY <1>1, <1>2, <1>3, SignUpKeeps

LEMMA EmailStep == ASSUME EmailInv, [Next]_vars PROVE EmailInv'
<1>1. Typed'
  BY TypedStep DEF EmailInv
<1>2. CASE UNCHANGED vars
  BY <1>2 DEF vars, db, EmailInv, Typed, Kept, Free, Apart, lower
<1>3. ASSUME NEW c \in Callbacks, handle_callback(c) PROVE EmailInv'
  BY <1>1, <1>3, ReceiveKeeps, LogInKeeps, BeginSignUpKeeps, DownloadedKeeps DEF handle_callback
<1> QED
  BY <1>2, <1>3 DEF Next, Done

\* If the accounts there were have e-mails of their own, in lower case, then with any number
\* of callbacks an e-mail is shared only through an awaited picture (handle_callback).
THEOREM EmailsStayApart ==
  ASSUME LowerAtFirst, ApartAtFirst
  PROVE  Spec => []SharedEmailOnlyByAwait
<1>1. Init => EmailInv
  BY EmailInit
<1>2. EmailInv /\ [Next]_vars => EmailInv'
  BY EmailStep
<1>3. EmailInv => SharedEmailOnlyByAwait
  BY DEF EmailInv, Kept, Apart, SharedEmailOnlyByAwait
<1> QED
  BY <1>1, <1>2, <1>3, PTL DEF Spec

-----------------------------------------------------------------------------
(* The admin.                                                              *)

\* What a step may do to the accounts, as far as roles go: nothing, or give the role
\* determined to one account, which the callback then has at hand.
LEMMA RoleSteps ==
  ASSUME Typed, [Next]_vars
  PROVE  \/ UNCHANGED users
         \/ \E c \in Callbacks, u \in DOMAIN users :
              /\ DOMAIN users' = DOMAIN users /\ Len(users') = Len(users)
              /\ \A v \in DOMAIN users \ {u} : users'[v].role = users[v].role
              /\ users'[u].role = get_user_role(u, c)
              /\ user'[c].id = u
         \/ \E c \in Callbacks :
              /\ Len(users') = Len(users) + 1
              /\ DOMAIN users' = DOMAIN users \cup {Len(users) + 1}
              /\ \A v \in DOMAIN users : users'[v] = users[v]
              /\ users'[Len(users) + 1].role = get_user_role(NoUser, c)
              /\ user'[c].id = Len(users) + 1
<1> DEFINE Added(c) ==
      /\ Len(users') = Len(users) + 1
      /\ DOMAIN users' = DOMAIN users \cup {Len(users) + 1}
      /\ \A v \in DOMAIN users : users'[v] = users[v]
      /\ users'[Len(users) + 1].role = get_user_role(NoUser, c)
      /\ user'[c].id = Len(users) + 1
<1>1. ASSUME NEW c \in Callbacks, NEW count \in Nat, SignUp(c, count),
             pc[c] \in {"received", "download"}
      PROVE  UNCHANGED users \/ Added(c)
  <2>1. claims[c] \in Claims
    BY <1>1 DEF Typed
  <2>2. ASSUME NEW role \in Roles, role = get_user_role(NoUser, c),
               Len(users') = Len(users) + 1,
               DOMAIN users' = DOMAIN users \cup {Len(users) + 1},
               \A v \in DOMAIN users : users'[v] = users[v],
               users'[Len(users) + 1] =
                 [email |-> lower(claims[c].email), sub |-> claims[c].sub, role |-> role, by |-> c],
               Finish(c, Len(users) + 1, role)
        PROVE  Added(c)
    <3>1. user'[c].id = Len(users) + 1
      BY <2>2 DEF Finish, Typed
    <3>2. users'[Len(users) + 1].role = get_user_role(NoUser, c)
      BY <2>2
    <3> QED
      BY <2>2, <3>1, <3>2
  <2> HIDE DEF Added
  <2> QED
    BY <1>1, <2>1, <2>2, SignUpUsers DEF db
<1>2. ASSUME NEW c \in Callbacks, LogIn(c)
      PROVE  \E u \in DOMAIN users :
               /\ DOMAIN users' = DOMAIN users /\ Len(users') = Len(users)
               /\ \A v \in DOMAIN users \ {u} : users'[v].role = users[v].role
               /\ users'[u].role = get_user_role(u, c)
               /\ user'[c].id = u
  <2>1. ASSUME NEW u \in DOMAIN users, Finish(c, u, users[u].role)
        PROVE  user'[c].id = u
    BY <2>1 DEF Finish, Typed
  <2> QED
    BY <1>2, <2>1, LogInUsers
<1>3. ASSUME NEW c \in Callbacks, BeginSignUp(c) \/ Downloaded(c)
      PROVE  UNCHANGED users \/ Added(c)
  <2>1. Len(users) \in Nat /\ user_count[c] \in Nat
    BY DEF Typed
  <2> HIDE DEF Added
  <2>2. CASE SignUp(c, Len(users)) /\ pc[c] = "received"
    BY <1>1, <2>1, <2>2
  <2>3. CASE SignUp(c, user_count[c]) /\ pc[c] = "download"
    BY <1>1, <2>1, <2>3
  <2> QED
    BY <1>3, <2>2, <2>3 DEF BeginSignUp, Downloaded, db
<1>4. ASSUME NEW c \in Callbacks, Receive(c) \/ TurnAway(c) PROVE UNCHANGED users
  BY <1>4 DEF Receive, TurnAway, db
<1> QED
  BY <1>2, <1>3, <1>4 DEF Next, Done, handle_callback, vars, db

\* However many callbacks have found no account, one that becomes admin is the only
\* account or has the role claimed, unless every new user is one (get_user_role).
THEOREM AdminIsAloneOrClaimed ==
  ASSUME DefaultRole # "admin"
  PROVE  Spec => AdminOnlyAloneOrClaimed
<1>1. ASSUME Typed, [Next]_vars, NEW u \in DOMAIN users', users'[u].role = "admin",
             u \in DOMAIN users => users[u].role # "admin"
      PROVE  \/ Len(users') = 1
             \/ \E c \in Callbacks :
                  user'[c].id = u /\ conf.manageRoles /\ "admin" \in claims[c].roles
  <2>1. \A c \in Callbacks : ClaimedRole(c) = "admin" => "admin" \in claims[c].roles
    BY DEF ClaimedRole
  <2>2. DOMAIN users = 1 .. Len(users) /\ Len(users) \in Nat
    BY <1>1 DEF Typed
  <2>3. CASE UNCHANGED users
    BY <1>1, <2>3
  <2>4. ASSUME NEW c \in Callbacks, NEW v \in DOMAIN users,
               DOMAIN users' = DOMAIN users, Len(users') = Len(users),
               \A w \in DOMAIN users \ {v} : users'[w].role = users[w].role,
               users'[v].role = get_user_role(v, c), user'[c].id = v
        PROVE  Len(users') = 1 \/ (user'[c].id = u /\ conf.manageRoles /\ "admin" \in claims[c].roles)
    <3>1. u = v /\ u # NoUser
      BY <1>1, <2>2, <2>4 DEF NoUser
    <3>2. CASE Alone(v)
      BY <2>4, <3>1, <3>2 DEF Alone
    <3>3. CASE ~ Alone(v)
      BY <1>1, <2>1, <2>4, <3>1, <3>3 DEF get_user_role
    <3> QED
      BY <3>2, <3>3
  <2>5. ASSUME NEW c \in Callbacks, Len(users') = Len(users) + 1,
               DOMAIN users' = DOMAIN users \cup {Len(users) + 1},
               \A v \in DOMAIN users : users'[v] = users[v],
               users'[Len(users) + 1].role = get_user_role(NoUser, c),
               user'[c].id = Len(users) + 1
        PROVE  Len(users') = 1 \/ (user'[c].id = u /\ conf.manageRoles /\ "admin" \in claims[c].roles)
    <3>1. u = Len(users) + 1
      BY <1>1, <2>5
    <3>2. CASE Alone(NoUser)
      BY <2>2, <2>5, <3>2 DEF Alone
    <3>3. CASE ~ Alone(NoUser)
      BY <1>1, <2>1, <2>5, <3>1, <3>3 DEF get_user_role
    <3> QED
      BY <3>2, <3>3
  <2> QED
    BY <1>1, <2>3, <2>4, <2>5, RoleSteps
<1>2. Typed /\ [Next]_vars =>
        [\A u \in DOMAIN users' :
           users'[u].role = "admin" /\ (u \in DOMAIN users => users[u].role # "admin") =>
             \/ Len(users') = 1
             \/ \E c \in Callbacks :
                  user'[c].id = u /\ conf.manageRoles /\ "admin" \in claims[c].roles]_vars
  BY <1>1
<1> QED
  BY <1>2, TypedInit, TypedStep, PTL DEF Spec, AdminOnlyAloneOrClaimed

\* Where roles do not follow claims there is an admin as soon as there is an account.
THEOREM AdminIsThere ==
  ASSUME AdminAtFirst
  PROVE  Spec => []NeverWithoutAdmin
<1>1. Init => NeverWithoutAdmin
  BY DEF Init, NeverWithoutAdmin, AdminAtFirst
<1>2. ASSUME Typed, NeverWithoutAdmin, [Next]_vars PROVE NeverWithoutAdmin'
  <2>1. UNCHANGED conf
    BY <1>2 DEF Next, Done, vars, handle_callback, Receive, LogIn, TurnAway, BeginSignUp, Downloaded
  <2>2. DOMAIN users = 1 .. Len(users) /\ Len(users) \in Nat /\ (Len(users) = 0 <=> users = <<>>)
    BY <1>2 DEF Typed
  <2>3. SUFFICES ASSUME ~ conf.manageRoles, users' # <<>>
                 PROVE  \E u \in DOMAIN users' : users'[u].role = "admin"
    BY <2>1 DEF NeverWithoutAdmin
  <2>4. CASE UNCHANGED users
    BY <1>2, <2>3, <2>4 DEF NeverWithoutAdmin
  <2>5. ASSUME NEW c \in Callbacks, NEW v \in DOMAIN users, DOMAIN users' = DOMAIN users,
               \A w \in DOMAIN users \ {v} : users'[w].role = users[w].role,
               users'[v].role = get_user_role(v, c)
        PROVE  \E u \in DOMAIN users' : users'[u].role = "admin"
    <3>1. users'[v].role \in {"admin", users[v].role}
      BY <2>2, <2>3, <2>5 DEF get_user_role, NoUser
    <3>2. PICK w \in DOMAIN users : users[w].role = "admin"
      BY <1>2, <2>2, <2>3, <2>5 DEF NeverWithoutAdmin
    <3> QED
      BY <2>5, <3>1, <3>2
  <2>6. ASSUME NEW c \in Callbacks, DOMAIN users' = DOMAIN users \cup {Len(users) + 1},
               \A v \in DOMAIN users : users'[v] = users[v],
               users'[Len(users) + 1].role = get_user_role(NoUser, c)
        PROVE  \E u \in DOMAIN users' : users'[u].role = "admin"
    <3>1. CASE users = <<>>
      BY <2>2, <2>6, <3>1 DEF get_user_role, Alone
    <3>2. CASE users # <<>>
      BY <1>2, <2>3, <2>6, <3>2 DEF NeverWithoutAdmin
    <3> QED
      BY <3>1, <3>2
  <2> QED
    BY <1>2, <2>4, <2>5, <2>6, RoleSteps
<1> QED
  BY <1>1, <1>2, TypedInit, TypedStep, PTL DEF Spec

-----------------------------------------------------------------------------
(* Groups.                                                                 *)

\* The callbacks with which accounts were last logged in are over.
LatestOver == latest \subseteq Callbacks /\ \A c \in latest : pc[c] \in {"in", "failed"}

GroupInv == Typed /\ members \in [Groups -> SUBSET Nat] /\ LatestOver /\ GroupsFollowClaims

\* The end of a callback sets the groups of its account and of no other, and takes the
\* place of the callback with which that account had been logged in.
LEMMA FinishGroups ==
  ASSUME GroupInv, NEW c \in Callbacks, NEW u \in Nat, NEW role \in Roles, Finish(c, u, role),
         pc[c] \in {"received", "download"}, UNCHANGED <<conf, claims>>
  PROVE  members' \in [Groups -> SUBSET Nat] /\ LatestOver' /\ GroupsFollowClaims'
<1> USE DEF GroupInv
<1>1. PICK s \in {"in", "failed"} : To(c, s)
  BY DEF Finish
<1>2. /\ pc'[c] = s /\ \A d \in Callbacks \ {c} : pc'[d] = pc[d]
  BY <1>1 DEF To, Typed
<1>3. /\ user'[c] = [id |-> u, role |-> role]
      /\ \A d \in Callbacks \ {c} : user'[d] = user[d]
  BY DEF Finish, Typed
<1>4. /\ latest' \subseteq Callbacks /\ c \notin latest
      /\ \A d \in latest' \ {c} : d \in latest /\ user[d].id # u
  BY DEF Finish, LatestOver
<1>5. LatestOver'
  BY <1>2, <1>4 DEF LatestOver
<1>6. members' \in [Groups -> SUBSET Nat]
  <2>1. \A v \in Nat : Joined(v, c) \in [Groups -> SUBSET Nat]
    BY DEF Joined
  <2> QED
    BY <2>1 DEF Finish
<1>7. \A g \in Groups, v \in Nat \ {u} : v \in members'[g] <=> v \in members[g]
  <2>1. \A g \in Groups, v \in Nat \ {u} : v \in Joined(u, c)[g] <=> v \in members[g]
    BY DEF Joined
  <2> QED
    BY <2>1 DEF Finish
<1>8. ASSUME conf.manageGroups, role # "admin", pc'[c] = "in", NEW g \in Groups
      PROVE  u \in members'[g] <=> g \in claims[c].groups
  <2>1. members' = Joined(u, c)
    BY <1>2, <1>8, "in" # "failed" DEF Finish, To, Typed
  <2> QED
    BY <2>1 DEF Joined
<1>9. ASSUME conf'.manageGroups, conf'.groupsClaim, NEW d \in latest', NEW g \in Groups,
             pc'[d] = "in", user'[d].role # "admin"
      PROVE  user'[d].id \in members'[g] <=> g \in claims'[d].groups
  <2>1. CASE d = c
    BY <1>3, <1>8, <1>9, <2>1
  <2>2. CASE d # c
    <3>1. d \in latest /\ d \in Callbacks /\ user[d].id # u /\ user[d].id \in Nat
      BY <1>4, <2>2 DEF Typed
    <3>2. user'[d] = user[d] /\ pc[d] = "in" /\ claims'[d] = claims[d] /\ conf' = conf
      BY <1>2, <1>3, <1>9, <2>2, <3>1
    <3>3. user[d].id \in members[g] <=> g \in claims[d].groups
      BY <1>9, <3>1, <3>2 DEF GroupsFollowClaims
    <3> QED
      BY <1>7, <3>1, <3>2, <3>3
  <2> QED
    BY <2>1, <2>2
<1> QED
  BY <1>5, <1>6, <1>9 DEF GroupsFollowClaims

\* A step of a callback that is not over and does not end it with an account.
LEMMA OtherGroups ==
  ASSUME GroupInv, NEW c \in Callbacks, pc[c] \notin {"in", "failed"}, NEW s, To(c, s),
         UNCHANGED <<conf, members, user, latest>>,
         \A d \in Callbacks \ {c} : claims'[d] = claims[d]
  PROVE  members' \in [Groups -> SUBSET Nat] /\ LatestOver' /\ GroupsFollowClaims'
<1>1. c \notin latest /\ \A d \in latest : d \in Callbacks /\ pc'[d] = pc[d] /\ claims'[d] = claims[d]
  BY DEF GroupInv, LatestOver, To, Typed
<1> QED
  BY <1>1 DEF GroupInv, LatestOver, GroupsFollowClaims

LEMMA GroupStep == ASSUME GroupInv, [Next]_vars PROVE GroupInv'
<1>1. Typed'
  BY TypedStep DEF GroupInv
<1> DEFINE Goal == members' \in [Groups -> SUBSET Nat] /\ LatestOver' /\ GroupsFollowClaims'
<1>2. ASSUME UNCHANGED vars PROVE Goal
  BY <1>2 DEF vars, db, GroupInv, LatestOver, GroupsFollowClaims
<1>3. ASSUME NEW c \in Callbacks, Receive(c) PROVE Goal
  <2>1. PICK s \in {"received", "refused"} : To(c, s)
    BY <1>3 DEF Receive
  <2>2. \A d \in Callbacks \ {c} : claims'[d] = claims[d]
    BY <1>3 DEF Receive, GroupInv, Typed
  <2> QED
    BY <1>3, <2>1, <2>2, OtherGroups DEF Receive, db
<1>4. ASSUME NEW c \in Callbacks, TurnAway(c) PROVE Goal
  BY <1>4, OtherGroups DEF TurnAway, db
<1>5. ASSUME NEW c \in Callbacks, LogIn(c) PROVE Goal
  <2>1. PICK u \in DOMAIN users : Finish(c, u, users[u].role)
    BY <1>5, LogInUsers DEF GroupInv
  <2>2. users[u] \in Account(Makers) /\ u \in Nat
    BY DEF GroupInv, Typed
  <2>3. users[u].role \in Roles
    BY <2>2 DEF Account
  <2> QED
    BY <1>5, <2>1, <2>2, <2>3, FinishGroups DEF LogIn
<1>6. ASSUME NEW c \in Callbacks, NEW count \in Nat, pc[c] \in {"received", "download"},
             SignUp(c, count), UNCHANGED <<conf, claims>>
      PROVE  Goal
  <2>1. claims[c] \in Claims /\ Len(users) + 1 \in Nat
    BY <1>6 DEF GroupInv, Typed
  <2>2. \/ UNCHANGED <<db, user, latest>> /\ To(c, "failed")
        \/ \E role \in Roles : Finish(c, Len(users) + 1, role)
    BY <1>6, <2>1, SignUpUsers DEF GroupInv
  <2>3. CASE UNCHANGED <<db, user, latest>> /\ To(c, "failed")
    BY <1>6, <2>3, OtherGroups DEF db
  <2>4. CASE \E role \in Roles : Finish(c, Len(users) + 1, role)
    BY <1>6, <2>1, <2>4, FinishGroups
  <2> QED
    BY <2>2, <2>3, <2>4
<1>7. ASSUME NEW c \in Callbacks, BeginSignUp(c) PROVE Goal
  <2>1. Len(users) \in Nat
    BY DEF GroupInv, Typed
  <2>2. CASE SignUp(c, Len(users))
    BY <1>6, <1>7, <2>1, <2>2 DEF BeginSignUp
  <2>3. CASE To(c, "download") /\ UNCHANGED <<db, user, latest>>
    BY <1>7, <2>3, OtherGroups DEF BeginSignUp, db
  <2> QED
    BY <1>7, <2>2, <2>3 DEF BeginSignUp
<1>8. ASSUME NEW c \in Callbacks, Downloaded(c) PROVE Goal
  <2>1. user_count[c] \in Nat
    BY DEF GroupInv, Typed
  <2> QED
    BY <1>6, <1>8, <2>1 DEF Downloaded
<1>9. Goal
  <2> HIDE DEF Goal
  <2>1. Done \/ UNCHANGED vars \/ \E c \in Callbacks : handle_callback(c)
    BY DEF Next
  <2>2. ASSUME NEW c \in Callbacks, handle_callback(c) PROVE Goal
    BY <1>3, <1>4, <1>5, <1>7, <1>8, <2>2 DEF handle_callback
  <2> QED
    BY <1>2, <2>1, <2>2 DEF Done
<1> QED
  BY <1>1, <1>9 DEF GroupInv

\* Whichever callbacks come before, after or between the awaits of another, an account that
\* was no admin at its last login is in the groups claimed then (update_user_groups).
THEOREM GroupsAreThoseClaimed == Spec => []GroupsFollowClaims
<1>1. Init => GroupInv
  BY TypedInit DEF Init, GroupInv, LatestOver, GroupsFollowClaims
<1>2. GroupInv => GroupsFollowClaims
  BY DEF GroupInv
<1> QED
  BY <1>1, <1>2, GroupStep, PTL DEF Spec

-----------------------------------------------------------------------------
(* Type correctness.                                                       *)

\* Accounts that are spoken of exist: accounts are counted, and none is ever removed.
Within ==
  /\ members \in [Groups -> SUBSET (DOMAIN users)]
  /\ \A c \in Callbacks :
       user[c].id \in {NoUser} \cup DOMAIN users /\ user_count[c] <= Len(users)

LEMMA FinishWithin ==
  ASSUME Typed, Typed', Within, NEW c \in Callbacks, NEW u \in DOMAIN users', NEW role,
         Finish(c, u, role), DOMAIN users \subseteq DOMAIN users', Len(users) <= Len(users'),
         \A d \in Callbacks : user_count'[d] \in {user_count[d], Len(users)}
  PROVE  Within'
<1>1. members' \in [Groups -> SUBSET (DOMAIN users')]
  <2>1. Joined(u, c) \in [Groups -> SUBSET (DOMAIN users')]
    BY DEF Joined, Within
  <2> QED
    BY <2>1 DEF Finish, Within
<1>2. \A d \in Callbacks : user'[d].id \in {u, user[d].id}
  BY DEF Finish, Typed
<1>3. Len(users) \in Nat /\ Len(users') \in Nat /\ \A d \in Callbacks : user_count[d] \in Nat
  BY DEF Typed
<1> QED
  BY <1>1, <1>2, <1>3 DEF Within

LEMMA OtherWithin ==
  ASSUME Typed, Within, UNCHANGED <<db, user>>,
         \A d \in Callbacks : user_count'[d] \in {user_count[d], Len(users)}
  PROVE  Within'
<1>1. Len(users) \in Nat
  BY DEF Typed
<1> QED
  BY <1>1 DEF Within, db

LEMMA WithinStep == ASSUME Typed, Within, [Next]_vars PROVE Within'
<1>1. Typed' /\ Len(users) \in Nat
  BY TypedStep DEF Typed
<1>2. ASSUME UNCHANGED vars PROVE Within'
  BY <1>2, OtherWithin DEF vars
<1>3. ASSUME NEW c \in Callbacks, Receive(c) \/ TurnAway(c) PROVE Within'
  BY <1>3, OtherWithin DEF Receive, TurnAway, db, Typed
<1>4. ASSUME NEW c \in Callbacks, LogIn(c) PROVE Within'
  <2>1. PICK u \in DOMAIN users :
          DOMAIN users' = DOMAIN users /\ Len(users') = Len(users) /\ Finish(c, u, users[u].role)
    BY <1>4, LogInUsers
  <2>2. UNCHANGED user_count
    BY <1>4 DEF LogIn
  <2> QED
    BY <1>1, <2>1, <2>2, FinishWithin
<1>5. ASSUME NEW c \in Callbacks, NEW count \in Nat, claims[c] \in Claims, SignUp(c, count),
             \A d \in Callbacks : user_count'[d] \in {user_count[d], Len(users)}
      PROVE  Within'
  <2>1. CASE UNCHANGED <<db, user, latest>>
    BY <1>5, <2>1, OtherWithin
  <2>2. ASSUME NEW role \in Roles, Len(users') = Len(users) + 1,
               DOMAIN users' = DOMAIN users \cup {Len(users) + 1},
               Finish(c, Len(users) + 1, role)
        PROVE  Within'
    BY <1>1, <1>5, <2>2, FinishWithin
  <2> QED
    BY <1>5, <2>1, <2>2, SignUpUsers
<1>6. ASSUME NEW c \in Callbacks, BeginSignUp(c) PROVE Within'
  <2>1. claims[c] \in Claims /\ \A d \in Callbacks : user_count'[d] \in {user_count[d], Len(users)}
    BY <1>6 DEF BeginSignUp, Typed
  <2> QED
    BY <1>1, <1>5, <1>6, <2>1, OtherWithin DEF BeginSignUp, db
<1>7. ASSUME NEW c \in Callbacks, Downloaded(c) PROVE Within'
  <2>1. claims[c] \in Claims /\ user_count[c] \in Nat /\ UNCHANGED user_count
    BY <1>7 DEF Downloaded, Typed
  <2> QED
    BY <1>5, <1>7, <2>1 DEF Downloaded
<1> QED
  BY <1>2, <1>3, <1>4, <1>6, <1>7 DEF Next, Done, handle_callback

\* Every variable keeps its type: a callback never holds, counts or puts into a group an
\* account that is not there (handle_callback).
THEOREM AccountsAreThere == Spec => []OAuthTypeOK
<1>1. Init => GroupInv /\ Within
  <2>1. Init => Typed /\ GroupInv
    BY TypedInit DEF Init, GroupInv, LatestOver, GroupsFollowClaims
  <2> QED
    BY <2>1 DEF Init, Within, Typed, NoUser
<1>2. GroupInv /\ Within => OAuthTypeOK
  <2>1. GroupInv /\ Within => user \in [Callbacks -> [id : {NoUser} \cup DOMAIN users, role : Roles]]
    BY DEF GroupInv, Typed, Within
  <2>2. GroupInv /\ Within => user_count \in [Callbacks -> 0 .. Len(users)]
    BY DEF GroupInv, Typed, Within
  <2> QED
    BY <2>1, <2>2 DEF GroupInv, Typed, Within, LatestOver, OAuthTypeOK, Makers, Pcs
<1>3. GroupInv /\ Within /\ [Next]_vars => Within'
  BY WithinStep DEF GroupInv
<1> QED
  BY <1>1, <1>2, <1>3, GroupStep, PTL DEF Spec
=============================================================================
