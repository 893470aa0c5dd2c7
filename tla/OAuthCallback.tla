---------------------------- MODULE OAuthCallback ----------------------------
(***************************************************************************)
(* OAuthManager.handle_callback of the OpenWebUI bridge                    *)
(* (deploy/v2board-openwebui-bridge/v2/code/oauth.py): the browser comes   *)
(* back from a provider, is matched with an account, or gets one, and the  *)
(* account's role and groups follow what the provider claims.  Callbacks   *)
(* share one event loop: what lies between two awaits is one step.         *)
(***************************************************************************)
EXTENDS Naturals, Sequences

CONSTANTS
  Callbacks,   \* requests to the callback URL
  Emails,      \* e-mail addresses, as providers spell them
  Lower,       \* each in lower case
  Subs,        \* "<provider>@<sub>"
  Groups,      \* groups of OpenWebUI, by name
  Claims,      \* what a provider may say of a user
  Configs,     \* settings the bridge may be started with
  Existing,    \* accounts there may be already
  DefaultRole, \* DEFAULT_USER_ROLE
  Nobody,      \* the creator of an account that was there
  NoClaims     \* user_data before the provider has answered

NoUser == 0
Roles == {"pending", "user", "admin"}
Account(creators) == [email : Emails, sub : Subs, role : Roles, by : creators]

ASSUME LowerAssumption == Lower \in [Emails -> Emails] /\ \A e \in Emails : Lower[Lower[e]] = Lower[e]
ASSUME RoleAssumption == DefaultRole \in Roles
ASSUME ClaimsAssumption ==
  Claims \subseteq [email : Emails, sub : Subs, roles : SUBSET {"user", "admin"},
                    groups : SUBSET Groups, picture : BOOLEAN]
ASSUME NobodyAssumption == Nobody \notin Callbacks
ASSUME NoClaimsAssumption == NoClaims \notin Claims
ASSUME ConfigsAssumption ==
  Configs \subseteq [signup : BOOLEAN, merge : BOOLEAN, manageRoles : BOOLEAN,
                     manageGroups : BOOLEAN, groupsClaim : BOOLEAN]
ASSUME ExistingAssumption == Existing \subseteq Seq(Account({Nobody}))

VARIABLES
  conf,       \* auth_manager_config
  users,      \* the accounts, in the order they were made
  members,    \* ids of the members of each group
  pc,         \* where each callback is
  claims,     \* user_data
  user,       \* the account it has read or made: its id, and the role it had then
  user_count, \* accounts there were when none was found
  latest      \* callbacks with which an account was last logged in

db == <<users, members>>
vars == <<conf, db, pc, claims, user, user_count, latest>>

Init ==
  /\ conf \in Configs
  /\ users \in Existing
  /\ members = [g \in Groups |-> {}]
  /\ pc = [c \in Callbacks |-> "waiting"]
  /\ claims = [c \in Callbacks |-> NoClaims]
  /\ user = [c \in Callbacks |-> [id |-> NoUser, role |-> DefaultRole]]
  /\ user_count = [c \in Callbacks |-> 0]
  /\ latest = {}

To(c, s) == pc' = [pc EXCEPT ![c] = s]

AsGiven(email) == email
lower(email) == Lower[email]

bySub(c) == {u \in DOMAIN users : users[u].sub = claims[c].sub}
byEmail(c) == {u \in DOMAIN users : users[u].email = lower(claims[c].email)}

\* get_user_by_oauth_sub and, when merging is enabled, get_user_by_email.
found(c) == IF bySub(c) = {} /\ conf.merge THEN byEmail(c) ELSE bySub(c)

-----------------------------------------------------------------------------
(* get_user_role and update_user_groups.                                   *)

AloneWhenKnown(u) == u # NoUser /\ Len(users) = 1
Alone(u) == Len(users) = IF u = NoUser THEN 0 ELSE 1

ClaimedRole(c) ==
  IF "admin" \in claims[c].roles THEN "admin"
  ELSE IF "user" \in claims[c].roles THEN "user" ELSE DefaultRole

get_user_role(u, c) ==
  IF Alone(u) THEN "admin"
  ELSE IF conf.manageRoles THEN ClaimedRole(c)
  ELSE IF u = NoUser THEN DefaultRole ELSE users[u].role

JoinOnly(u, c) == [g \in Groups |-> IF g \in claims[c].groups THEN members[g] \cup {u} ELSE members[g]]
Joined(u, c) == [g \in Groups |-> IF g \in claims[c].groups THEN members[g] \cup {u} ELSE members[g] \ {u}]

\* The end of the callback, for account u that had the role read: admins keep their
\* groups, and without a claim to read them from update_user_groups raises.
Finish(c, u, read) ==
  /\ user' = [user EXCEPT ![c] = [id |-> u, role |-> read]]
  /\ latest' = {d \in latest : user[d].id # u} \cup {c}
  /\ IF conf.manageGroups /\ read # "admin"
       THEN \/ conf.groupsClaim /\ members' = Joined(u, c) /\ To(c, "in")
            \/ ~ conf.groupsClaim /\ UNCHANGED members /\ To(c, "failed")
       ELSE UNCHANGED members /\ To(c, "in")

-----------------------------------------------------------------------------
(* handle_callback.                                                        *)

\* The token, and with it or after it the claims; or no token, user data, sub or e-mail,
\* or a domain that is not allowed.
Receive(c) ==
  /\ pc[c] = "waiting"
  /\ \/ \E data \in Claims : claims' = [claims EXCEPT ![c] = data] /\ To(c, "received")
     \/ UNCHANGED claims /\ To(c, "refused")
  /\ UNCHANGED <<conf, db, user, user_count, latest>>

\* The account is known: its role is brought up to date, not the copy at hand.
LogIn(c) ==
  /\ pc[c] = "received"
  /\ \E u \in found(c) :
       /\ users' = [users EXCEPT ![u].sub = claims[c].sub, ![u].role = get_user_role(u, c)]
       /\ Finish(c, u, users[u].role)
  /\ UNCHANGED <<conf, claims, user_count>>

\* Signups are disabled, or the e-mail is taken.
TurnAway(c) ==
  /\ pc[c] = "received"
  /\ found(c) = {}
  /\ ~ conf.signup \/ byEmail(c) # {}
  /\ To(c, "refused")
  /\ user_count' = [user_count EXCEPT ![c] = Len(users)]
  /\ UNCHANGED <<conf, db, claims, user, latest>>

\* Reading the role where the accounts are counted would make every early callback's admin.
RoleWhenCounted(c, count) == IF count = 0 THEN "admin" ELSE get_user_role(NoUser, c)
NewRole(c, count) == get_user_role(NoUser, c)

\* Going on after a failed insert would log in an account that does not exist.
SignUpUnchecked(c, count) ==
  LET role == NewRole(c, count)
  IN /\ \/ users' = Append(users, [email |-> lower(claims[c].email), sub |-> claims[c].sub,
                                   role |-> role, by |-> c])
        \/ UNCHANGED users
     /\ Finish(c, Len(users) + 1, role)

\* The rest of the signup, from the role on; insert_new_auth may fail.
SignUp(c, count) ==
  LET role == NewRole(c, count)
  IN \/ /\ users' = Append(users, [email |-> lower(claims[c].email), sub |-> claims[c].sub,
                                   role |-> role, by |-> c])
        /\ Finish(c, Len(users) + 1, role)
     \/ To(c, "failed") /\ UNCHANGED <<db, user, latest>>

\* A new account, at once, or when the picture has been awaited.
BeginSignUp(c) ==
  /\ pc[c] = "received"
  /\ found(c) = {} /\ byEmail(c) = {} /\ conf.signup
  /\ user_count' = [user_count EXCEPT ![c] = Len(users)]
  /\ IF claims[c].picture
       THEN To(c, "download") /\ UNCHANGED <<db, user, latest>>
       ELSE SignUp(c, Len(users))
  /\ UNCHANGED <<conf, claims>>

\* The picture has come, or has not.
Downloaded(c) ==
  /\ pc[c] = "download"
  /\ SignUp(c, user_count[c])
  /\ UNCHANGED <<conf, claims, user_count>>

-----------------------------------------------------------------------------
Over == \A c \in Callbacks : pc[c] \in {"in", "refused", "failed"}
Done == Over /\ UNCHANGED vars

handle_callback(c) == Receive(c) \/ LogIn(c) \/ TurnAway(c) \/ BeginSignUp(c) \/ Downloaded(c)
Next == Done \/ \E c \in Callbacks : handle_callback(c)

Spec == Init /\ [][Next]_vars

-----------------------------------------------------------------------------
OAuthTypeOK ==
  /\ conf \in Configs
  /\ users \in Seq(Account(Callbacks \cup {Nobody}))
  /\ members \in [Groups -> SUBSET (DOMAIN users)]
  /\ pc \in [Callbacks -> {"waiting", "received", "download", "in", "refused", "failed"}]
  /\ claims \in [Callbacks -> Claims \cup {NoClaims}]
  /\ user \in [Callbacks -> [id : {NoUser} \cup DOMAIN users, role : Roles]]
  /\ user_count \in [Callbacks -> 0 .. Len(users)]
  /\ latest \subseteq Callbacks

\* A second account with the e-mail of another, however it is spelled, comes from a
\* callback that had found the e-mail free before the other account was made, and awaited
\* a picture meanwhile: that is the only way around the check for an existing user.
SharedEmailOnlyByAwait ==
  \A v, w \in DOMAIN users :
    v < w /\ Lower[users[v].email] = Lower[users[w].email] =>
      claims[users[w].by].picture /\ user_count[users[w].by] < v

\* An account becomes admin because it is the only one or the provider claims it, though
\* several signups may each have found no account (get_user_role after the download).
AdminOnlyAloneOrClaimed ==
  [][\A u \in DOMAIN users' :
       users'[u].role = "admin" /\ (u \in DOMAIN users => users[u].role # "admin") =>
         \/ Len(users') = 1
         \/ \E c \in Callbacks :
              user'[c].id = u /\ conf.manageRoles /\ "admin" \in claims[c].roles]_vars

\* Unless roles follow claims, an OpenWebUI that has an account has an admin.
NeverWithoutAdmin ==
  users # <<>> /\ ~ conf.manageRoles => \E u \in DOMAIN users : users[u].role = "admin"

\* After the last login of an account that was no admin then, it is a member of exactly the
\* groups claimed, whatever callbacks of others came before or after (update_user_groups).
GroupsFollowClaims ==
  conf.manageGroups /\ conf.groupsClaim =>
    \A c \in latest, g \in Groups :
      pc[c] = "in" /\ user[c].role # "admin" =>
        (user[c].id \in members[g] <=> g \in claims[c].groups)
=============================================================================
