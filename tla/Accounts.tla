------------------------------ MODULE Accounts ------------------------------
(***************************************************************************)
(* Users, their passwords and their sessions: the rows of users, the       *)
(* session cookies of a few clients, and one request of each client at a   *)
(* time, cut where the code awaits the database.                           *)
(*                                                                         *)
(* A password is a model value; what the row keeps of it is a secret: its  *)
(* salted hash, a hash that the separator cuts short, or the password as   *)
(* it came. Operators named ...Fault are plausible mistakes in the         *)
(* operator they precede; no specification uses them.                      *)
(***************************************************************************)
EXTENDS Naturals, Sequences

CONSTANTS
    Clients,        \* browsers: a cookie each
    Names,          \* usernames; those that are in Emails hold an '@'
    Emails,
    Passwords,
    MaxUsers,       \* bound: rows of users
    MaxPatches      \* bound: requests to PATCH user/:id

VARIABLES
    users,          \* rows of users, the id is the index
    settings,       \* ids with a row of notification settings
    session,        \* session[c]: session.userID, 0 when there is none
    call,           \* call[c]: the request that is being served, or Idle
    raced,          \* history: did two registrations overlap?
    patched,        \* history: pairs of an id and a field that was patched
    patches         \* history: number of PATCH requests

vars == <<users, settings, session, call, raced, patched, patches>>

Fields == {"name", "email", "password"}
Idle == [step |-> "idle"]

(* ------------------------------ passwords ------------------------------ *)

(* hashSalt joins salt and hash by a dot and writes the bytes of the hash   *)
(* as text: one of the bytes may be a dot, one may be NUL.                  *)
HashesFault(password) == {[kind |-> "plain", of |-> password]}
Hashes(password) ==
    {[kind |-> kind, of |-> password] : kind \in {"hash", "cut", "nul"}}

(* checkPassword splits at the dots and keeps the first two parts.          *)
Matches(secret, password) == secret.kind = "hash" /\ secret.of = password

(* ------------------------------- queries ------------------------------- *)

Rows == DOMAIN users
ByName(name) == {id \in Rows : users[id].name = name}

ByEmailFault(email) == {id \in Rows : users[id].email = email /\ id \in settings}
ByEmail(email) == {id \in Rows : users[id].email = email}

(* An identifier with an '@' is an email, whatever the client meant by it.  *)
Found(identifier) ==
    IF identifier \in Emails THEN ByEmail(identifier) ELSE ByName(identifier)

(* login takes the first row that was found, and the database is asked for   *)
(* no order: of two accounts with one email either may come first.          *)
LogsIn(id, identifier, password) ==
    id \in Found(identifier) /\ Matches(users[id].secret, password)

(* ----------------------------- registration ---------------------------- *)

Registering(c) == call[c].step \in {"name", "email", "save", "settings"}

Register(c) ==
    /\ call[c] = Idle /\ session[c] = 0
    /\ Len(users) < MaxUsers
    /\ \E name \in Names, email \in Emails, password \in Passwords :
         call' = [call EXCEPT ![c] = [step |-> "name", name |-> name,
                                      email |-> email, password |-> password]]
    /\ raced' = (raced \/ \E other \in Clients \ {c} : Registering(other))
    /\ UNCHANGED <<users, settings, session, patched, patches>>

FindName(c) ==
    /\ call[c].step = "name"
    /\ call' = [call EXCEPT ![c] =
                  IF ByName(@.name) # {} THEN Idle ELSE [@ EXCEPT !.step = "email"]]
    /\ UNCHANGED <<users, settings, session, raced, patched, patches>>

FindEmail(c) ==
    /\ call[c].step = "email"
    /\ call' = [call EXCEPT ![c] =
                  IF ByEmail(@.email) # {} THEN Idle ELSE [@ EXCEPT !.step = "save"]]
    /\ UNCHANGED <<users, settings, session, raced, patched, patches>>

(* The database refuses a NUL in a text and a username it already has.      *)
SaveUser(c) ==
    /\ call[c].step = "save"
    /\ \E secret \in Hashes(call[c].password) :
         IF secret.kind = "nul" \/ ByName(call[c].name) # {} \/ Len(users) = MaxUsers
         THEN call' = [call EXCEPT ![c] = Idle] /\ UNCHANGED users
         ELSE /\ users' = Append(users, [name |-> call[c].name,
                                         email |-> call[c].email, secret |-> secret])
              /\ call' = [call EXCEPT ![c] = [step |-> "settings", id |-> Len(users')]]
    /\ UNCHANGED <<settings, session, raced, patched, patches>>

SaveSettings(c) ==
    /\ call[c].step = "settings"
    /\ settings' = settings \union {call[c].id}
    /\ session' = [session EXCEPT ![c] = call[c].id]
    /\ call' = [call EXCEPT ![c] = Idle]
    /\ UNCHANGED <<users, raced, patched, patches>>

(* Whoever needs the settings of a user that has none makes them.           *)
NeedSettings(id) ==
    /\ id \in Rows \ settings
    /\ settings' = settings \union {id}
    /\ UNCHANGED <<users, session, call, raced, patched, patches>>

(* ------------------------------- sessions ------------------------------ *)

LogIn(c) ==
    /\ call[c] = Idle /\ session[c] = 0
    /\ \E identifier \in Names \union Emails, password \in Passwords :
       \E id \in Rows :
         /\ LogsIn(id, identifier, password)
         /\ session' = [session EXCEPT ![c] = id]
    /\ UNCHANGED <<users, settings, call, raced, patched, patches>>

LogOut(c) ==
    /\ call[c] = Idle /\ session[c] # 0
    /\ session' = [session EXCEPT ![c] = 0]
    /\ UNCHANGED <<users, settings, call, raced, patched, patches>>

(* ------------------------------- changes ------------------------------- *)

(* PATCH user/:id of one's own id: the row is loaded by the interceptor.    *)
Patch(c) ==
    /\ call[c] = Idle /\ session[c] # 0
    /\ patches < MaxPatches
    /\ \E field \in Fields :
       \E value \in CASE field = "name" -> Names [] field = "email" -> Emails
                      [] field = "password" -> {[kind |-> "plain", of |-> p] : p \in Passwords} :
         call' = [call EXCEPT ![c] = [step |-> "patch", user |-> users[session[c]],
                                      field |-> field, value |-> value]]
    /\ patches' = patches + 1
    /\ UNCHANGED <<users, settings, session, raced, patched>>

(* Object.assign: the fields of the body over those of the loaded row.      *)
AssignFault(user, field, value) ==
    CASE field = "name" -> [user EXCEPT !.name = value, !.email = CHOOSE e \in Emails : TRUE]
      [] field = "email" -> [user EXCEPT !.email = value]
      [] field = "password" -> [user EXCEPT !.secret = value]
Assign(user, field, value) ==
    CASE field = "name" -> [user EXCEPT !.name = value]
      [] field = "email" -> [user EXCEPT !.email = value]
      [] field = "password" -> [user EXCEPT !.secret = value]

(* save writes the whole row; the database refuses a username it has.       *)
SavePatch(c) ==
    /\ call[c].step = "patch"
    /\ LET user == Assign(call[c].user, call[c].field, call[c].value) IN
       IF ByName(user.name) \subseteq {session[c]}
       THEN /\ users' = [users EXCEPT ![session[c]] = user]
            /\ patched' = patched \union {<<session[c], call[c].field>>}
       ELSE UNCHANGED <<users, patched>>
    /\ call' = [call EXCEPT ![c] = Idle]
    /\ UNCHANGED <<settings, session, raced, patches>>

(* The server stops; cookies stay with the clients.                         *)
Crash ==
    /\ \E c \in Clients : call[c] # Idle
    /\ call' = [c \in Clients |-> Idle]
    /\ UNCHANGED <<users, settings, session, raced, patched, patches>>

Init ==
    /\ users = <<>> /\ settings = {}
    /\ session = [c \in Clients |-> 0]
    /\ call = [c \in Clients |-> Idle]
    /\ raced = FALSE /\ patched = {} /\ patches = 0

Next ==
    \/ \E c \in Clients :
         \/ Register(c) \/ FindName(c) \/ FindEmail(c) \/ SaveUser(c) \/ SaveSettings(c)
         \/ LogIn(c) \/ LogOut(c) \/ Patch(c) \/ SavePatch(c)
    \/ \E id \in Rows : NeedSettings(id)
    \/ Crash

Spec == Init /\ [][Next]_vars

(* ------------------------------ properties ----------------------------- *)

(* Who registered logs in with username and password, unless the hash held  *)
(* a dot, the username an '@', or the password was patched (the patch       *)
(* stores it as it came, and it never matches again).                       *)
OwnerLogsIn ==
    \A id \in Rows :
        LET user == users[id] IN
        (user.secret.kind # "cut" /\ user.name \notin Emails /\ <<id, "password">> \notin patched)
            => /\ LogsIn(id, user.name, user.secret.of)
               /\ Found(user.name) = {id}

(* No email has two accounts, unless registrations overlapped (the email is *)
(* checked, then the row saved) or an email was patched (never checked).    *)
OneAccountPerEmail ==
    \A id \in Rows, other \in Rows :
        (users[id].email = users[other].email /\ id # other)
            => raced \/ <<id, "email">> \in patched \/ <<other, "email">> \in patched

(* A patch changes only its own field, unless the row was saved in between: *)
(* then it also takes back what the other patch had changed.                *)
PatchChangesItsField ==
    [][\A c \in Clients :
         (SavePatch(c) /\ users' # users /\ call[c].user = users[session[c]])
            => users' = [users EXCEPT ![session[c]] =
                           CASE call[c].field = "name" -> [@ EXCEPT !.name = call[c].value]
                             [] call[c].field = "email" -> [@ EXCEPT !.email = call[c].value]
                             [] call[c].field = "password" -> [@ EXCEPT !.secret = call[c].value]]]_vars

=============================================================================
