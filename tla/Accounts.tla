------------------------------ MODULE Accounts ------------------------------
(***************************************************************************)
(* Who a request is, and who there is: the accounts directory (users/),    *)
(* the sessions (index/sessions.rs), the gate every request goes through   *)
(* (auth.rs), the handlers of accounts and sign-ins (api/users.rs,         *)
(* api/auth.rs), and the adoption of what was noted down before there was  *)
(* an account (ideas/adoption.rs).                                         *)
(*                                                                         *)
(* An account is a file, read again by every request, and a session is a   *)
(* row: nothing is held from the look at one to the write of the other, so *)
(* every await is a step.  A password is hashed and verified in the        *)
(* background, which only makes the step before it longer.  A session is   *)
(* named by its token, minted in order here.  Display names and profiles,  *)
(* which nothing decides about, are a patch that changes neither role nor  *)
(* password.  The clock runs in steps longer than a request takes.         *)
(***************************************************************************)
EXTENDS Integers, FiniteSets

CONSTANTS
    Names, Passwords,
    Clients,      \* requests that may be under way at the same time
    None,         \* no file, no value
    Garbled,      \* a file whose frontmatter does not parse
    Lifetime, RenewAfter,
    Edited,          \* what may be found written by hand: [name, file]
    FirstAccounts,   \* the directories it may start with
    Asked,           \* what may be asked: [op, name, role, pass]
    MaxRequests, MaxSignIns, MaxNow, MaxMishaps, MaxNotes   \* bounds

ASSUME AccountBounds ==
    {Lifetime, RenewAfter, MaxRequests, MaxSignIns, MaxNow, MaxMishaps, MaxNotes}
        \subseteq Nat
ASSUME AccountLifetime == 0 < RenewAfter /\ RenewAfter < Lifetime

Roles == {"owner", "member"}
Files == [role : Roles, pass : Passwords \cup {None}]
Rows == [user : Names, expires : 0..MaxNow + Lifetime, pass : Passwords]
Tokens == 1..MaxSignIns
Notes == 1..MaxNotes

ASSUME AccountStarts ==
    FirstAccounts \subseteq [Names -> [role : Roles, pass : Passwords] \cup {None}]
ASSUME AccountEdits == Edited \subseteq [name : Names, file : Files \cup {None, Garbled}]

ASSUME AccountAsked ==
    /\ Asked \subseteq [op : {"create", "patch", "delete", "login", "logout", "note"}, name : Names,
                        role : Roles \cup {None}, pass : Passwords \cup {None}]
    /\ \A what \in Asked : what.op \in {"create", "login"} => what.pass \in Passwords
ASSUME AccountNone == None \notin Files \cup Rows \cup Passwords \cup Names \cup Tokens \cup Roles
                      /\ Garbled \notin Files \cup {None}

VARIABLES
    accounts,   \* the file of each name
    sessions,   \* the row of each token; `pass` is the password it was signed in with
    owner,      \* whose each note is: None while nobody's
    noted,      \* the notes there are
    now, task,
    minted,     \* tokens handed out
    \* What happened, for the properties.
    used,       \* when each token was last taken for somebody, and renewed if it was due
    ended,      \* the tokens signed out or revoked
    late,       \* tokens whose sign-in was verified before the account changed,
                \* and notes of a request that found the wiki open
    raced,      \* an account was written over a file the request had not read
    edited,     \* files were written by hand
    unrevoked,  \* names whose sessions a change did not get to end
    unadopted,  \* an adoption did not happen, or did not finish
    requests, mishaps

accountGhosts == <<used, ended, late, raced, edited, unrevoked, unadopted>>
accountVars == <<accounts, sessions, owner, noted, now, task, minted, accountGhosts,
                 requests, mishaps>>

IsAccount(file) == file \in Files
There == {n \in Names : accounts[n] # None}
Owners == {n \in There : IsAccount(accounts[n]) /\ accounts[n].role = "owner"}

Nobody == [kind |-> "anonymous", name |-> None, role |-> None]
Rest == [at |-> "rest", op |-> "none", name |-> None, role |-> None, pass |-> None,
         token |-> None, now |-> 0, viewer |-> Nobody, seen |-> None, others |-> {},
         boot |-> FALSE, todo |-> {}]

\* A server at work: nobody or some are signed in, and an open wiki may have notes.
Init ==
    /\ accounts \in FirstAccounts
    /\ \E n \in 0..MaxSignIns : \E holder \in [1..n -> There] :
         /\ \A s, t \in 1..n : holder[s] = holder[t] => s = t
         /\ minted = n
         /\ sessions = [t \in Tokens |-> IF t > n THEN None ELSE
                [user |-> holder[t], expires |-> Lifetime, pass |-> accounts[holder[t]].pass]]
    /\ used = [t \in Tokens |-> IF t <= minted THEN 0 ELSE None]
    /\ owner = [r \in Notes |-> None] /\ noted \in IF There = {} THEN {{}, Notes} ELSE {{}}
    /\ now = 0 /\ task = [c \in Clients |-> Rest]
    /\ ended = {} /\ late = [tokens |-> {}, notes |-> {}]
    /\ raced = FALSE /\ edited = FALSE /\ unrevoked = {} /\ unadopted = FALSE
    /\ requests = 0 /\ mishaps = 0

At(c, where) == task[c].at = where
Go(c, where, t) == task' = [task EXCEPT ![c] = [t EXCEPT !.at = where]]
Done(c) == task' = [task EXCEPT ![c] = Rest]

keepFiles == UNCHANGED <<accounts, raced>>
keepRows == UNCHANGED <<sessions, minted, used, ended>>
keepNotes == UNCHANGED <<owner, noted>>
keepRest == UNCHANGED <<now, edited, requests, mishaps>>

-----------------------------------------------------------------------------
(* The gate: auth.rs.                                                      *)

\* Reached without an account.
IsPublic(op) == op \in {"create", "login", "logout"}

Ask(c) ==
    /\ At(c, "rest") /\ requests < MaxRequests
    /\ \E what \in Asked, token \in 1..minted \cup {None} :
         Go(c, "gate", [Rest EXCEPT !.op = what.op, !.name = what.name, !.role = what.role,
                                    !.pass = what.pass, !.token = token, !.now = now])
    /\ requests' = requests + 1
    /\ keepFiles /\ keepRows /\ keepNotes
    /\ UNCHANGED <<now, late, edited, unrevoked, unadopted, mishaps>>

Admit(c, viewer) == Go(c, task[c].op, [task[c] EXCEPT !.viewer = viewer])
AdmitNobody(c) == IF IsPublic(task[c].op) THEN Admit(c, Nobody) ELSE Done(c)

\* A wiki with no accounts is open.
Gate(c) ==
    /\ At(c, "gate")
    /\ CASE There = {}             -> Admit(c, [Nobody EXCEPT !.kind = "open"])
         [] task[c].token = None   -> There # {} /\ AdmitNobody(c)
         [] OTHER                  -> Go(c, "session", task[c])
    /\ keepFiles /\ keepRows /\ keepNotes /\ keepRest
    /\ UNCHANGED <<late, unrevoked, unadopted>>

Expired(row, at) == row.expires <= at

\* An expired row is deleted by the request that meets it.
LookUpSession(c) ==
    /\ At(c, "session")
    /\ LET t == task[c] IN
       IF sessions[t.token] = None \/ Expired(sessions[t.token], t.now)
       THEN /\ AdmitNobody(c)
            /\ sessions' = [sessions EXCEPT ![t.token] = None]
       ELSE /\ Go(c, "account", [t EXCEPT !.seen = sessions[t.token]])
            /\ UNCHANGED sessions
    /\ keepFiles /\ keepNotes /\ keepRest
    /\ UNCHANGED <<minted, used, ended, late, unrevoked, unadopted>>

Fresh(row, at) == row.expires - at > Lifetime - RenewAfter

\* The session names an account, and the account is the file: a session whose
\* account is gone is ended, and one whose account cannot be read is an error.
FindAccount(c) ==
    /\ At(c, "account")
    /\ LET t == task[c]
           row == t.seen
           file == accounts[row.user]
           viewer == [kind |-> "account", name |-> row.user, role |-> file.role]
       IN \/ /\ file = None
             /\ sessions' = [sessions EXCEPT ![t.token] = None]
             /\ ended' = ended \cup {t.token}
             /\ AdmitNobody(c) /\ UNCHANGED used
          \/ /\ file = Garbled
             /\ Done(c) /\ UNCHANGED <<sessions, ended, used>>
          \/ /\ IsAccount(file)
             /\ IF Fresh(row, t.now)
                THEN /\ Admit(c, viewer)
                     /\ used' = [used EXCEPT ![t.token] = t.now]
                ELSE /\ Go(c, "renew", [t EXCEPT !.viewer = viewer])
                     /\ UNCHANGED used
             /\ UNCHANGED <<sessions, ended>>
    /\ keepFiles /\ keepNotes /\ keepRest
    /\ UNCHANGED <<minted, late, unrevoked, unadopted>>

\* Putting the row back when it is no longer there.
Renewed_Always(row, seen, at) == [seen EXCEPT !.expires = at + Lifetime]

\* A row that has been deleted stays deleted.
Renewed(row, seen, at) ==
    IF row = None THEN None ELSE [row EXCEPT !.expires = at + Lifetime]

\* An extension that fails is logged, and the request goes on.
Renew(c) ==
    /\ At(c, "renew")
    /\ LET t == task[c] IN
       \/ /\ sessions' = [sessions EXCEPT ![t.token] = Renewed(@, t.seen, t.now)]
          /\ used' = [used EXCEPT ![t.token] = IF sessions[t.token] = None THEN @ ELSE t.now]
          /\ UNCHANGED mishaps
       \/ /\ mishaps < MaxMishaps /\ mishaps' = mishaps + 1
          /\ UNCHANGED <<sessions, used>>
    /\ Go(c, task[c].op, task[c])
    /\ keepFiles /\ keepNotes
    /\ UNCHANGED <<now, minted, ended, late, edited, unrevoked, unadopted, requests>>

MayAdminister(viewer) ==
    viewer.kind = "open" \/ (viewer.kind = "account" /\ viewer.role = "owner")

-----------------------------------------------------------------------------
(* Accounts: api/users.rs over users/store.rs.                             *)

\* Without a role when none was asked for.
NewRole_Bare(boot, asked) == IF boot THEN "owner" ELSE asked

\* The first account is an owner whatever was asked.
NewRole(boot, asked) == IF boot THEN "owner" ELSE IF asked = None THEN "member" ELSE asked

Quiet == UNCHANGED <<late, unrevoked, unadopted>>

\* Whether this is the first one is looked at before the password is hashed.
CreateLook(c) ==
    /\ At(c, "create")
    /\ LET boot == There = {} IN
       IF boot \/ MayAdminister(task[c].viewer)
       THEN Go(c, "create check", [task[c] EXCEPT !.boot = boot, !.role = NewRole(boot, @)])
       ELSE Done(c)
    /\ keepFiles /\ keepRows /\ keepNotes /\ keepRest /\ Quiet

CreateCheck(c) ==
    /\ At(c, "create check")
    /\ IF accounts[task[c].name] # None THEN Done(c) ELSE Go(c, "create write", task[c])
    /\ keepFiles /\ keepRows /\ keepNotes /\ keepRest /\ Quiet

\* Leaving the adoption to the next start.
CreateWrite_Only(c) ==
    /\ At(c, "create write")
    /\ LET t == task[c] IN
       /\ accounts' = [accounts EXCEPT ![t.name] = [role |-> t.role, pass |-> t.pass]]
       /\ raced' = (raced \/ accounts[t.name] # None)
       /\ Done(c)
    /\ keepRows /\ keepNotes /\ keepRest /\ Quiet

CreateWrite(c) ==
    /\ At(c, "create write")
    /\ LET t == task[c] IN
       /\ accounts' = [accounts EXCEPT ![t.name] = [role |-> t.role, pass |-> t.pass]]
       /\ raced' = (raced \/ accounts[t.name] # None)
       /\ IF t.boot THEN Go(c, "adopt", t) ELSE Done(c)
    /\ keepRows /\ keepNotes /\ keepRest /\ Quiet

\* Nobody but an owner changes another account, or any role.
PatchRead(c) ==
    /\ At(c, "patch")
    /\ LET t == task[c]
           file == accounts[t.name]
       IN IF /\ t.viewer.kind # "anonymous"
             /\ t.viewer.name = t.name \/ MayAdminister(t.viewer)
             /\ IsAccount(file)
             /\ t.role # None => MayAdminister(t.viewer)
          THEN Go(c, "patch check", [t EXCEPT !.seen = file])
          ELSE Done(c)
    /\ keepFiles /\ keepRows /\ keepNotes /\ keepRest /\ Quiet

\* Demoting and deleting an owner looks for another one.
OnlyOwner(n) == Owners \ {n} = {}
Demotes(t) == t.role = "member" /\ t.seen.role = "owner"

\* Without looking for another one.
PatchCheck_AnyOwner(c) ==
    /\ At(c, "patch check")
    /\ Go(c, "patch write", [task[c] EXCEPT !.others = Owners \ {task[c].name}])
    /\ keepFiles /\ keepRows /\ keepNotes /\ keepRest /\ Quiet

PatchCheck(c) ==
    /\ At(c, "patch check")
    /\ IF Demotes(task[c]) /\ OnlyOwner(task[c].name) THEN Done(c)
       ELSE Go(c, "patch write", [task[c] EXCEPT !.others = Owners \ {task[c].name}])
    /\ keepFiles /\ keepRows /\ keepNotes /\ keepRest /\ Quiet

\* The fields asked for, over the file as it was read.
PatchWrite(c) ==
    /\ At(c, "patch write")
    /\ LET t == task[c] IN
       /\ accounts' = [accounts EXCEPT ![t.name] =
                        [role |-> IF t.role = None THEN t.seen.role ELSE t.role,
                         pass |-> IF t.pass = None THEN t.seen.pass ELSE t.pass]]
       /\ raced' = \/ raced \/ accounts[t.name] # t.seen
                   \/ Demotes(t) /\ Owners \ {t.name} # t.others
       /\ IF t.pass = None THEN Done(c) ELSE Go(c, "revoke", t)
    /\ keepRows /\ keepNotes /\ keepRest /\ Quiet

DeleteRead(c) ==
    /\ At(c, "delete")
    /\ LET t == task[c] IN
       IF MayAdminister(t.viewer) /\ IsAccount(accounts[t.name])
       THEN Go(c, "delete check", [t EXCEPT !.seen = accounts[t.name]])
       ELSE Done(c)
    /\ keepFiles /\ keepRows /\ keepNotes /\ keepRest /\ Quiet

DeleteCheck(c) ==
    /\ At(c, "delete check")
    /\ IF task[c].seen.role = "owner" /\ OnlyOwner(task[c].name) THEN Done(c)
       ELSE Go(c, "delete file", [task[c] EXCEPT !.others = Owners \ {task[c].name}])
    /\ keepFiles /\ keepRows /\ keepNotes /\ keepRest /\ Quiet

DeleteFile(c) ==
    /\ At(c, "delete file")
    /\ LET t == task[c] IN
       IF accounts[t.name] = None THEN Done(c) /\ keepFiles
       ELSE /\ accounts' = [accounts EXCEPT ![t.name] = None]
            /\ raced' = (raced \/ accounts[t.name] # t.seen \/ Owners \ {t.name} # t.others)
            /\ Go(c, "revoke", t)
    /\ keepRows /\ keepNotes /\ keepRest /\ Quiet

\* Only the session the request came with.
Revoked_Own(t) == {t.token} \cap {k \in Tokens : sessions[k] # None /\ sessions[k].user = t.name}

Revoked(t) == {k \in Tokens : sessions[k] # None /\ sessions[k].user = t.name}

\* After the file, not before.
Revoke(c) ==
    /\ At(c, "revoke")
    /\ LET gone == Revoked(task[c]) IN
       /\ sessions' = [k \in Tokens |-> IF k \in gone THEN None ELSE sessions[k]]
       /\ ended' = ended \cup gone
    /\ Done(c)
    /\ keepFiles /\ keepNotes /\ keepRest /\ Quiet
    /\ UNCHANGED <<minted, used>>

-----------------------------------------------------------------------------
(* Signing in and out: api/auth.rs.                                        *)

LogInVerify(c) ==
    /\ At(c, "login")
    /\ LET file == accounts[task[c].name] IN
       IF IsAccount(file) /\ file.pass = task[c].pass
       THEN Go(c, "mint", task[c]) ELSE Done(c)
    /\ keepFiles /\ keepRows /\ keepNotes /\ keepRest /\ Quiet

LogInMint(c) ==
    /\ At(c, "mint") /\ minted < MaxSignIns
    /\ LET t == task[c]
           file == accounts[t.name]
       IN /\ minted' = minted + 1
          /\ sessions' = [sessions EXCEPT ![minted'] =
                           [user |-> t.name, expires |-> now + Lifetime, pass |-> t.pass]]
          /\ used' = [used EXCEPT ![minted'] = now]
          /\ late' = IF IsAccount(file) /\ file.pass = t.pass THEN late
                     ELSE [late EXCEPT !.tokens = @ \cup {minted'}]
          /\ Go(c, "purge", [t EXCEPT !.now = now])
    /\ keepFiles /\ keepNotes /\ keepRest
    /\ UNCHANGED <<ended, unrevoked, unadopted>>

Purged(row, at) == row.expires <= at

Purge(c) ==
    /\ At(c, "purge")
    /\ sessions' = [k \in Tokens |-> IF sessions[k] # None /\ Purged(sessions[k], task[c].now)
                                     THEN None ELSE sessions[k]]
    /\ Done(c)
    /\ keepFiles /\ keepNotes /\ keepRest /\ Quiet
    /\ UNCHANGED <<minted, used, ended>>

LogOut(c) ==
    /\ At(c, "logout")
    /\ IF task[c].token = None THEN UNCHANGED <<sessions, ended>>
       ELSE /\ sessions' = [sessions EXCEPT ![task[c].token] = None]
            /\ ended' = ended \cup {task[c].token}
    /\ Done(c)
    /\ keepFiles /\ keepNotes /\ keepRest /\ Quiet
    /\ UNCHANGED <<minted, used>>

-----------------------------------------------------------------------------
(* Notes of the inbox, and who they belong to: Viewer::owner, adoption.rs. *)

WriteNote(c) ==
    /\ At(c, "note")
    /\ IF task[c].viewer.kind = "anonymous" \/ noted = Notes THEN keepNotes /\ UNCHANGED late
       ELSE LET r == CHOOSE r \in Notes \ noted : \A s \in Notes \ noted : r <= s IN
            /\ noted' = noted \cup {r}
            /\ owner' = [owner EXCEPT ![r] = task[c].viewer.name]
            /\ late' = IF task[c].viewer.kind = "open" /\ There # {}
                       THEN [late EXCEPT !.notes = @ \cup {r}] ELSE late
    /\ Done(c)
    /\ keepFiles /\ keepRows /\ keepRest
    /\ UNCHANGED <<unrevoked, unadopted>>

Unowned == {r \in noted : owner[r] = None}

\* The only account there is, or nobody: two and a pile of notes is not resolved.
Heir(c) == IF Cardinality(There) = 1 THEN CHOOSE n \in Names : n \in There ELSE None

AdoptLook(c) ==
    /\ At(c, "adopt")
    /\ IF Unowned = {} \/ Heir(c) = None
       THEN Done(c) /\ unadopted' = (unadopted \/ Unowned # {})
       ELSE /\ Go(c, "adopting", [task[c] EXCEPT !.todo = Unowned, !.name = Heir(c)])
            /\ UNCHANGED unadopted
    /\ keepFiles /\ keepRows /\ keepNotes /\ keepRest
    /\ UNCHANGED <<late, unrevoked>>

Handed(whose, heir) == IF whose = None THEN heir ELSE whose

\* Record by record.
Adopt(c) ==
    /\ At(c, "adopting")
    /\ IF task[c].todo = {} THEN Done(c) /\ UNCHANGED <<owner, late>>
       ELSE \E r \in task[c].todo :
              /\ owner' = [owner EXCEPT ![r] = Handed(@, task[c].name)]
              /\ late' = [late EXCEPT !.notes = @ \ {r}]
              /\ Go(c, "adopting", [task[c] EXCEPT !.todo = @ \ {r}])
    /\ keepFiles /\ keepRows /\ keepRest
    /\ UNCHANGED <<noted, unrevoked, unadopted>>

-----------------------------------------------------------------------------
(* The world around.                                                       *)

\* A request takes less time than the clock does to move twice.
Tick ==
    /\ now < MaxNow
    /\ \A c \in Clients : task[c].at = "rest" \/ task[c].now = now
    /\ now' = now + 1
    /\ keepFiles /\ keepRows /\ keepNotes /\ Quiet
    /\ UNCHANGED <<task, edited, requests, mishaps>>

\* Somebody writes an account file, spoils it or takes it away.
EditByHand ==
    /\ mishaps < MaxMishaps /\ mishaps' = mishaps + 1
    /\ \E edit \in Edited :
         /\ accounts[edit.name] # edit.file
         /\ accounts' = [accounts EXCEPT ![edit.name] = edit.file]
    /\ edited' = TRUE
    /\ keepRows /\ keepNotes /\ Quiet
    /\ UNCHANGED <<now, task, raced, requests>>

Interrupted(c) ==
    /\ unrevoked' = IF At(c, "revoke") THEN unrevoked \cup {task[c].name} ELSE unrevoked
    /\ unadopted' = (unadopted \/ task[c].at \in {"adopt", "adopting"})

\* A write, or a look of an adoption, returns an error, and so does the request.
\* A look that fails before anything was written ends it as a refusal does.
Fail(c) ==
    /\ task[c].at \in {"create write", "patch write", "delete file", "revoke", "mint", "adopt", "adopting"}
    /\ mishaps < MaxMishaps /\ mishaps' = mishaps + 1
    /\ Interrupted(c) /\ Done(c)
    /\ keepFiles /\ keepRows /\ keepNotes
    /\ UNCHANGED <<now, late, edited, requests>>

\* The process ends and is started again, which hands what is nobody's to the only
\* account there is; an error on the way is logged, and the rest stays nobody's.
Restart ==
    /\ mishaps < MaxMishaps /\ mishaps' = mishaps + 1
    /\ task' = [c \in Clients |-> Rest]
    /\ unrevoked' = unrevoked \cup {task[c].name : c \in {d \in Clients : At(d, "revoke")}}
    /\ IF Cardinality(There) = 1
       THEN \E taken \in SUBSET Unowned :
              /\ owner' = [r \in Notes |-> IF r \in taken THEN CHOOSE n \in Names : n \in There
                                          ELSE owner[r]]
              /\ late' = [late EXCEPT !.notes = @ \ taken]
              /\ unadopted' = (taken # Unowned)
       ELSE /\ unadopted' = (unadopted \/ \E c \in Clients : task[c].at \in {"adopt", "adopting"})
            /\ UNCHANGED <<owner, late>>
    /\ keepFiles /\ keepRows
    /\ UNCHANGED <<noted, now, edited, requests>>

Step(c) ==
    \/ Ask(c) \/ Gate(c) \/ LookUpSession(c) \/ FindAccount(c) \/ Renew(c)
    \/ CreateLook(c) \/ CreateCheck(c) \/ CreateWrite(c)
    \/ PatchRead(c) \/ PatchCheck(c) \/ PatchWrite(c)
    \/ DeleteRead(c) \/ DeleteCheck(c) \/ DeleteFile(c) \/ Revoke(c)
    \/ LogInVerify(c) \/ LogInMint(c) \/ Purge(c) \/ LogOut(c)
    \/ WriteNote(c) \/ AdoptLook(c) \/ Adopt(c) \/ Fail(c)

Next == Tick \/ EditByHand \/ Restart \/ \E c \in Clients : Step(c)
Spec == Init /\ [][Next]_accountVars

-----------------------------------------------------------------------------
(* Properties.                                                             *)

\* Accounts, rows, notes and requests are of their kinds.
TypeOK ==
    /\ accounts \in [Names -> Files \cup {None, Garbled}]
    /\ sessions \in [Tokens -> Rows \cup {None}]
    /\ owner \in [Notes -> Names \cup {None}] /\ noted \subseteq Notes
    /\ now \in 0..MaxNow /\ minted \in 0..MaxSignIns
    /\ \A c \in Clients : /\ task[c].now \in 0..MaxNow
                          /\ task[c].viewer.kind \in {"open", "account", "anonymous"}
                          /\ task[c].viewer.kind = "account" => task[c].viewer.role \in Roles

\* A wiki that asks for a sign-in has somebody who may add an account to it:
\* the first account is an owner, and the last owner is neither demoted nor
\* deleted.  Excepted: files written by hand, and requests that wrote over what
\* another one had just changed.
SomebodyAdministers == There = {} \/ Owners # {} \/ raced \/ edited

\* What a session was signed in with is the account's password still: a change
\* or a deletion ends every session there was.  Excepted: while the rows are
\* being deleted, after a change that did not get that far, and a sign-in that
\* was verified before the change and minted after it.
SessionsHoldThePassword ==
    \A k \in Tokens : sessions[k] # None =>
        LET n == sessions[k].user IN
        \/ IsAccount(accounts[n]) /\ accounts[n].pass = sessions[k].pass
        \/ k \in late.tokens \/ n \in unrevoked \/ raced \/ edited
        \/ \E c \in Clients : At(c, "revoke") /\ task[c].name = n

\* Whoever keeps using a session is not signed out: its row lasts for the
\* lifetime less what a request may find unrenewed, whatever else renews,
\* purges and looks at the same time.  A request that found the row in its last
\* moment, and another one that found it expired before it could be renewed, is
\* the one that does not count.
UseKeepsASession ==
    \A k \in 1..minted : (k \notin ended /\ now < used[k] + Lifetime - RenewAfter) =>
        sessions[k] # None /\ sessions[k].expires > now

\* A session is worth its password and lasts as long as it is used.
SessionsAreSound == SessionsHoldThePassword /\ UseKeepsASession

\* A session that was signed out or revoked does not come back, not through the
\* renewal by a request that had read its row before.
EndedStaysEnded == \A k \in ended : sessions[k] = None

\* Notes of the open wiki belong to the account that claimed it once its request
\* is through.  Excepted: notes of requests that found the wiki open and wrote
\* after it was claimed, until the next start; an adoption that was interrupted
\* or found two accounts; accounts dropped in by hand; and a wiki that two
\* requests at once left without an account, open again, while a third one was
\* making an account that is not the first.
NotesFindTheirOwner ==
    \/ There = {} \/ edited \/ raced \/ unadopted
    \/ \E c \in Clients : task[c].at \in {"adopt", "adopting"}
    \/ Unowned \subseteq late.notes

\* What has an owner keeps it: nobody's notes are handed to another account.
OwnersAreKept == \A r \in noted : owner[r] # None => owner'[r] = owner[r]

\* Adoption takes in what is nobody's, and that only: each step leaves the notes
\* with their owners, and no owner loses one.
NotesKeepTheirOwners == [][NotesFindTheirOwner' /\ OwnersAreKept]_accountVars
=============================================================================
