--------------------------- MODULE CloudAccounts ---------------------------
(***************************************************************************)
(* Logging in to the cloud and out of it, and what relies on it: profiles, *)
(* which are files that hold a secret key, and projects, whose stash names *)
(* the profile of their instance.  Commands run at the same time; a task   *)
(* is one command and its local variables.                                 *)
(***************************************************************************)
EXTENDS Naturals, FiniteSets

CONSTANTS
    Profiles, Dirs,       \* Dirs: projects
    Keys, Bad,            \* secret keys; Bad is no key of this account
    Tasks,
    None,
    MaxLogins, MaxExpired

ASSUME AccountsAssumption == None \notin Profiles \cup Keys /\ Bad \notin Keys

VARIABLES
    file,      \* the key in the file of each profile
    live,      \* keys that the cloud accepts
    lasting,   \* keys that do not expire
    profileOf, \* the file cloud-profile in the stash of each project
    task,
    consented, \* profiles given up by --force, by an answer, or unseen (history)
    logins, expired

accounts == <<file, live, lasting, profileOf, task, consented, logins, expired>>
keys == <<live, lasting, expired>>

Resting == [pc |-> "idle", op |-> "none", profile |-> None, environ |-> None, key |-> None,
            dir |-> None, todo |-> {}, users |-> {}, force |-> FALSE, ask |-> FALSE,
            skipped |-> {}, removed |-> {}]

AccountsInit ==
    /\ file = [f \in Profiles |-> None] /\ live = {} /\ lasting = {}
    /\ profileOf = [d \in Dirs |-> None] /\ task = [t \in Tasks |-> Resting]
    /\ consented = {} /\ logins = 0 /\ expired = 0

TaskAt(t, op, pc) == task[t].op = op /\ task[t].pc = pc
To(t, pc) == task' = [task EXCEPT ![t].pc = pc]
\* Of an ended task's variables, what logout has reported is remembered
Ends(t, pc) == task' = [task EXCEPT ![t] = [Resting EXCEPT !.op = task[t].op, !.pc = pc,
                                              !.todo = task[t].todo, !.skipped = task[t].skipped]]
Over(t) == task[t].pc \in {"idle", "ok", "failed"}
UsersOf(f) == {d \in Dirs : profileOf[d] = f}

\* CloudClient::new: the option, the environment, then the file
SecretKey(option, environ, f) ==
    IF option # None THEN option ELSE IF environ # None THEN environ ELSE file[f]

(* cloud login *)

Login(t, f, option, environ) ==
    /\ Over(t) /\ logins < MaxLogins /\ logins' = logins + 1
    /\ task' = [task EXCEPT ![t] =
                  [Resting EXCEPT !.op = "login", !.profile = f, !.environ = environ,
                                  !.pc = IF SecretKey(option, environ, f) \in live
                                         THEN "ok" ELSE "session"]]
    /\ UNCHANGED <<file, keys, profileOf, consented>>
\* The user authenticates in the browser: get_session has a short-lived key
Session(t, k) ==
    /\ TaskAt(t, "login", "session") /\ k \in Keys \ live
    /\ live' = live \cup {k} /\ task' = [task EXCEPT ![t].pc = "create", ![t].key = k]
    /\ UNCHANGED <<file, lasting, expired, profileOf, consented, logins>>
\* create_secret_key, with that key
CreateSecretKey(t, k) ==
    /\ TaskAt(t, "login", "create") /\ task[t].key \in live /\ k \in Keys \ live
    /\ live' = live \cup {k} /\ lasting' = lasting \cup {k}
    /\ task' = [task EXCEPT ![t].pc = "save", ![t].key = k]
    /\ UNCHANGED <<file, expired, profileOf, consented, logins>>
WriteConfig(t) ==
    /\ TaskAt(t, "login", "save") /\ file' = [file EXCEPT ![task[t].profile] = task[t].key]
    /\ consented' = consented \ {task[t].profile}
    /\ To(t, "reinit") /\ UNCHANGED <<keys, profileOf, logins>>
\* set_secret_key(None), which forgets an option too
KeepKey(t) == TaskAt(t, "login", "reinit") /\ To(t, "verify") /\ UNCHANGED <<file, keys, profileOf, consented, logins>>
Reinit(t) ==
    /\ TaskAt(t, "login", "reinit")
    /\ task' = [task EXCEPT ![t].pc = "verify",
                            ![t].key = SecretKey(None, task[t].environ, task[t].profile)]
    /\ UNCHANGED <<file, keys, profileOf, consented, logins>>
\* get_user
Verify(t) ==
    /\ TaskAt(t, "login", "verify") /\ Ends(t, IF task[t].key \in live THEN "ok" ELSE "failed")
    /\ UNCHANGED <<file, keys, profileOf, consented, logins>>
LoginFails(t) ==
    /\ task[t].op = "login" /\ ~Over(t) /\ Ends(t, "failed")
    /\ UNCHANGED <<file, keys, profileOf, consented, logins>>

(* cloud logout *)

\* The projects of the profiles are listed once, before the first is removed
Logout(t, fs, force, ask) ==
    /\ Over(t) /\ ~(force /\ ask)
    /\ task' = [task EXCEPT ![t] =
                  [Resting EXCEPT !.op = "logout", !.todo = {f \in fs : file[f] # None},
                                  !.users = {d \in Dirs : profileOf[d] \in fs},
                                  !.force = force, !.ask = ask,
                                  !.pc = IF \A f \in fs : file[f] = None THEN "ok" ELSE "loop"]]
    /\ UNCHANGED <<file, keys, profileOf, consented, logins>>
LogoutProfile(t, f, force, ask) == Logout(t, {f}, force, ask)
LogoutAll(t, force, ask) == Logout(t, Profiles, force, ask)

Needed(t, f) == UsersOf(f) \cap task[t].users # {}
\* The file may be gone: then the command fails
RemoveKey(t, f, agreed) ==
    /\ file' = [file EXCEPT ![f] = None]
    /\ consented' = IF agreed \/ UsersOf(f) # {d \in task[t].users : profileOf[d] = f}
                    THEN consented \cup {f} ELSE consented
    /\ task' = IF file[f] = None THEN [task EXCEPT ![t].pc = "failed"]
               ELSE [task EXCEPT ![t].todo = @ \ {f}, ![t].removed = @ \cup {f}]
RemoveUnasked(t, f) ==
    /\ TaskAt(t, "logout", "loop") /\ f \in task[t].todo /\ RemoveKey(t, f, FALSE)
    /\ UNCHANGED <<keys, profileOf, logins>>
RemoveUnused(t, f) ==
    /\ TaskAt(t, "logout", "loop") /\ f \in task[t].todo /\ ~Needed(t, f) /\ RemoveKey(t, f, FALSE)
    /\ UNCHANGED <<keys, profileOf, logins>>
\* forced, or the user says yes
RemoveUsed(t, f) ==
    /\ TaskAt(t, "logout", "loop") /\ f \in task[t].todo /\ Needed(t, f)
    /\ (task[t].force \/ task[t].ask) /\ RemoveKey(t, f, TRUE)
    /\ UNCHANGED <<keys, profileOf, logins>>
SkipUsed(t, f) ==
    /\ TaskAt(t, "logout", "loop") /\ f \in task[t].todo /\ Needed(t, f) /\ ~task[t].force
    /\ task' = [task EXCEPT ![t].todo = @ \ {f}, ![t].skipped = @ \cup {f}]
    /\ UNCHANGED <<file, keys, profileOf, consented, logins>>
Exit(t) ==
    /\ TaskAt(t, "logout", "loop") /\ task[t].todo = {}
    /\ Ends(t, IF task[t].skipped = {} THEN "ok" ELSE "failed")
    /\ UNCHANGED <<file, keys, profileOf, consented, logins>>

(* Others *)

\* `project init` with an instance of the cloud: logged in is, to have a key
InitProject(t, d, f) ==
    /\ Over(t) /\ profileOf[d] = None /\ file[f] # None
    /\ task' = [task EXCEPT ![t] = [Resting EXCEPT !.op = "init", !.pc = "stash", !.profile = f, !.dir = d]]
    /\ UNCHANGED <<file, keys, profileOf, consented, logins>>
WriteStash(t) ==
    /\ TaskAt(t, "init", "stash") /\ Ends(t, "ok")
    /\ profileOf' = [profileOf EXCEPT ![task[t].dir] = task[t].profile]
    /\ consented' = IF file[task[t].profile] = None THEN consented \cup {task[t].profile} ELSE consented
    /\ UNCHANGED <<file, keys, logins>>
\* `cloud secret-key revoke`, or the end of a key's life
Revoke(k) ==
    /\ k \in live /\ expired < MaxExpired /\ expired' = expired + 1 /\ live' = live \ {k}
    /\ UNCHANGED <<file, lasting, profileOf, task, consented, logins>>

AccountsNext ==
    \/ \E k \in Keys : Revoke(k)
    \/ \E t \in Tasks :
          \/ \E f \in Profiles :
                \/ \E option, environ \in {None, Bad} : Login(t, f, option, environ)
                \/ \E force, ask \in BOOLEAN : LogoutProfile(t, f, force, ask)
                \/ \E d \in Dirs : InitProject(t, d, f)
                \/ RemoveUnused(t, f) \/ RemoveUsed(t, f) \/ SkipUsed(t, f)
          \/ \E force, ask \in BOOLEAN : LogoutAll(t, force, ask)
          \/ \E k \in Keys : Session(t, k) \/ CreateSecretKey(t, k)
          \/ WriteConfig(t) \/ Reinit(t) \/ Verify(t) \/ LoginFails(t) \/ Exit(t) \/ WriteStash(t)

AccountsSpec == AccountsInit /\ [][AccountsNext]_accounts

(* Properties *)

\* Profiles hold keys that do not expire, never the key of a session; the profile of a
\* project is logged out only when the user was told so and agreed, or forced it, or when
\* `project init` and `logout` met; and `logout` that succeeds has left nothing it was to
\* remove, unless somebody logged in again (_do_login, logout).
AccountsInv ==
    /\ \A f \in Profiles : file[f] # None => file[f] \in lasting
    /\ \A d \in Dirs : profileOf[d] # None => file[profileOf[d]] # None \/ profileOf[d] \in consented
    /\ \A t \in Tasks : TaskAt(t, "logout", "ok") => task[t].skipped = {} /\ task[t].todo = {}

\* When `login` reports success, the next command with the same profile and environment
\* is logged in, unless another command has changed the file or revoked the key
\* meanwhile (_do_login, set_secret_key, new_inner).
LoginLasts ==
    [][\A t \in Tasks :
          TaskAt(t, "login", "verify") /\ task'[t].pc = "ok" =>
              \/ SecretKey(None, task[t].environ, task[t].profile) \in live \cap lasting
              \/ file[task[t].profile] # task[t].key]_accounts

=============================================================================
