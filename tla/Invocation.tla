----------------------------- MODULE Invocation -----------------------------
(***************************************************************************)
(* What every run of core-selynt goes through before and after its command *)
(* (main.rs): who is asking, for which account, whether that is allowed,   *)
(* the account's state tree made ready, the half of the command that runs  *)
(* as root, the privilege drop, and the half that runs as the account.     *)
(*                                                                         *)
(* Invocations interleave, the administrator changes who is a reseller     *)
(* while they run, and authority is asked for again at each gate, of       *)
(* DirectAdmin's files: it may change between two of them.                 *)
(*                                                                         *)
(* The commands themselves are in the other modules; here a command is the *)
(* gates it has to pass and the files that show it got there.              *)
(***************************************************************************)
EXTENDS Integers, FiniteSets

CONSTANTS
    Accounts,    \* the DirectAdmin accounts with a system user
    Services,    \* the accounts named in etc/da_user, da_cgi_user, ols_web_user
    Root,        \* uid 0
    Nobody,      \* no owner, no target
    Unset,       \* an environment variable that is not set
    Issued,      \* the commands the run issues, a subset of Commands
    Invs,        \* invocation slots
    MaxActive,   \* bound: invocations in flight at once
    MaxBegins,   \* bound: invocations ever begun
    MaxChanges   \* bound: changes of an account's usertype

Callers == Accounts \cup Services \cup {Root}

ASSUME CallersAssumption ==
    /\ Root \notin Accounts \cup Services
    /\ Nobody \notin Callers /\ Unset \notin Callers

ASSUME BoundsAssumption ==
    /\ MaxActive \in Nat /\ MaxBegins \in Nat /\ MaxChanges \in Nat

\* The classes of commands main tells apart.  "account": everything plan does for
\* one account.  "inventory": the admin commands but the policy.
Installing == {"install"}                  \* setup, teardown
Sweeping   == {"sweep"}                    \* boot-recover, netguard --all-accounts
ServerWide == Installing \cup Sweeping \cup {"sync"}
Admin      == {"inventory", "policy"}
Commands   == ServerWide \cup Admin \cup {"account"}

ASSUME IssuedAssumption == Issued \subseteq Commands

Usertypes == {"admin", "reseller", "user", "none"}

VARIABLES
    kind,    \* [Callers -> usertype= in user.conf, "none" where there is none]
    own,     \* [Targets -> who owns the state directory and what is below it]
    runs,    \* [Targets -> its `.run`]
    pc, who, cmd,  \* [Invs -> step, real uid, command]
    target,  \* [Invs -> the account it acts as]
    dir,     \* [Invs -> whose state directory it acts on]
    euid,    \* [Invs -> the uid it runs with]
    begins, changes,
    were     \* [Callers -> the usertypes it has had] (history)

env   == <<kind, were, changes>>
trees == <<own, runs>>
asked == <<who, cmd>>
vars  == <<env, trees, pc, asked, target, dir, euid, begins>>

Targets == Accounts \cup {Root}

Codes == {"ok", "served", "root_required", "admin_required", "server_admin_required",
          "user_resolve_failed", "init_failed", "privilege_drop_failed"}
Steps == Codes \cup {"idle", "server", "serving", "resolve", "admin", "statedir", "mkdir",
                     "chown", "run_group", "run_sticky", "root_half", "drop", "account_half"}

\* The states of a `.run`: just made, root's alone; handed to the account's group;
\* with the sticky bit and group write.  "account's" it should never be.
RunStates == {"absent", "private", "grouped", "sticky", "account's"}

TypeOK ==
    /\ kind \in [Callers -> Usertypes] /\ were \in [Callers -> SUBSET Usertypes]
    /\ own \in [Targets -> Targets \cup {Nobody}] /\ runs \in [Targets -> RunStates]
    /\ pc \in [Invs -> Steps] /\ who \in [Invs -> Callers] /\ cmd \in [Invs -> Commands]
    /\ target \in [Invs -> Targets \cup {Nobody}]
    /\ dir \in [Invs -> Targets \cup {Nobody}]
    /\ euid \in [Invs -> Targets \cup {Nobody}]
    /\ begins \in Nat /\ changes \in Nat

-----------------------------------------------------------------------------
(* auth.rs *)

UsertypeIsPrivileged(k) == k \in {"admin", "reseller"}

CallerIsRoot(c) == c = Root

\* caller_is_privileged: who may act for another account.
CallerIsPrivileged(c) == c = Root \/ UsertypeIsPrivileged(kind[c]) \/ c \in Services

\* caller_is_server_admin: a DirectAdmin account is what its usertype says, even
\* when a service runs as it.
CallerIsServerAdmin(c) ==
    \/ c = Root
    \/ kind[c] = "admin"
    \/ kind[c] = "none" /\ c \in Services

\* require_server_wide_authority.
MayServe(c, what) ==
    CASE what = "sync" -> TRUE
      [] what \in Installing -> CallerIsRoot(c)
      [] OTHER -> CallerIsPrivileged(c)

-----------------------------------------------------------------------------

InFlight == {i \in Invs : pc[i] # "idle"}
At(i, step) == pc[i] = step
Goto(i, step) == pc' = [pc EXCEPT ![i] = step]

Init ==
    /\ kind \in [Callers -> Usertypes]
    /\ \A c \in Callers : (kind[c] = "none") = (c \notin Accounts)
    /\ were = [c \in Callers |-> {kind[c]}]
    /\ own = [t \in Targets |-> Nobody] /\ runs = [t \in Targets |-> "absent"]
    /\ pc = [i \in Invs |-> "idle"] /\ who = [i \in Invs |-> Root]
    /\ cmd = [i \in Invs |-> "account"]
    /\ target = [i \in Invs |-> Nobody] /\ dir = [i \in Invs |-> Nobody]
    /\ euid = [i \in Invs |-> Root]
    /\ begins = 0 /\ changes = 0

Begin(i, c, what) ==
    /\ At(i, "idle") /\ begins < MaxBegins /\ Cardinality(InFlight) < MaxActive
    /\ begins' = begins + 1
    /\ who' = [who EXCEPT ![i] = c] /\ cmd' = [cmd EXCEPT ![i] = what]
    /\ Goto(i, IF what \in ServerWide THEN "server" ELSE "resolve")
    /\ UNCHANGED <<env, trees, target, dir, euid>>

\* It has answered, or is killed: the kernel takes it away in any step.
End(i) ==
    /\ ~At(i, "idle")
    /\ Goto(i, "idle")
    /\ who' = [who EXCEPT ![i] = Root] /\ cmd' = [cmd EXCEPT ![i] = "account"]
    /\ target' = [target EXCEPT ![i] = Nobody] /\ dir' = [dir EXCEPT ![i] = Nobody]
    /\ euid' = [euid EXCEPT ![i] = Root]
    /\ UNCHANGED <<env, trees, begins>>

-----------------------------------------------------------------------------
(* main.rs *)

\* server_wide_command and require_server_wide_authority.
ServerGate(i) ==
    /\ At(i, "server")
    /\ Goto(i, IF MayServe(who[i], cmd[i]) THEN "serving"
               ELSE IF cmd[i] \in Installing THEN "root_required" ELSE "admin_required")
    /\ UNCHANGED <<env, trees, asked, target, dir, euid, begins>>

\* run_server_wide stays root throughout.
Serve(i) ==
    /\ At(i, "serving")
    /\ Goto(i, "served")
    /\ UNCHANGED <<env, trees, asked, target, dir, euid, begins>>

\* (A slip: USERNAME is taken at face value.)
ResolveAsAsked(i, name) ==
    /\ At(i, "resolve")
    /\ LET u == IF name = Unset THEN who[i] ELSE name
       IN  IF u \in Targets
           THEN target' = [target EXCEPT ![i] = u] /\ Goto(i, "admin")
           ELSE Goto(i, "user_resolve_failed") /\ UNCHANGED target
    /\ UNCHANGED <<env, trees, asked, dir, euid, begins>>

\* resolve_target_user: only a privileged caller may name another account, in
\* USERNAME, which is the caller's to set.  A service account has no tree of its
\* own: its commands always name one.
Resolve(i, name) ==
    /\ At(i, "resolve")
    /\ LET u == IF name = Unset THEN who[i] ELSE name
           refused == \/ name = Unset /\ who[i] = Root
                      \/ ~CallerIsPrivileged(who[i]) /\ u # who[i]
                      \/ u \notin Targets
       IN  IF refused
           THEN Goto(i, "user_resolve_failed") /\ UNCHANGED target
           ELSE target' = [target EXCEPT ![i] = u] /\ Goto(i, "admin")
    /\ UNCHANGED <<env, trees, asked, dir, euid, begins>>

\* (A slip: the policy is guarded like the other admin commands.)
AdminGateForAll(i) ==
    /\ At(i, "admin")
    /\ Goto(i, IF cmd[i] \in Admin /\ ~CallerIsPrivileged(who[i]) THEN "admin_required"
               ELSE "statedir")
    /\ UNCHANGED <<env, trees, asked, target, dir, euid, begins>>

\* The two gates of the admin commands.
AdminGate(i) ==
    /\ At(i, "admin")
    /\ Goto(i, IF cmd[i] \in Admin /\ ~CallerIsPrivileged(who[i]) THEN "admin_required"
               ELSE IF cmd[i] = "policy" /\ ~CallerIsServerAdmin(who[i])
               THEN "server_admin_required" ELSE "statedir")
    /\ UNCHANGED <<env, trees, asked, target, dir, euid, begins>>

\* The panel names the directory of the account it acts for, as does root where
\* nothing is set; an account of DirectAdmin's may set it to any.
Given(c) == IF c \in Accounts THEN Accounts \cup {Unset} ELSE {Unset}

\* (A slip: any directory below the base will do, whoever asks.)
StateDirAsAsked(i, given) ==
    /\ At(i, "statedir")
    /\ dir' = [dir EXCEPT ![i] = IF given # Unset THEN given ELSE target[i]]
    /\ Goto(i, "mkdir")
    /\ UNCHANGED <<env, trees, asked, target, euid, begins>>

\* resolve_state_dir asks for the caller's authority once more, before it looks at
\* SELYNT_STATE_DIR.
StateDir(i, given) ==
    /\ At(i, "statedir")
    /\ dir' = [dir EXCEPT ![i] = IF CallerIsPrivileged(who[i]) /\ given # Unset
                                 THEN given ELSE target[i]]
    /\ Goto(i, "mkdir")
    /\ UNCHANGED <<env, trees, asked, target, euid, begins>>

-----------------------------------------------------------------------------
(* init_state_dir *)

\* What is missing is made, root's and 0700.
MakeDirs(i) ==
    /\ At(i, "mkdir")
    /\ own' = [own EXCEPT ![dir[i]] = IF @ = Nobody THEN Root ELSE @]
    /\ runs' = [runs EXCEPT ![dir[i]] = IF @ = "absent" THEN "private" ELSE @]
    /\ Goto(i, "chown")
    /\ UNCHANGED <<env, asked, target, dir, euid, begins>>

\* (A slip: `.run` is swept along.)
ChownAll(i) ==
    /\ At(i, "chown")
    /\ own' = [own EXCEPT ![dir[i]] = target[i]]
    /\ runs' = [runs EXCEPT ![dir[i]] = "account's"]
    /\ Goto(i, "run_group")
    /\ UNCHANGED <<env, asked, target, dir, euid, begins>>

\* chown_recursive, which leaves `.run` alone.  A file that another invocation
\* deletes under its eyes makes it fail.
ChownTree(i) ==
    /\ At(i, "chown")
    /\ \/ own' = [own EXCEPT ![dir[i]] = target[i]] /\ Goto(i, "run_group")
       \/ /\ \E j \in InFlight \ {i} : dir[j] = dir[i]
          /\ Goto(i, "init_failed") /\ UNCHANGED own
    /\ UNCHANGED <<env, runs, asked, target, dir, euid, begins>>

\* chown root:gid of `.run`, whose mode stays what it was.
GroupRun(i) ==
    /\ At(i, "run_group")
    /\ runs' = [runs EXCEPT ![dir[i]] = IF @ = "private" THEN "grouped" ELSE @]
    /\ Goto(i, "run_sticky")
    /\ UNCHANGED <<env, own, asked, target, dir, euid, begins>>

\* 1770: the account creates its own files there and removes no other's.
StickyRun(i) ==
    /\ At(i, "run_sticky")
    /\ runs' = [runs EXCEPT ![dir[i]] = "sticky"]
    /\ Goto(i, "root_half")
    /\ UNCHANGED <<env, own, asked, target, dir, euid, begins>>

-----------------------------------------------------------------------------
(* plan, the drop, and what is deferred *)

RootHalf(i) ==
    /\ At(i, "root_half")
    /\ Goto(i, "drop")
    /\ UNCHANGED <<env, trees, asked, target, dir, euid, begins>>

\* (A slip: whether the drop worked is not looked at.)
DropUnchecked(i) ==
    /\ At(i, "drop")
    /\ \/ euid' = [euid EXCEPT ![i] = target[i]]
       \/ UNCHANGED euid
    /\ Goto(i, "account_half")
    /\ UNCHANGED <<env, trees, asked, target, dir, begins>>

\* drop_privileges.  Any of its calls may fail, and root it refuses to become.
Drop(i) ==
    /\ At(i, "drop")
    /\ \/ /\ target[i] # Root
          /\ euid' = [euid EXCEPT ![i] = target[i]] /\ Goto(i, "account_half")
       \/ Goto(i, "privilege_drop_failed") /\ UNCHANGED euid
    /\ UNCHANGED <<env, trees, asked, target, dir, begins>>

AccountHalf(i) ==
    /\ At(i, "account_half")
    /\ Goto(i, "ok")
    /\ UNCHANGED <<env, trees, asked, target, dir, euid, begins>>

\* The administrator promotes or demotes an account.
ChangeKind(c) ==
    /\ c \in Accounts /\ changes < MaxChanges /\ changes' = changes + 1
    /\ \E k \in {"admin", "reseller", "user"} \ {kind[c]} :
          /\ kind' = [kind EXCEPT ![c] = k]
          /\ were' = [were EXCEPT ![c] = @ \cup {k}]
    /\ UNCHANGED <<trees, pc, asked, target, dir, euid, begins>>

Step(i) ==
    \/ ServerGate(i) \/ Serve(i)
    \/ \E name \in Targets \cup {Unset} : Resolve(i, name)
    \/ AdminGate(i)
    \/ \E given \in Given(who[i]) : StateDir(i, given)
    \/ MakeDirs(i) \/ ChownTree(i) \/ GroupRun(i) \/ StickyRun(i)
    \/ RootHalf(i) \/ Drop(i) \/ AccountHalf(i) \/ End(i)

Next ==
    \/ \E i \in Invs, c \in Callers, what \in Issued : Begin(i, c, what)
    \/ \E i \in Invs : Step(i)
    \/ \E c \in Accounts : ChangeKind(c)

Spec == Init /\ [][Next]_vars

-----------------------------------------------------------------------------
(* Properties *)

\* Whoever has at some time been entitled to act for others.
EverPrivileged(c) == c = Root \/ c \in Services \/ were[c] \cap {"admin", "reseller"} # {}

\* What an invocation has done as root by now, at the latest.
Served(i) == pc[i] = "served"
RanAsRoot(i) == pc[i] \in {"drop", "account_half", "privilege_drop_failed", "ok"}

\* Nobody gets further than they may, however authority changes on the way: only
\* root installs, only a server administrator sets the policy of the server,
\* accounts act on themselves (auth.rs:3-8, and the refusals sonda_autorizacao
\* asks of an installed binary).
ActsWithinAuthority ==
    \A i \in Invs :
        /\ Served(i) /\ cmd[i] \in Installing => who[i] = Root
        /\ Served(i) /\ cmd[i] \in Sweeping => EverPrivileged(who[i])
        /\ RanAsRoot(i) /\ cmd[i] = "policy" =>
              who[i] \in {Root} \cup Services \/ "admin" \in were[who[i]]
        /\ RanAsRoot(i) /\ cmd[i] # "account" => EverPrivileged(who[i])
        /\ RanAsRoot(i) /\ {dir[i], target[i]} # {who[i]} => EverPrivileged(who[i])

\* A tree is given to somebody else only by an invocation of someone who has been
\* privileged, and what the panel executes stays root's throughout: no step
\* gives `.run` to the account or takes its sticky bit back (init_state_dir).
TreesStayWithOwners ==
    [][\A t \in Targets :
        /\ own'[t] \in {own[t], Root, t}
           \/ \E i \in Invs : dir[i] = t /\ EverPrivileged(who[i])
        /\ runs'[t] # "account's"
        /\ runs[t] = "sticky" => runs'[t] = "sticky"]_vars

\* What runs after the drop runs as the account it was asked for, never as root
\* (drop_privileges), in a tree that is ready for it.
DropIsComplete ==
    \A i \in Invs : pc[i] = "account_half" =>
        /\ euid[i] = target[i] /\ target[i] # Root
        /\ runs[dir[i]] = "sticky"
=============================================================================
