----------------------------- MODULE ProxySync -----------------------------
(***************************************************************************)
(* The `sync-proxy` sweep: the OpenLiteSpeed handler file is rewritten     *)
(* from the apps that are up, and the web server reloaded when it changed. *)
(* The sweep runs from a timer every few seconds and by hand; a flock      *)
(* keeps two of them apart.  The apps come and go while it reads, and the  *)
(* commands that start and stop them leave a marker saying so.             *)
(***************************************************************************)
EXTENDS Integers, Sequences

CONSTANTS
    Apps,         \* registered apps, of every account
    Order,        \* the apps as list_accounts and list_app_names sort them
    Route(_),     \* an app's marker file: its account and host
    Host(_),      \* the host it claims, the name of its handler
    Sweeps,       \* sweep processes
    NoSweep,      \* the lock is free
    NoFile,       \* the generated file was never written
    MaxChanges,   \* bound: times an app or a marker comes or goes
    MaxFailures,  \* bound: reloads refused, writes failed, sweeps killed
    Killable      \* whether a sweep may be killed half way

ASSUME OrderAssumption == Order \in Seq(Apps)

ASSUME NullsAssumption == NoSweep \notin Sweeps /\ \A S \in SUBSET Apps : S # NoFile

ASSUME BoundsAssumption ==
    MaxChanges \in Nat /\ MaxFailures \in Nat /\ Killable \in BOOLEAN

VARIABLES
    marker,     \* routes whose `.proxy/<host>` file exists
    sock,       \* apps whose socket file exists
    owed,       \* routes changed by a command that has yet to signal_sync
    needed,     \* SYNC_MARKER exists
    file,       \* apps with a handler in the generated file, or NoFile
    legacy,     \* the old include line is still in httpd_config.conf
    loaded,     \* apps whose handlers the running web server has read
    lock,       \* the sweep holding LOCK_FILE, or NoSweep
    pc,         \* [Sweeps -> the next step]
    at,         \* [Sweeps -> position in Order the collection has reached]
    seen,       \* [Sweeps -> apps collected so far]
    why,        \* [Sweeps -> what asks for a reload: "written", "retired"]
    changes,    \* bound counter
    failures    \* bound counter

apps  == <<marker, sock, owed>>
conf  == <<file, legacy, loaded>>
sweep == <<lock, pc, at, seen, why>>
vars  == <<apps, needed, conf, sweep, changes, failures>>

Steps == {"idle", "collect", "write", "retire", "reload", "clear"}

Routes == {Route(a) : a \in Apps}

TypeOK ==
    /\ marker \subseteq Routes /\ owed \subseteq Routes
    /\ sock \subseteq Apps /\ loaded \subseteq Apps
    /\ file \in (SUBSET Apps) \cup {NoFile}
    /\ needed \in BOOLEAN /\ legacy \in BOOLEAN
    /\ lock \in Sweeps \cup {NoSweep}
    /\ pc \in [Sweeps -> Steps]
    /\ at \in [Sweeps -> 1..(Len(Order) + 1)]
    /\ seen \in [Sweeps -> SUBSET Apps]
    /\ why \in [Sweeps -> SUBSET {"written", "retired"}]
    /\ changes \in Nat /\ failures \in Nat

\* A server set up by this version, or one that got only the new binary: its
\* handlers are still read through the include line, from the old place.
Init ==
    /\ marker = {} /\ sock = {} /\ owed = {} /\ needed = FALSE
    /\ \/ file = {} /\ legacy = FALSE
       \/ file = NoFile /\ legacy = TRUE
    /\ loaded = {}
    /\ lock = NoSweep
    /\ pc = [s \in Sweeps |-> "idle"] /\ at = [s \in Sweeps |-> 1]
    /\ seen = [s \in Sweeps |-> {}] /\ why = [s \in Sweeps |-> {}]
    /\ changes = 0 /\ failures = 0

-----------------------------------------------------------------------------
(* The apps and the commands about them (AppRun has their steps in full) *)

Change == changes < MaxChanges /\ changes' = changes + 1

\* The app binds its socket, or its file is removed.
Serve(a) ==
    /\ Change /\ a \notin sock
    /\ sock' = sock \cup {a}
    /\ UNCHANGED <<marker, owed, needed, conf, sweep, failures>>

Withhold(a) ==
    /\ Change /\ a \in sock
    /\ sock' = sock \ {a}
    /\ UNCHANGED <<marker, owed, needed, conf, sweep, failures>>

\* publish_route once the socket has accepted; the stop paths and a start that
\* clears the way remove the marker.
Publish(a) ==
    /\ Change /\ a \in sock /\ Route(a) \notin marker
    /\ marker' = marker \cup {Route(a)} /\ owed' = owed \cup {Route(a)}
    /\ UNCHANGED <<sock, needed, conf, sweep, failures>>

Withdraw(a) ==
    /\ Change /\ Route(a) \in marker
    /\ marker' = marker \ {Route(a)} /\ owed' = owed \cup {Route(a)}
    /\ UNCHANGED <<sock, needed, conf, sweep, failures>>

\* signal_sync, the last thing such a command does.
Signal ==
    /\ owed # {}
    /\ owed' = {} /\ needed' = TRUE
    /\ UNCHANGED <<marker, sock, conf, sweep, changes, failures>>

-----------------------------------------------------------------------------
(* The sweep *)

Goto(s, step) == pc' = [pc EXCEPT ![s] = step]

\* Returning from sync() drops the lock.
Return(s) ==
    /\ Goto(s, "idle")
    /\ lock' = NoSweep
    /\ at' = [at EXCEPT ![s] = 1]
    /\ seen' = [seen EXCEPT ![s] = {}] /\ why' = [why EXCEPT ![s] = {}]

\* (A slip: the sweep does not lock.)
AcquireAnyway(s) ==
    /\ pc[s] = "idle"
    /\ lock' = s
    /\ Goto(s, "collect")
    /\ UNCHANGED <<apps, needed, conf, at, seen, why, changes, failures>>

\* Lock::acquire does not wait: a sweep that finds it held is skipped.
Acquire(s) ==
    /\ pc[s] = "idle" /\ lock = NoSweep
    /\ lock' = s
    /\ Goto(s, "collect")
    /\ UNCHANGED <<apps, needed, conf, at, seen, why, changes, failures>>

\* The marker says the app should be routed; the socket says it can be.
Visible(a) == Route(a) \in marker /\ a \in sock

\* (A slip: every app that is up gets its handler.)
ClaimsAnyway(s, a) == TRUE

\* The first app to claim a host wins.
Claims(s, a) == \A b \in seen[s] : Host(b) # Host(a)

\* collect_live_apps, one app at a time.
Collect(s) ==
    /\ pc[s] = "collect" /\ at[s] <= Len(Order)
    /\ LET a == Order[at[s]]
       IN seen' = [seen EXCEPT ![s] =
                      IF Visible(a) /\ Claims(s, a) THEN @ \cup {a} ELSE @]
    /\ at' = [at EXCEPT ![s] = @ + 1]
    /\ UNCHANGED <<apps, needed, conf, lock, pc, why, changes, failures>>

Collected(s) ==
    /\ pc[s] = "collect" /\ at[s] > Len(Order)
    /\ Goto(s, "write")
    /\ UNCHANGED <<apps, needed, conf, lock, at, seen, why, changes, failures>>

Fail == failures < MaxFailures /\ failures' = failures + 1

\* (A slip: nothing to write when no app is up.)
DiffersUnlessEmpty(s) == file # seen[s] /\ seen[s] # {}

\* The handlers are not the ones the file has; the header does not count.
Differs(s) == file # seen[s]

\* The file is only touched then.
WriteConfig(s) ==
    /\ pc[s] = "write"
    /\ \/ /\ ~Differs(s)
          /\ Goto(s, "retire") /\ UNCHANGED <<file, lock, at, seen, why, failures>>
       \/ /\ Differs(s)
          /\ file' = seen[s]
          /\ why' = [why EXCEPT ![s] = @ \cup {"written"}]
          /\ Goto(s, "retire") /\ UNCHANGED <<lock, at, seen, failures>>
       \/ /\ Differs(s)
          /\ Fail /\ Return(s) /\ UNCHANGED file
    /\ UNCHANGED <<apps, needed, legacy, loaded, changes>>

\* retire_legacy_include, once the new file is in place; the main
\* configuration may be unreadable.
Retire(s) ==
    /\ pc[s] = "retire"
    /\ \/ /\ legacy' = FALSE
          /\ why' = [why EXCEPT ![s] = IF legacy THEN @ \cup {"retired"} ELSE @]
          /\ Goto(s, "reload") /\ UNCHANGED <<lock, at, seen, failures>>
       \/ Fail /\ Return(s) /\ UNCHANGED legacy
    /\ UNCHANGED <<apps, needed, file, loaded, changes>>

\* (A slip: only a retired include line is a reason to reload.)
ReloadOnlyRetired(s) == "retired" \in why[s]

NeedsReload(s) == why[s] # {}

\* reload_web_server, when something changed; a failure returns with the
\* marker left for the next sweep.
Reload(s) ==
    /\ pc[s] = "reload"
    /\ \/ /\ ~NeedsReload(s)
          /\ Goto(s, "clear") /\ UNCHANGED <<loaded, lock, at, seen, why, failures>>
       \/ /\ NeedsReload(s)
          /\ loaded' = file
          /\ Goto(s, "clear") /\ UNCHANGED <<lock, at, seen, why, failures>>
       \/ /\ NeedsReload(s)
          /\ Fail /\ Return(s) /\ UNCHANGED loaded
    /\ UNCHANGED <<apps, needed, file, legacy, changes>>

\* "Cleared only once the config is in place and live."
ClearMarker(s) ==
    /\ pc[s] = "clear"
    /\ needed' = FALSE
    /\ Return(s)
    /\ UNCHANGED <<apps, conf, changes, failures>>

\* The sweep is killed; the kernel releases its lock.
Killed(s) ==
    /\ Killable
    /\ pc[s] # "idle"
    /\ Fail /\ Return(s)
    /\ UNCHANGED <<apps, needed, conf, changes>>

SweepStep(s) ==
    \/ Acquire(s) \/ Collect(s) \/ Collected(s) \/ WriteConfig(s)
    \/ Retire(s) \/ Reload(s) \/ ClearMarker(s)

Next ==
    \/ \E a \in Apps : Serve(a) \/ Withhold(a) \/ Publish(a) \/ Withdraw(a)
    \/ Signal
    \/ \E s \in Sweeps : SweepStep(s) \/ Killed(s)

\* The timer keeps starting sweeps and a started one is scheduled; a command
\* that changed a marker goes on to signal it.
Fairness == WF_vars(Signal) /\ \A s \in Sweeps : WF_vars(SweepStep(s))

Spec == Init /\ [][Next]_vars
FairSpec == Spec /\ Fairness

-----------------------------------------------------------------------------
(* Properties *)

\* What a sweep reloads, and clears the marker for, is the set it collected:
\* no other sweep rewrites the file between its write and its end ("two
\* rewrites at once would race over the same file", sync).
ReloadsWhatItCollected ==
    \A s \in Sweeps : pc[s] \in {"retire", "reload", "clear"} => file = seen[s]

\* The web server never reads two handlers of one name, whoever claims a host
\* and whenever (collect_live_apps).
OneHandlerPerHost ==
    \A a, b \in loaded : Host(a) = Host(b) => a = b

\* While no write, reload or sweep has failed, the server between two sweeps
\* runs what the file says: skipping the reload of an unchanged file (sync)
\* never leaves an older set being served.
ServesTheFile ==
    lock = NoSweep /\ failures = 0 => file \in {loaded, NoFile}

\* The apps a sweep would route if nothing moved: of those up on one host, the
\* first in order.
Wanted ==
    {Order[n] : n \in {k \in 1..Len(Order) :
        /\ Visible(Order[k])
        /\ \A m \in 1..(k - 1) : Visible(Order[m]) => Host(Order[m]) # Host(Order[k])}}

\* Once the apps stop coming and going, and unless a write, a reload or a sweep
\* failed, the server ends up routing exactly those that are up, although each
\* sweep read them one at a time while they moved, and a change signalled during
\* a sweep is erased by its end.
Converges == <>(failures > 0) \/ <>[](loaded = Wanted)

-----------------------------------------------------------------------------
(* What the comments say and the code does not do *)

\* The marker is "cleared only once the config is in place and live", so that
\* a failed reload is tried again by the next sweep (sync).
ClearedOnlyWhenLive == [][needed /\ ~needed' => loaded' = file']_vars
=============================================================================
