----------------------------- MODULE WebConfig -----------------------------
(***************************************************************************)
(* The installation on a server with OpenLiteSpeed: the panel's own tree,  *)
(* and the files it shares with the web server, DirectAdmin and the        *)
(* administrator.  Three write them: `setup` (install/setup.rs and         *)
(* webserver/ols.rs), `teardown` (install/teardown.rs), and the sync that  *)
(* the timer runs every 5 s, of which ProxySync has the rest.  `diagnose`  *)
(* (install/diagnose.rs) reads them all.                                   *)
(*                                                                         *)
(* A file is a sequence of lines, of which what matters is whose they are. *)
(* A shared file is read, edited, and renamed into place in another step:  *)
(* what anybody has put into it between the two is gone.  A file with no   *)
(* line in it is one that is not there.                                    *)
(***************************************************************************)
EXTENDS Integers, FiniteSets, SequencesExt

CONSTANTS
    MaxInstalls,  \* bound: setups and teardowns begun
    MaxOthers     \* bound: what others do, who add a line or have DirectAdmin or
                  \* CustomBuild rewrite or update the configuration

ASSUME BoundsAssumption == MaxInstalls \in Nat /\ MaxOthers \in Nat

\* The block's marks and what is between them; the include of conf.d/*.conf; the
\* panel's own include and its marks; anything of somebody else's.
Lines == {"begin", "block", "end", "dropin", "ibegin", "inc", "iend", "theirs"}

\* The accounts the panel serves requests of, recorded in its etc/.
Identities == {"da_user", "da_cgi_user", "ols_web_user"}

VARIABLES
    tree,        \* the plugin's tree: as it was extracted; root's; with its modes, but
                 \* for the binary's setuid; ready
    known,       \* the Identities recorded
    base,        \* the state directory of all accounts is there
    five, seven, \* DirectAdmin's CUSTOM.5 and CUSTOM.7 templates
    legible,     \* the templates are UTF-8, which reading them demands
    main,        \* httpd_config.conf
    confd,       \* conf.d is there
    datpl,       \* DirectAdmin's own template of main reads conf.d
    handlers,    \* where a handler file is: a subset of {"legacy", "dropin"}
    vhosts,      \* what the vhosts were generated with: "routed", "defines" or neither
    timer,       \* the panel's units are installed
    pc,          \* the step of setup or teardown
    okay,        \* nothing it has done has failed
    rebuilt,     \* rebuild_vhosts succeeded
    read,        \* what it has read of the file it is about to write
    sync, path,  \* the step of the sync, and where it will write
    syncread,    \* what it has read of main, and is about to write without the include
    installs, edits, rebuilds,
    alone        \* nobody else has been at the files since it began (history)

da    == <<legible, confd, datpl>>
files == <<five, seven, main, handlers, vhosts>>
own   == <<tree, known, base>>
local == <<pc, okay, rebuilt, read>>
syncs == <<sync, path, syncread>>
count == <<installs, edits, rebuilds>>
vars  == <<da, files, own, timer, local, syncs, count, alone>>

TypeOK ==
    /\ five \in Seq(Lines) /\ seven \in Seq(Lines) /\ main \in Seq(Lines)
    /\ read \in Seq(Lines) /\ syncread \in Seq(Lines)
    /\ legible \in BOOLEAN /\ confd \in BOOLEAN /\ datpl \in BOOLEAN
    /\ handlers \subseteq {"legacy", "dropin"} /\ vhosts \subseteq {"routed", "defines"}
    /\ timer \in BOOLEAN /\ okay \in BOOLEAN /\ rebuilt \in BOOLEAN /\ alone \in BOOLEAN
    /\ tree \in {"foreign", "owned", "moded", "ready"} /\ known \subseteq Identities
    /\ base \in BOOLEAN
    /\ pc \in {"idle", "s_accounts", "s_base", "s_chown", "s_modes", "s_setuid", "s_failed",
               "s_five", "s_five_w", "s_seven", "s_seven_w", "s_web_user", "s_rebuild",
               "s_include", "s_append", "s_retire", "s_units", "s_done",
               "t_units", "t_base", "t_five", "t_five_w", "t_seven", "t_seven_w", "t_main",
               "t_main_w", "t_files", "t_rebuild", "t_done"}
    /\ sync \in {"idle", "write", "retire", "rename"} /\ path \in {"legacy", "dropin"}
    /\ installs \in Nat /\ edits \in Nat /\ rebuilds \in Nat

-----------------------------------------------------------------------------
(* The edits *)

Has(lines, l) == \E k \in DOMAIN lines : lines[k] = l

\* The lines of a file that are among W.
Only(lines, W) ==
    LET only[k \in 0..Len(lines)] ==
            IF k = 0 THEN <<>>
            ELSE IF lines[k] \in W THEN Append(only[k - 1], lines[k]) ELSE only[k - 1]
    IN  only[Len(lines)]
Of(lines, l) == Only(lines, {l})

Block == <<"begin", "block", "end">>

\* The scan of strip_block and upsert_block: what is outside the marks.
Kept(lines) ==
    FoldLeft(LAMBDA scan, l :
                [inside |-> IF l = "begin" THEN TRUE ELSE IF l = "end" THEN FALSE ELSE scan.inside,
                 kept   |-> IF l \in {"begin", "end"} \/ scan.inside THEN scan.kept
                            ELSE Append(scan.kept, l)],
             [inside |-> FALSE, kept |-> <<>>], lines).kept

\* (A slip: the file is the panel's alone.)
UpsertAlone(lines) == Block

Upsert(lines) == Block \o Kept(lines)

ReadsDropIns == confd /\ Has(main, "dropin")

\* strip_legacy_include, and teardown's own filter, which knows the line but looks
\* for its marks in lower case.
StripInclude(lines) == Only(lines, Lines \ {"ibegin", "inc", "iend"})
FilterInclude(lines) == Only(lines, Lines \ {"inc"})

\* What a vhost generated from the templates as they are would have.
Generated == {v \in {"routed", "defines"} :
                 Has(IF v = "routed" THEN five ELSE seven, "block")}

\* rewrite_confs: DirectAdmin's own lines, and nothing else.
Regenerated == IF datpl THEN <<"dropin">> ELSE <<>>

-----------------------------------------------------------------------------

Goto(step) == pc' = step

\* A server as it may be found: with an older version at work, its block in the
\* templates and its handlers included in one way or the other, or lost; or with
\* none.  The Plugin Manager has just extracted the tree.
Init ==
    /\ legible \in BOOLEAN /\ datpl \in BOOLEAN /\ confd = datpl
    /\ \/ /\ legible /\ five = <<>> /\ seven = <<>> /\ main = Append(Regenerated, "theirs")
          /\ handlers = {} /\ vhosts = {} /\ base = FALSE
       \/ /\ five = <<"theirs", "begin", "block", "end", "theirs">>
          /\ seven \in {<<>>, <<"begin", "block", "end", "theirs">>}
          /\ \/ /\ main = Append(Regenerated, "theirs")
                /\ handlers \in {{}} \cup (IF datpl THEN {{"dropin"}} ELSE {})
             \/ /\ main = Regenerated \o <<"theirs", "ibegin", "inc", "iend">>
                /\ handlers = {"legacy"}
          /\ vhosts = Generated /\ base = TRUE
    /\ tree = "foreign" /\ known = {} /\ timer = base
    /\ pc = "idle" /\ okay = TRUE /\ rebuilt = FALSE /\ read = <<>>
    /\ sync = "idle" /\ path = "legacy" /\ syncread = <<>>
    /\ installs = 0 /\ edits = 0 /\ rebuilds = 0 /\ alone = TRUE

Begin(step) ==
    /\ pc = "idle" /\ installs < MaxInstalls /\ installs' = installs + 1
    /\ Goto(step) /\ okay' = TRUE /\ rebuilt' = FALSE
    /\ alone' = (sync = "idle")
    /\ UNCHANGED <<da, own, files, timer, read, syncs, edits, rebuilds>>

\* It has answered, or it is killed on the way.
End ==
    /\ pc # "idle" /\ Goto("idle")
    /\ okay' = TRUE /\ rebuilt' = FALSE /\ read' = <<>> /\ alone' = TRUE
    /\ UNCHANGED <<da, own, files, timer, syncs, count>>

-----------------------------------------------------------------------------
(* setup: the accounts, the state directory, the tree *)

Fail == Goto("s_failed") /\ okay' = FALSE

\* write_etc of da_user, da_uid and da_cgi_user, in this order.
SetupAccounts ==
    /\ pc = "s_accounts"
    /\ \/ known' = known \cup {"da_user", "da_cgi_user"} /\ Goto("s_base") /\ UNCHANGED okay
       \/ known' \in {known, known \cup {"da_user"}} /\ Fail
    /\ UNCHANGED <<da, files, tree, base, timer, rebuilt, read, syncs, count, alone>>

SetupBase ==
    /\ pc = "s_base"
    /\ \/ base' = TRUE /\ Goto("s_chown") /\ UNCHANGED okay
       \/ base' \in {base, TRUE} /\ Fail
    /\ UNCHANGED <<da, files, tree, known, timer, rebuilt, read, syncs, count, alone>>

\* chown_tree, which takes the setuid bit away.  Whatever fails from here to there
\* leaves the panel without it, until the next setup.
SetupChown ==
    /\ pc = "s_chown"
    /\ LET chowned == IF tree = "ready" THEN "moded" ELSE IF tree = "foreign" THEN "owned" ELSE tree
       IN  \/ tree' = chowned /\ Goto("s_modes") /\ UNCHANGED okay
           \/ tree' \in {tree, chowned} /\ Fail
    /\ UNCHANGED <<da, files, known, base, timer, rebuilt, read, syncs, count, alone>>

\* walk_dirs and walk: one path that resists is enough to end setup here.
SetupModes ==
    /\ pc = "s_modes"
    /\ \/ tree' = "moded" /\ Goto("s_setuid") /\ UNCHANGED okay
       \/ Fail /\ UNCHANGED tree
    /\ UNCHANGED <<da, files, known, base, timer, rebuilt, read, syncs, count, alone>>

\* (A slip: the binary is made setuid, then given to root.)
SetuidFirst ==
    /\ pc = "s_setuid"
    /\ \/ Goto("s_five") /\ UNCHANGED okay
       \/ Fail
    /\ UNCHANGED <<da, files, own, timer, rebuilt, read, syncs, count, alone>>

SetupSetuid ==
    /\ pc = "s_setuid"
    /\ \/ tree' = "ready" /\ Goto("s_five") /\ UNCHANGED okay
       \/ Fail /\ UNCHANGED tree
    /\ UNCHANGED <<da, files, known, base, timer, rebuilt, read, syncs, count, alone>>

-----------------------------------------------------------------------------
(* setup: ols::run, then units::install *)

\* upsert_block takes what it cannot read for an empty file.  A template that cannot
\* be written, or not given its mode, ends the wiring of the web server, but not
\* setup, which goes on to the units.
SetupFive ==
    /\ pc = "s_five"
    /\ read' = (IF legible THEN five ELSE <<>>) /\ Goto("s_five_w")
    /\ UNCHANGED <<da, own, files, timer, okay, rebuilt, syncs, count, alone>>

SetupFiveWrite ==
    /\ pc = "s_five_w" /\ read' = <<>>
    /\ \/ five' = Upsert(read) /\ Goto("s_seven") /\ UNCHANGED okay
       \/ five' \in {five, Upsert(read)} /\ okay' = FALSE /\ Goto("s_units")
    /\ UNCHANGED <<da, own, seven, main, handlers, vhosts, timer, rebuilt, syncs, count, alone>>

\* strip_block leaves what it cannot read, and says nothing of it.
StripRead(step, lines, write, next) ==
    /\ pc = step
    /\ IF legible /\ lines # <<>>
       THEN read' = lines /\ Goto(write)
       ELSE Goto(next) /\ UNCHANGED read
    /\ UNCHANGED <<da, own, files, timer, okay, rebuilt, syncs, count, alone>>

\* Whether the old block could be taken out is not asked.
SetupSeven == StripRead("s_seven", seven, "s_seven_w", "s_web_user")

SetupSevenWrite ==
    /\ pc = "s_seven_w" /\ read' = <<>>
    /\ \/ seven' = Kept(read) /\ UNCHANGED okay
       \/ okay' = FALSE /\ UNCHANGED seven
    /\ Goto("s_web_user")
    /\ UNCHANGED <<da, own, five, main, handlers, vhosts, timer, rebuilt, syncs, count, alone>>

SetupWebUser ==
    /\ pc = "s_web_user"
    /\ \/ known' = known \cup {"ols_web_user"} /\ Goto("s_rebuild") /\ UNCHANGED okay
       \/ okay' = FALSE /\ Goto("s_units") /\ UNCHANGED known
    /\ UNCHANGED <<da, files, tree, base, timer, rebuilt, read, syncs, count, alone>>

\* rebuild_vhosts.
Rebuild(step, next) ==
    /\ pc = step
    /\ \/ vhosts' = Generated /\ main' = Regenerated /\ rebuilt' = TRUE
       \/ rebuilt' = FALSE /\ UNCHANGED <<vhosts, main>>
    /\ Goto(next)
    /\ UNCHANGED <<da, own, five, seven, handlers, timer, okay, read, syncs, count, alone>>

\* retire_legacy_include rewrites main only if the line is in it.
NothingToRetire == ReadsDropIns /\ ~Has(main, "inc")

\* (A slip: nothing is added where the include is missing, only the old one retired.)
IncludeRetiredOnly ==
    /\ pc = "s_include"
    /\ IF ReadsDropIns /\ Has(main, "inc")
       THEN read' = main /\ Goto("s_retire") ELSE Goto("s_units") /\ UNCHANGED read
    /\ handlers' = IF NothingToRetire THEN handlers \ {"legacy"} ELSE handlers
    /\ UNCHANGED <<da, own, five, seven, main, vhosts, timer, okay, rebuilt, syncs, count, alone>>

\* ensure_include, as far as it reads.
SetupInclude ==
    /\ pc = "s_include"
    /\ \/ /\ ReadsDropIns /\ Has(main, "inc")
          /\ read' = main /\ Goto("s_retire") /\ UNCHANGED <<handlers, okay>>
       \/ /\ NothingToRetire
          /\ handlers' = handlers \ {"legacy"} /\ Goto("s_units") /\ UNCHANGED <<read, okay>>
       \/ /\ ~ReadsDropIns /\ ~Has(main, "inc")
          /\ read' = main /\ Goto("s_append") /\ UNCHANGED <<handlers, okay>>
       \/ /\ ~ReadsDropIns /\ Has(main, "inc")
          /\ Goto("s_units") /\ UNCHANGED <<read, handlers, okay>>
       \/ okay' = FALSE /\ Goto("s_units") /\ UNCHANGED <<read, handlers>>
    /\ UNCHANGED <<da, own, five, seven, main, vhosts, timer, rebuilt, syncs, count, alone>>

SetupIncludeWrite ==
    /\ pc \in {"s_append", "s_retire"} /\ read' = <<>>
    /\ \/ /\ pc = "s_append" /\ main' = read \o <<"ibegin", "inc", "iend">>
          /\ UNCHANGED <<handlers, okay>>
       \/ /\ pc = "s_retire" /\ main' = StripInclude(read)
          /\ handlers' = handlers \ {"legacy"} /\ UNCHANGED okay
       \/ okay' = FALSE /\ UNCHANGED <<main, handlers>>
    /\ Goto("s_units")
    /\ UNCHANGED <<da, own, five, seven, vhosts, timer, rebuilt, syncs, count, alone>>

\* A unit that cannot be written is passed over, and systemctl's word not listened to.
SetupUnits ==
    /\ pc = "s_units"
    /\ \/ timer' = TRUE /\ UNCHANGED okay
       \/ timer' \in {timer, TRUE} /\ okay' = FALSE
    /\ Goto("s_done")
    /\ UNCHANGED <<da, own, files, rebuilt, read, syncs, count, alone>>

-----------------------------------------------------------------------------
(* teardown *)

\* The units go first: the sync's service, and with it a sync under way, then its
\* timer, which may have begun another.
TearUnits ==
    /\ pc = "t_units"
    /\ \/ timer' = FALSE /\ UNCHANGED okay
       \/ okay' = FALSE /\ UNCHANGED timer
    /\ \/ sync' = "idle" /\ path' = "legacy" /\ syncread' = <<>>
       \/ UNCHANGED syncs
    /\ Goto("t_base")
    /\ UNCHANGED <<da, own, files, rebuilt, read, count, alone>>

\* The apps are stopped and the bind guard detached (BindGuard has both), then the
\* accounts' state goes, or what of it can be removed.
TearBase ==
    /\ pc = "t_base"
    /\ \/ base' = FALSE /\ UNCHANGED okay
       \/ okay' = FALSE /\ UNCHANGED base
    /\ Goto("t_five")
    /\ UNCHANGED <<da, files, tree, known, timer, rebuilt, read, syncs, count, alone>>

TearFive == StripRead("t_five", five, "t_five_w", "t_seven")

TearFiveWrite ==
    /\ pc = "t_five_w" /\ read' = <<>>
    /\ \/ five' = Kept(read) /\ UNCHANGED okay
       \/ okay' = FALSE /\ UNCHANGED five
    /\ Goto("t_seven")
    /\ UNCHANGED <<da, own, seven, main, handlers, vhosts, timer, rebuilt, syncs, count, alone>>

TearSeven == StripRead("t_seven", seven, "t_seven_w", "t_main")

TearSevenWrite ==
    /\ pc = "t_seven_w" /\ read' = <<>>
    /\ \/ seven' = Kept(read) /\ UNCHANGED okay
       \/ okay' = FALSE /\ UNCHANGED seven
    /\ Goto("t_main")
    /\ UNCHANGED <<da, own, five, main, handlers, vhosts, timer, rebuilt, syncs, count, alone>>

TearMain ==
    /\ pc = "t_main"
    /\ IF Has(main, "inc")
       THEN read' = main /\ Goto("t_main_w")
       ELSE Goto("t_files") /\ UNCHANGED read
    /\ UNCHANGED <<da, own, files, timer, okay, rebuilt, syncs, count, alone>>

TearMainWrite ==
    /\ pc = "t_main_w" /\ read' = <<>>
    /\ \/ main' = FilterInclude(read) /\ UNCHANGED okay
       \/ okay' = FALSE /\ UNCHANGED main
    /\ Goto("t_files")
    /\ UNCHANGED <<da, own, five, seven, handlers, vhosts, timer, rebuilt, syncs, count, alone>>

\* (A slip: only the layout of the day is cleaned up.)
FilesOfLayout ==
    /\ pc = "t_files"
    /\ handlers' = handlers \ {IF ReadsDropIns THEN "dropin" ELSE "legacy"}
    /\ Goto("t_rebuild")
    /\ UNCHANGED <<da, own, five, seven, main, vhosts, timer, okay, rebuilt, read, syncs, count, alone>>

\* Both layouts' files; one that resists is reported.
TearFiles ==
    /\ pc = "t_files"
    /\ \E stay \in SUBSET handlers :
          /\ handlers' = stay
          /\ okay' = (okay /\ stay = {})
    /\ Goto("t_rebuild")
    /\ UNCHANGED <<da, own, five, seven, main, vhosts, timer, rebuilt, read, syncs, count, alone>>

-----------------------------------------------------------------------------
(* The sync (proxysync::sync) *)

\* Its lock is a file of the state directory.
SyncBegin ==
    /\ sync = "idle" /\ timer /\ base
    /\ path' = IF ReadsDropIns THEN "dropin" ELSE "legacy"
    /\ sync' = "write"
    /\ alone' = (alone /\ pc \notin {"t_units", "t_base", "t_five", "t_five_w", "t_seven",
                                     "t_seven_w", "t_main", "t_main_w", "t_files", "t_rebuild",
                                     "t_done"})
    /\ UNCHANGED <<da, own, files, timer, local, syncread, count>>

\* write_config, into a conf.d that may be gone.
SyncWrite ==
    /\ sync = "write"
    /\ IF path = "dropin" /\ ~confd
       THEN sync' = "idle" /\ UNCHANGED handlers
       ELSE handlers' = handlers \cup {path} /\ sync' = "retire"
    /\ path' = "legacy"
    /\ UNCHANGED <<da, own, five, seven, main, vhosts, timer, local, syncread, count, alone>>

\* (A slip: the old file is deleted, the line that includes it is forgotten.)
RetireFile ==
    /\ sync = "retire" /\ sync' = "idle"
    /\ IF ReadsDropIns THEN handlers' = handlers \ {"legacy"} ELSE UNCHANGED handlers
    /\ UNCHANGED <<da, own, five, seven, main, vhosts, timer, local, path, syncread, count, alone>>

\* retire_legacy_include, only after the new file is in place.
SyncRetire ==
    /\ sync = "retire"
    /\ IF ReadsDropIns /\ Has(main, "inc")
       THEN syncread' = main /\ sync' = "rename"
       ELSE sync' = "idle" /\ UNCHANGED syncread
    /\ handlers' = IF NothingToRetire THEN handlers \ {"legacy"} ELSE handlers
    /\ UNCHANGED <<da, own, five, seven, main, vhosts, timer, local, path, count, alone>>

SyncRename ==
    /\ sync = "rename" /\ sync' = "idle"
    /\ main' = StripInclude(syncread) /\ syncread' = <<>> /\ handlers' = handlers \ {"legacy"}
    /\ UNCHANGED <<da, own, five, seven, vhosts, timer, local, path, count, alone>>

Sync == SyncBegin \/ SyncWrite \/ SyncRetire \/ SyncRename

-----------------------------------------------------------------------------
(* Everyone else *)

\* CustomBuild or an administrator has the configuration regenerated, perhaps by a
\* DirectAdmin that has learnt of conf.d in the meantime.
Regenerate ==
    /\ edits + rebuilds < MaxOthers /\ rebuilds' = rebuilds + 1
    /\ \/ UNCHANGED <<datpl, confd>> /\ main' = Regenerated
       \/ datpl' = TRUE /\ confd' = TRUE /\ main' = <<"dropin">>
       \/ datpl' = TRUE /\ confd' = TRUE /\ main' = <<"dropin">> \o Of(main, "inc")
    /\ vhosts' = Generated /\ alone' = (alone /\ pc = "idle")
    /\ UNCHANGED <<legible, own, five, seven, handlers, timer, local, syncs, installs, edits>>

\* Somebody adds a line of their own, outside the panel's block.
Edit ==
    /\ edits + rebuilds < MaxOthers /\ edits' = edits + 1
    /\ \/ five' \in {<<"theirs">> \o five, Append(five, "theirs")} /\ UNCHANGED main
       \/ main' \in {<<"theirs">> \o main, Append(main, "theirs")} /\ UNCHANGED five
    /\ UNCHANGED <<da, own, seven, handlers, vhosts, timer, local, syncs, installs, rebuilds, alone>>

Setup == SetupAccounts \/ SetupBase \/ SetupChown \/ SetupModes \/ SetupSetuid
         \/ SetupFive \/ SetupFiveWrite \/ SetupSeven \/ SetupSevenWrite \/ SetupWebUser
         \/ Rebuild("s_rebuild", "s_include") \/ SetupInclude \/ SetupIncludeWrite \/ SetupUnits
Teardown == TearUnits \/ TearBase \/ TearFive \/ TearFiveWrite \/ TearSeven
            \/ TearSevenWrite \/ TearMain \/ TearMainWrite \/ TearFiles
            \/ Rebuild("t_rebuild", "t_done")

Next ==
    \/ Begin("s_accounts") \/ Begin("t_units") \/ Setup \/ Teardown \/ End
    \/ Sync \/ Regenerate \/ Edit

\* The timer.
Spec == Init /\ [][Next]_vars /\ WF_vars(Sync)

-----------------------------------------------------------------------------
(* diagnose.rs *)

\* check_templates, of what it can read.
TemplateComplaints ==
    IF ~(legible /\ Has(five, "begin")) THEN {"templates_missing"}
    ELSE IF Has(seven, "begin") THEN {"templates_legacy"} ELSE {}

\* check_proxy_config.
ProxyComplaints ==
    (IF (IF ReadsDropIns THEN "dropin" ELSE "legacy") \notin handlers
     THEN {"extproc_missing"} ELSE {})
    \cup (IF ~ReadsDropIns /\ ~Has(main, "inc") THEN {"include_missing"} ELSE {})
    \cup (IF vhosts = {} THEN {"vhosts_unpatched"} ELSE {})

\* The checks of an installation, each with the key it complains under.
Complaints ==
    (IF tree # "ready" THEN {"binary_perms"} ELSE {})
    \cup (IF tree = "foreign" THEN {"ownership_bad"} ELSE {})
    \cup (IF tree \in {"foreign", "owned"} THEN {"permissions_bad"} ELSE {})
    \cup (IF known # Identities THEN {"identity_bad"} ELSE {})
    \cup (IF ~base THEN {"state_missing"} ELSE {})
    \cup TemplateComplaints \cup ProxyComplaints
    \cup (IF ~timer THEN {"service_missing"} ELSE {})

-----------------------------------------------------------------------------
(* Properties *)

\* Setup, teardown and sync take nothing of other people's out of the files they
\* share, as long as those can be read and nobody else wrote the file between its
\* reading and its renaming ("customisations that are not ours ... have to outlive the
\* uninstall", ols.rs).
Keeps(lines, new, asRead) == Of(new, "theirs") = Of(lines, "theirs") \/ lines # asRead

TheirsSurvive ==
    [][legible /\ rebuilds' = rebuilds /\ edits' = edits =>
          /\ Keeps(five, five', read) /\ Keeps(seven, seven', read)
          /\ pc \notin {"s_rebuild", "t_rebuild"} =>
                Keeps(main, main', IF sync' # sync THEN syncread ELSE read)]_vars

\* "Everything that is not ours, so a customisation someone else added to the same
\* template survives": whenever it was added (webserver/ols.rs:218-219).
AddedLinesSurvive ==
    [][legible /\ edits' = edits =>
          Of(five', "theirs") = Of(five, "theirs") /\ Of(seven', "theirs") = Of(seven, "theirs")]_vars

\* After a setup in which nothing failed, with DirectAdmin quiet, the diagnosis
\* misses at most the first sync's file; every vhost routes once, nothing defines a
\* handler a second time, and the handlers are read, from one place, which the
\* diagnosis does not ask: with the include written before the rebuild, or the
\* tree's modes set before it is root's, it would not be so.
SetupServes ==
    pc = "s_done" /\ okay /\ rebuilt /\ alone /\ legible =>
        /\ Complaints \subseteq {"extproc_missing"}
        /\ Of(five, "begin") = <<"begin">> /\ ~Has(seven, "begin")
        /\ vhosts = {"routed"}
        /\ ReadsDropIns \/ Has(main, "inc")
        /\ ~(ReadsDropIns /\ Has(main, "inc"))

\* After a teardown in which nothing failed, with nobody else at the files, nothing
\* routes to the panel or names its files, whichever layouts the server has gone
\* through ("leaving the server as it was", teardown.rs; the comment lines around
\* the include do stay).
TeardownLeavesNothing ==
    pc = "t_done" /\ okay /\ rebuilt /\ alone /\ legible =>
        /\ ~Has(five, "begin") /\ ~Has(five, "block") /\ ~Has(seven, "block")
        /\ vhosts = {} /\ handlers = {} /\ ~Has(main, "inc") /\ ~timer /\ ~base

\* A server that reads conf.d comes to read the handlers from there, and only from
\* there, without anyone running setup (proxysync.rs sync; retire_legacy_include).
DropInTakesOver ==
    (timer /\ base /\ ReadsDropIns) ~>
        (("dropin" \in handlers /\ ~Has(main, "inc")) \/ ~(timer /\ base /\ ReadsDropIns))
=============================================================================
