-------------------------------- MODULE Startup --------------------------------
(***************************************************************************)
(* From the configuration file to a line on the wire: main reads,          *)
(* validates and applies the file, spawns the tasks, binds the HTTP port   *)
(* and installs its signal handlers; SIGHUP replaces what is shown;        *)
(* aprsis_task reads the same configuration, logs in and writes.  Around   *)
(* it, the operator who edits the file and the service manager that        *)
(* restarts the process after a failure (deploy/rtpigate.service).         *)
(*                                                                         *)
(* How the tasks reconnect and shut down is in Lifecycle.                  *)
(***************************************************************************)
EXTENDS Naturals

CONSTANTS
    Files,      \* what the configuration file may hold: Configs, or Unreadable
    Unreadable, \* a file that is missing or is not the TOML of a Config
    NoConfig    \* what there is of a configuration while no process runs

Axes  == {"lat", "lon", "alt"}
Flaws == {"group", "port", "range", "parent", "history", "listen"}

(***************************************************************************)
(* A configuration, by what the code tells apart.  "flaws" are the values  *)
(* that validate refuses whatever the rest says; None and Some(false) of   *)
(* the switches are read alike; a passcode that does not parse is a wrong  *)
(* one; a coordinate is absent, one that positpacket refuses ("void": zero *)
(* or, of an altitude, less), or good; an interval is zero or not.         *)
(***************************************************************************)
Configs ==
    [callsign : {"none", "empty", "set"}, flaws : SUBSET Flaws,
     enabled : BOOLEAN, host : {"none", "empty", "set"}, aprsPort : BOOLEAN,
     igating : BOOLEAN, beaconing : BOOLEAN,
     passcode : {"none", "wrong", "right"},
     source : {"Config", "Gpsd"}, place : [Axes -> {"none", "void", "good"}],
     threshold : {"zero", "positive"}, minBeacon : {"zero", "positive"},
     moveBy : {"zero", "positive"}]

ASSUME StartupAssumption ==
    /\ {Unreadable, NoConfig} \cap Configs = {}
    /\ Unreadable # NoConfig
    /\ Files \subseteq Configs \cup {Unreadable}

VARIABLES
    file,    \* the configuration file
    able,    \* can the store be opened and the HTTP port be bound?
    main,    \* see Mains
    used,    \* the Arc<Config> of this run
    shown,   \* the PublicConfig behind /api/config
    tasks,   \* the tasks that run
    link,    \* where aprsis_task is (see Links)
    pass,    \* the passcode of the login line sent in this session
    reply,   \* the server's answer to it
    wrote,   \* what this session has written
    quit     \* history: was the last run told to end, or did it lose a task?

vars == <<file, able, main, used, shown, tasks, link, pass, reply, wrote, quit>>

session == <<pass, reply, wrote>>

\* "off": the process is to be started, or reads its file and opens the store;
\* "spawned": the tasks run, the port is not bound and no signal handler is installed;
\* "serving": main is in its loop; "stopped": nobody will start the process again.
Mains == {"off", "spawned", "serving", "stopped"}

\* "none": there is no aprsis_task; "starting": it reads its configuration; "down":
\* it has no connection; "connected": it waits for the banner; "sent": it waits for
\* the answer to the login line; "up": in a session.
Links == {"none", "starting", "down", "connected", "sent", "up"}

-----------------------------------------------------------------------------
(* config.rs.                                                              *)

\* A mutant: a fixed position is not asked for.
M_validate(c) ==
    (IF c.callsign # "set" THEN {"callsign"} ELSE {})
    \cup c.flaws
    \cup (IF c.enabled /\ c.host # "set" THEN {"host"} ELSE {})
    \cup (IF c.enabled /\ ~c.aprsPort THEN {"aprsPort"} ELSE {})
    \cup (IF c.source = "Gpsd" /\ c.moveBy = "zero" THEN {"moveBy"} ELSE {})
    \cup (IF c.source = "Gpsd" /\ c.minBeacon = "zero" THEN {"minBeacon"} ELSE {})

\* The errors of a configuration; none means that it is valid.
validate(c) ==
    (IF c.callsign # "set" THEN {"callsign"} ELSE {})
    \cup c.flaws
    \cup (IF c.enabled /\ c.host # "set" THEN {"host"} ELSE {})
    \cup (IF c.enabled /\ ~c.aprsPort THEN {"aprsPort"} ELSE {})
    \cup (IF c.enabled /\ c.beaconing /\ c.source = "Config"
          THEN {a \in Axes : c.place[a] = "none"} ELSE {})
    \cup (IF c.source = "Gpsd" /\ c.moveBy = "zero" THEN {"moveBy"} ELSE {})
    \cup (IF c.source = "Gpsd" /\ c.minBeacon = "zero" THEN {"minBeacon"} ELSE {})

\* Config::from_file succeeds and the result is valid.
Valid(f) == f # Unreadable /\ validate(f) = {}

\* The passcode is the one compute_passcode gives for the callsign.
passcode_isvalid(c) == c.passcode = "right"

\* The passcode the login line carries: the configured one only if it is valid.
aprsis_login_string(c) == IF passcode_isvalid(c) THEN "passcode" ELSE "-1"

\* A mutant: the configuration is published as it is.
M_to_public(c) == c

\* What the browsers may see: no passcode, and the GPSD settings (of which only
\* the intervals are kept here) only if GPSD is the source.
to_public(c) ==
    [callsign |-> c.callsign, place |-> c.place, source |-> c.source,
     enabled |-> c.enabled, host |-> c.host, aprsPort |-> c.aprsPort,
     igating |-> c.igating, beaconing |-> c.beaconing,
     threshold |-> c.threshold,
     gpsd |-> IF c.source = "Gpsd" THEN <<c.moveBy, c.minBeacon>> ELSE <<>>]

-----------------------------------------------------------------------------
(* main.                                                                   *)

\* Igating or beaconing over APRS-IS asks for a verified login.
NeedsWrite(c) == c.enabled /\ (c.igating \/ c.beaconing)

\* The checks main makes before it opens the store.
Startable(f) ==
    /\ Valid(f)
    /\ NeedsWrite(f) => passcode_isvalid(f)

\* The tasks main spawns.
Wanted(c) == {"listener", "sse"}
             \cup (IF c.enabled THEN {"aprsis"} ELSE {})
             \cup (IF c.source = "Gpsd" THEN {"gpsd"} ELSE {})

Init ==
    /\ file \in Files
    /\ able \in BOOLEAN
    /\ main = "off"
    /\ used = NoConfig
    /\ shown = NoConfig
    /\ tasks = {}
    /\ link = "none"
    /\ pass = "none" /\ reply = "none" /\ wrote = {}
    /\ quit = FALSE

\* aprsis_task has no open connection any more; where it goes is l.
NoSession(l) ==
    /\ link' = l
    /\ pass' = "none" /\ reply' = "none" /\ wrote' = {}

\* The process is gone and all its tasks with it; then is what the service
\* manager makes of its exit status.
Gone(then) ==
    /\ main' = then
    /\ used' = NoConfig
    /\ shown' = NoConfig
    /\ tasks' = {}
    /\ NoSession("none")
    /\ UNCHANGED <<file, able>>

\* Restart=on-failure: status 1 has the process started again, status 0 (and death
\* by SIGHUP, SIGINT or SIGTERM, which count as clean) has not.
Failure == "off"
Clean   == "stopped"

\* The file cannot be read, is not valid, needs a passcode it does not have, or the
\* store does not open.
BootFails ==
    /\ main = "off"
    /\ ~Startable(file) \/ ~able
    /\ Gone(Failure)
    /\ UNCHANGED quit

\* The configuration is accepted: the store is open and the tasks are spawned.
Boot ==
    /\ main = "off"
    /\ Startable(file)
    /\ able
    /\ main' = "spawned"
    /\ used' = file
    /\ tasks' = Wanted(file)
    /\ link' = IF file.enabled THEN "starting" ELSE "none"
    /\ UNCHANGED <<quit, file, able, shown, session>>

\* The port is bound, the handlers are installed, and main enters its loop.
Bind ==
    /\ main = "spawned"
    /\ able
    /\ main' = "serving"
    /\ shown' = to_public(used)
    /\ UNCHANGED <<quit, file, able, used, tasks, link, session>>

\* A mutant: main logs the error and returns Ok.
M_BindFails ==
    /\ main = "spawned"
    /\ ~able
    /\ Gone(Clean)
    /\ UNCHANGED quit

\* bind fails: main returns the error and the tasks are dropped as they stand.
BindFails ==
    /\ main = "spawned"
    /\ ~able
    /\ Gone(Failure)
    /\ UNCHANGED quit

\* SIGHUP in the loop: a file that reads and validates replaces what is shown, one
\* that does not changes nothing.
Reload ==
    /\ main = "serving"
    /\ shown' = IF Valid(file) THEN to_public(file) ELSE shown
    /\ UNCHANGED <<quit, file, able, main, used, tasks, link, session>>

\* SIGHUP before the handler is installed ends the process, also while it reads its
\* file or opens the store.
HangupTooEarly ==
    /\ main \in {"off", "spawned"}
    /\ Gone(Clean)
    /\ quit' = TRUE

\* SIGTERM or SIGINT, in the loop (a graceful shutdown) or before it.
Terminate ==
    /\ main # "stopped"
    /\ Gone(Clean)
    /\ quit' = TRUE

\* main joins a task that has ended on its own, shuts down and returns Ok.
TaskLost ==
    /\ main = "serving"
    /\ tasks # Wanted(used)
    /\ Gone(Clean)
    /\ quit' = TRUE

-----------------------------------------------------------------------------
(* aprsis_task.                                                            *)

\* Fields without which aprsis_task returns an error before its first attempt.
LacksField(c) == c.host = "none" \/ ~c.aprsPort \/ c.callsign = "none"

\* Intervals of zero length, which tokio's interval panics on.
ZeroInterval(c) == c.threshold = "zero" \/ c.minBeacon = "zero"

\* The task ends before its loop.
AprsisQuits ==
    /\ link = "starting"
    /\ LacksField(used) \/ ZeroInterval(used)
    /\ tasks' = tasks \ {"aprsis"}
    /\ NoSession("none")
    /\ UNCHANGED <<quit, file, able, main, used, shown>>

AprsisStarts ==
    /\ link = "starting"
    /\ ~LacksField(used) /\ ~ZeroInterval(used)
    /\ link' = "down"
    /\ UNCHANGED <<quit, file, able, main, used, shown, tasks, session>>

Connect ==
    /\ link = "down"
    /\ link' = "connected"
    /\ UNCHANGED <<quit, file, able, main, used, shown, tasks, session>>

\* The server's banner is read and the login line written.
SendLogin ==
    /\ link = "connected"
    /\ link' = "sent"
    /\ pass' = aprsis_login_string(used)
    /\ UNCHANGED <<quit, file, able, main, used, shown, tasks, reply, wrote>>

\* What the server may answer: any line, whoever logs in.
Replies == {"verified", "unverified", "other"}

\* A mutant: "unverified" contains "verified".
M_Accepts(c, r) == passcode_isvalid(c) => r # "other"

\* login_to_aprsis returns true: a read-write login insists on "verified".
Accepts(c, r) == passcode_isvalid(c) => r = "verified"

LoginAccepted ==
    /\ link = "sent"
    /\ reply' \in {r \in Replies : Accepts(used, r)}
    /\ link' = "up"
    /\ UNCHANGED <<quit, file, able, main, used, shown, tasks, pass, wrote>>

LoginRefused ==
    /\ link = "sent"
    /\ \E r \in Replies : ~Accepts(used, r)
    /\ NoSession("down")
    /\ UNCHANGED <<quit, file, able, main, used, shown, tasks>>

\* A timeout, an error, or the server closes the connection.
LinkDrops ==
    /\ link \in {"connected", "sent", "up"}
    /\ NoSession("down")
    /\ UNCHANGED <<quit, file, able, main, used, shown, tasks>>

\* A packet is gated.
GatePacket ==
    /\ link = "up"
    /\ used.igating /\ passcode_isvalid(used)
    /\ wrote' = wrote \cup {"packet"}
    /\ UNCHANGED <<quit, file, able, main, used, shown, tasks, link, pass, reply>>

\* positpacket makes a line of the configured place.
HasPosition(c) == \A a \in Axes : c.place[a] = "good"

\* The threshold tick: a position beacon, unless positpacket refuses the place (the
\* position of a GPSD station is the fix, which Beacon models), and a report.
SendBeacon ==
    /\ link = "up"
    /\ used.beaconing /\ passcode_isvalid(used)
    /\ wrote' = wrote \cup {"report"}
                \cup (IF used.source = "Gpsd" \/ HasPosition(used)
                      THEN {"position"} ELSE {})
    /\ UNCHANGED <<quit, file, able, main, used, shown, tasks, link, pass, reply>>

-----------------------------------------------------------------------------
(* The world around the process (external).                                *)

EditFile ==
    /\ file' \in Files \ {file}
    /\ UNCHANGED <<quit, able, main, used, shown, tasks, link, session>>

\* The disk, the lock on the database or the port becomes unusable, or usable.
HostChanges ==
    /\ able' = ~able
    /\ UNCHANGED <<quit, file, main, used, shown, tasks, link, session>>

\* systemctl start, after the operator's stop or a silent one.
StartService ==
    /\ main = "stopped"
    /\ main' = "off"
    /\ quit' = FALSE
    /\ UNCHANGED <<file, able, used, shown, tasks, link, session>>

\* A task other than aprsis_task ends on its own (one of them: main leaves its loop
\* on the first).
OtherTaskEnds ==
    /\ {"listener", "sse"} \subseteq tasks
    /\ \E t \in tasks \ {"aprsis"} : tasks' = tasks \ {t}
    /\ UNCHANGED <<quit, file, able, main, used, shown, link, session>>

Next ==
    \/ Boot \/ BootFails \/ Bind \/ BindFails
    \/ Reload \/ HangupTooEarly \/ Terminate \/ TaskLost
    \/ AprsisQuits \/ AprsisStarts \/ Connect \/ SendLogin
    \/ LoginAccepted \/ LoginRefused \/ LinkDrops \/ GatePacket \/ SendBeacon
    \/ EditFile \/ HostChanges \/ StartService \/ OtherTaskEnds

(***************************************************************************)
(* Fairness: the service manager starts a failed process after RestartSec, *)
(* main runs to its loop or returns, and its select! sees an ended task.   *)
(***************************************************************************)
Fairness == WF_vars(Boot) /\ WF_vars(Bind \/ BindFails) /\ WF_vars(TaskLost)

Spec == Init /\ [][Next]_vars /\ Fairness

-----------------------------------------------------------------------------
(* Properties.                                                             *)

\* The fields of PublicConfig and AprsisConfigPublic.
PublicFields == {"callsign", "place", "source", "enabled", "host", "aprsPort",
                 "igating", "beaconing", "threshold", "gpsd"}

\* The types of the variables; in particular no passcode is ever shown.
TypeOK ==
    /\ file \in Files
    /\ able \in BOOLEAN
    /\ main \in Mains
    /\ used \in (Files \ {Unreadable}) \cup {NoConfig}
    /\ shown = NoConfig \/ DOMAIN shown = PublicFields
    /\ tasks \subseteq {"listener", "sse", "aprsis", "gpsd"}
    /\ link \in Links
    /\ pass \in {"none", "passcode", "-1"}
    /\ reply \in Replies \cup {"none"}
    /\ wrote \subseteq {"packet", "position", "report"}
    /\ quit \in BOOLEAN

\* A line leaves the station only if the configuration the run was started with asks
\* for it and carries the callsign's passcode, that passcode was sent in this very
\* session, and the server answered that it is verified - whatever the file says by
\* now, whatever a reload shows, however often the session was set up again.
WritesVerified ==
    wrote # {} =>
        /\ pass = "passcode"
        /\ reply = "verified"
        /\ used.passcode = "right"
        /\ "packet" \in wrote => used.igating
        /\ wrote \ {"packet"} # {} => used.beaconing

\* A running aprsis_task has what its configuration asks for: validate and main have
\* refused every file that lacks a field the task would give up on, a position for the
\* beacon of a fixed station (of any value), or the passcode that gating and beaconing
\* need.
RunsAsConfigured ==
    link # "none" =>
        /\ ~LacksField(used)
        /\ (used.igating \/ used.beaconing) => aprsis_login_string(used) # "-1"
        /\ (used.beaconing /\ used.source = "Config")
           => \A a \in Axes : used.place[a] # "none"

\* A service that fails because of its configuration, its disk or its port comes back
\* once they are repaired, without anybody starting it, and goes on serving: a start
\* that fails never leaves it stopped.  Only a signal or a lost task does.
RepairedServes ==
    <>[](Startable(file) /\ able /\ ~quit) => <>[](main = "serving")

-----------------------------------------------------------------------------
(* What the repository's documents say and the code does not keep; README  *)
(* tells how each one fails.                                               *)

\* README: the dashboard displays the active configuration, live on SIGHUP.
ShownIsActive == main = "serving" => shown = to_public(used)

\* README: a passcode that is invalid for igating or beaconing is a validation error.
\* A reload accepts such a file; the next start refuses it.
AcceptedStarts ==
    [][(main = "serving" /\ main' = "serving" /\ shown' # shown)
       => Startable(file)]_vars

\* validate: "An empty list means the config is valid"; and of the move interval:
\* "Harmless when source != Gpsd".  A zero interval ends aprsis_task.
ValidRuns == main = "serving" => (used.enabled => link # "none")

\* A station at or below sea level is valid and never beacons.
BeaconsPosition == "report" \in wrote => "position" \in wrote

\* Restart=on-failure: a run that loses a task is started again.  It ends with
\* status 0, and is not.
LostTaskRestarted ==
    (main = "serving" /\ tasks # Wanted(used)) ~> (main \in {"off", "spawned"})
=============================================================================
