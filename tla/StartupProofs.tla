---------------------------- MODULE StartupProofs ----------------------------
(***************************************************************************)
(* Theorems about Startup, for any set of configuration files.             *)
(*                                                                         *)
(* What has to be carried along is where the session stands: the           *)
(* configuration of a run was accepted by main when it started and never   *)
(* changes, whatever becomes of the file; and what the session sent, was   *)
(* answered and wrote belongs to the state the link is in.                 *)
(***************************************************************************)
EXTENDS Startup, TLAPS

\* A process that does not run has no configuration, no task and no link.
NothingRuns ==
    main \in {"off", "stopped"} =>
        /\ used = NoConfig /\ shown = NoConfig
        /\ tasks = {} /\ link = "none"

\* aprsis_task exists only under a configuration that main has accepted.
LinkStartable ==
    link # "none" => used \in Configs /\ Startable(used) /\ used.enabled

\* What belongs to the session is what the stage of the link has made of it.
SessionFits ==
    /\ link \in {"none", "starting", "down", "connected", "sent"}
       => reply = "none" /\ wrote = {}
    /\ link \in {"none", "starting", "down", "connected"} => pass = "none"
    /\ link \in {"sent", "up"} => pass = aprsis_login_string(used)
    /\ link = "up" => reply \in Replies /\ Accepts(used, reply)

StartupInv == TypeOK /\ NothingRuns /\ LinkStartable /\ SessionFits
              /\ WritesVerified

-----------------------------------------------------------------------------
(* Facts about the operators.                                              *)

LEMMA PublicTypes == \A c : DOMAIN to_public(c) = PublicFields
BY DEF to_public, PublicFields

LEMMA StartableType ==
    ASSUME NEW f \in Files, Startable(f)
    PROVE  f \in Configs /\ f \in Files \ {Unreadable} /\ f # NoConfig
BY StartupAssumption DEF Startable, Valid

\* What main accepts lacks nothing that aprsis_task, the beacon or the login needs.
LEMMA StartableSuffices ==
    ASSUME NEW c \in Configs, Startable(c), c.enabled
    PROVE  /\ ~LacksField(c)
           /\ (c.igating \/ c.beaconing) => aprsis_login_string(c) # "-1"
           /\ (c.beaconing /\ c.source = "Config")
              => \A a \in Axes : c.place[a] # "none"
<1>1. validate(c) = {} /\ (NeedsWrite(c) => passcode_isvalid(c))
  BY DEF Startable, Valid
<1>2. c.callsign = "set" /\ c.host = "set" /\ c.aprsPort
  BY <1>1 DEF validate
<1>3. ASSUME c.beaconing, c.source = "Config"
      PROVE  \A a \in Axes : c.place[a] # "none"
  BY <1>1, <1>3 DEF validate
<1>4. ~LacksField(c)
  BY <1>2 DEF LacksField
<1>5. (c.igating \/ c.beaconing) => aprsis_login_string(c) # "-1"
  BY <1>1 DEF NeedsWrite, aprsis_login_string
<1> QED BY <1>3, <1>4, <1>5

-----------------------------------------------------------------------------
(* The inductive invariant.                                                *)

LEMMA InitInv == Init => StartupInv
BY DEF Init, StartupInv, TypeOK, NothingRuns, LinkStartable, SessionFits,
       WritesVerified, Mains, Links, Replies

\* The process ends, or was never there.
LEMMA GoneInv ==
    ASSUME StartupInv, NEW m \in {"off", "stopped"}, Gone(m), quit' \in BOOLEAN
    PROVE  StartupInv'
BY DEF StartupInv, Gone, NoSession, TypeOK, NothingRuns, LinkStartable, SessionFits,
       WritesVerified, Mains, Links, Replies

\* A step of aprsis_task after which there is no session.
LEMMA NoSessionInv ==
    ASSUME StartupInv, link # "none",
           NEW l \in {"none", "down"}, NoSession(l), tasks' \subseteq tasks,
           UNCHANGED <<quit, file, able, main, used, shown>>
    PROVE  StartupInv'
<1>1. main \notin {"off", "stopped"}
  BY DEF StartupInv, NothingRuns
<1> QED
  BY <1>1 DEF StartupInv, NoSession, TypeOK, NothingRuns, LinkStartable, SessionFits,
         WritesVerified, Links, Replies

\* A step that leaves the process and its session as they are.
LEMMA OutsideInv ==
    ASSUME StartupInv, file' \in Files, able' \in BOOLEAN,
           UNCHANGED <<quit, main, used, shown, tasks, link, session>>
    PROVE  StartupInv'
BY DEF StartupInv, session, TypeOK, NothingRuns, LinkStartable, SessionFits,
       WritesVerified, Mains, Links, Replies

LEMMA MainInv ==
    ASSUME StartupInv,
           \/ Boot \/ BootFails \/ Bind \/ BindFails
           \/ Reload \/ HangupTooEarly \/ Terminate \/ TaskLost
    PROVE  StartupInv'
<1>1. CASE Boot
  <2>1. /\ file \in Configs /\ file \in Files \ {Unreadable}
        /\ link = "none" /\ shown = NoConfig
    BY <1>1, StartableType DEF Boot, StartupInv, TypeOK, NothingRuns
  <2>2. TypeOK'
    BY <1>1, <2>1 DEF Boot, session, StartupInv, TypeOK, Wanted, Mains, Links
  <2>3. NothingRuns' /\ LinkStartable'
    BY <1>1, <2>1 DEF Boot, NothingRuns, LinkStartable
  <2>4. SessionFits' /\ WritesVerified'
    BY <1>1, <2>1 DEF Boot, session, StartupInv, SessionFits, WritesVerified
  <2> QED BY <2>2, <2>3, <2>4 DEF StartupInv
<1>2. CASE BootFails
  BY <1>2, GoneInv DEF BootFails, Failure, StartupInv, TypeOK
<1>3. CASE Bind
  <2>1. TypeOK'
    BY <1>3, PublicTypes DEF Bind, session, StartupInv, TypeOK, Mains
  <2> QED
    BY <1>3, <2>1 DEF Bind, session, StartupInv, NothingRuns, LinkStartable,
                      SessionFits, WritesVerified
<1>4. CASE BindFails
  BY <1>4, GoneInv DEF BindFails, Failure, StartupInv, TypeOK
<1>5. CASE Reload
  <2>1. TypeOK'
    BY <1>5, PublicTypes DEF Reload, session, StartupInv, TypeOK
  <2> QED
    BY <1>5, <2>1 DEF Reload, session, StartupInv, NothingRuns, LinkStartable,
                      SessionFits, WritesVerified
<1>6. CASE HangupTooEarly
  BY <1>6, GoneInv DEF HangupTooEarly, Clean
<1>7. CASE Terminate
  BY <1>7, GoneInv DEF Terminate, Clean
<1>8. CASE TaskLost
  BY <1>8, GoneInv DEF TaskLost, Clean
<1> QED BY <1>1, <1>2, <1>3, <1>4, <1>5, <1>6, <1>7, <1>8

LEMMA AprsisInv ==
    ASSUME StartupInv,
           \/ AprsisQuits \/ AprsisStarts \/ Connect \/ SendLogin
           \/ LoginAccepted \/ LoginRefused \/ LinkDrops
           \/ GatePacket \/ SendBeacon
    PROVE  StartupInv'
<1> USE DEF session
<1>1. CASE AprsisQuits
  BY <1>1, NoSessionInv DEF AprsisQuits
<1>2. CASE AprsisStarts
  BY <1>2 DEF AprsisStarts, StartupInv, TypeOK, NothingRuns, LinkStartable,
              SessionFits, WritesVerified, Links
<1>3. CASE Connect
  BY <1>3 DEF Connect, StartupInv, TypeOK, NothingRuns, LinkStartable,
              SessionFits, WritesVerified, Links
<1>4. CASE SendLogin
  BY <1>4 DEF SendLogin, StartupInv, TypeOK, NothingRuns, LinkStartable,
              SessionFits, WritesVerified, Links, aprsis_login_string
<1>5. CASE LoginAccepted
  BY <1>5 DEF LoginAccepted, StartupInv, TypeOK, NothingRuns, LinkStartable,
              SessionFits, WritesVerified, Links, Replies
<1>6. CASE LoginRefused
  BY <1>6, NoSessionInv DEF LoginRefused
<1>7. CASE LinkDrops
  BY <1>7, NoSessionInv DEF LinkDrops
<1>8. CASE GatePacket
  <2>1. WritesVerified'
    BY <1>8 DEF GatePacket, StartupInv, SessionFits, WritesVerified, Accepts,
                passcode_isvalid, aprsis_login_string
  <2> QED BY <1>8, <2>1 DEF GatePacket, StartupInv, TypeOK, NothingRuns, LinkStartable,
                SessionFits
<1>9. CASE SendBeacon
  <2>1. WritesVerified'
    BY <1>9 DEF SendBeacon, StartupInv, SessionFits, WritesVerified, Accepts,
                passcode_isvalid, aprsis_login_string
  <2> QED BY <1>9, <2>1 DEF SendBeacon, StartupInv, TypeOK, NothingRuns, LinkStartable,
                SessionFits
<1> QED BY <1>1, <1>2, <1>3, <1>4, <1>5, <1>6, <1>7, <1>8, <1>9

LEMMA NextInv == StartupInv /\ [Next]_vars => StartupInv'
<1> SUFFICES ASSUME StartupInv, [Next]_vars PROVE StartupInv'
  OBVIOUS
<1>1. CASE EditFile
  BY <1>1, OutsideInv DEF EditFile, StartupInv, TypeOK
<1>2. CASE HostChanges
  BY <1>2, OutsideInv DEF HostChanges, StartupInv, TypeOK
<1>3. CASE StartService
  BY <1>3 DEF StartService, session, StartupInv, TypeOK, NothingRuns, LinkStartable,
              SessionFits, WritesVerified, Mains
<1>4. CASE OtherTaskEnds
  <2>1. main \notin {"off", "stopped"}
    BY <1>4 DEF OtherTaskEnds, StartupInv, NothingRuns
  <2> QED
    BY <1>4, <2>1 DEF OtherTaskEnds, session, StartupInv, TypeOK, NothingRuns,
              LinkStartable, SessionFits, WritesVerified
<1>5. CASE UNCHANGED vars
  BY <1>5, OutsideInv DEF vars, session, StartupInv, TypeOK
<1> QED BY <1>1, <1>2, <1>3, <1>4, <1>5, MainInv, AprsisInv DEF Next

LEMMA SpecInv == Spec => []StartupInv
BY InitInv, NextInv, PTL DEF Spec

-----------------------------------------------------------------------------

\* The types hold, and what /api/config shows never has the field of the passcode,
\* whatever files the operator writes and however often they are reloaded.
THEOREM StartupTypes == Spec => []TypeOK
BY SpecInv, PTL DEF StartupInv

\* Whatever the files hold: no line leaves the station in a session whose login did
\* not carry the right passcode and was not answered "verified", nor one that the
\* configuration of the run did not ask for.
THEOREM OnlyVerifiedWrites == Spec => []WritesVerified
BY SpecInv, PTL DEF StartupInv

\* Whatever the files hold: an aprsis_task that runs has the fields, the position and
\* the passcode that what it is configured to do needs.
THEOREM AcceptedConfigSuffices == Spec => []RunsAsConfigured
<1>1. StartupInv => RunsAsConfigured
  BY StartableSuffices DEF StartupInv, LinkStartable, RunsAsConfigured
<1> QED BY <1>1, SpecInv, PTL
=============================================================================
