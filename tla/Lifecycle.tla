------------------------------ MODULE Lifecycle ------------------------------
(***************************************************************************)
(* The life of the process: main's select loop, the background tasks, the  *)
(* reconnection loop each network task runs, and shutdown.                 *)
(*                                                                         *)
(* Every network task has the same outer loop: make an attempt of one or   *)
(* more stages, run a session, and on failure go round again, most         *)
(* failures after a backoff sleep that doubles up to a cap.                *)
(***************************************************************************)
EXTENDS Naturals

CONSTANTS
    Tasks,        \* the tasks the configuration makes main spawn
    MinBackoff,   \* the initial backoff_secs
    MaxBackoff,   \* MAX_BACKOFF_SECS
    MaxFails      \* bound: failures in a row a history counter tells apart

AllTasks == {"listener", "aprsis", "gpsd", "sse"}

ASSUME LifecycleAssumption ==
    /\ Tasks \subseteq AllTasks
    /\ {"listener", "sse"} \subseteq Tasks     \* always spawned
    /\ MinBackoff \in Nat \ {0}
    /\ MaxBackoff \in Nat /\ MinBackoff <= MaxBackoff
    /\ MaxFails \in Nat \ {0}

\* The history counter reaches as far as the backoff takes to grow to its cap; and,
\* for the provers, which do not know it, the law of the powers of 2.
ASSUME BackoffAssumption ==
    /\ MinBackoff * 2 ^ (MaxFails - 1) >= MaxBackoff
    /\ \A n \in 0 .. MaxFails : 2 ^ n \in Nat /\ 2 ^ (n + 1) = 2 * 2 ^ n

VARIABLES
    at,         \* the stage each task is in
    backoff,    \* each task's backoff_secs
    net,        \* do attempts of the task now succeed, and its sessions last?
    main,       \* "running", "joining", "exited", or "aborted" by a panic
    joined,     \* the tasks main has joined
    cancelled,  \* the CancellationToken
    fails       \* history: failed attempts since the task last had a socket

vars == <<at, backoff, net, main, joined, cancelled, fails>>

mainVars == <<main, joined, cancelled>>

\* The stages of an attempt.
Attempting == {"subscribe", "resolve", "connect", "login", "watch"}

\* A mutant: the backoff is reset by the session, not by the connection.
M_ResetsBackoff(s) == s \in {"subscribe", "login"}

\* The stage whose success sets backoff_secs back to its initial value.
ResetsBackoff(s) == s \in {"subscribe", "connect"}

\* The stage that gives the task its socket.
Connects(s) == s \in {"subscribe", "connect"}

\* The stage that on failure goes round at once, without a sleep.
RetriesAtOnce(s) == s = "watch"

NextStage(t, s) ==
    CASE s = "resolve" -> "connect"
      [] s = "connect" -> IF t = "aprsis" THEN "login" ELSE "watch"
      [] s \in {"login", "watch", "subscribe"} -> "up"

\* The states of a task in which it waits in a select! with the token, or checks it.
Cancellable == {"top", "sleeping", "login", "up"}

Over == {"ended", "panicked"}

Smaller(a, b) == IF a < b THEN a ELSE b

Init ==
    /\ at = [t \in Tasks |-> IF t = "sse" THEN "up" ELSE "top"]
    /\ backoff = [t \in Tasks |-> MinBackoff]
    /\ net \in [Tasks -> BOOLEAN]
    /\ main = "running"
    /\ joined = {}
    /\ cancelled = FALSE
    /\ fails = [t \in Tasks |-> 0]

-----------------------------------------------------------------------------
(* The reconnection loop of task t.                                        *)

\* A mutant: the top of the loop does not look at the token.
M_Attempt(t) ==
    /\ at[t] = "top"
    /\ at' = [at EXCEPT ![t] = IF t = "listener" THEN "subscribe" ELSE "resolve"]
    /\ UNCHANGED <<backoff, net, mainVars, fails>>

\* The top of the outer loop.
Attempt(t) ==
    /\ at[t] = "top"
    /\ ~cancelled
    /\ at' = [at EXCEPT ![t] = IF t = "listener" THEN "subscribe" ELSE "resolve"]
    /\ UNCHANGED <<backoff, net, mainVars, fails>>

\* A stage succeeds: the next one, or the session.
StageOk(t) ==
    /\ at[t] \in Attempting
    /\ net[t]
    /\ at' = [at EXCEPT ![t] = NextStage(t, at[t])]
    /\ backoff' = IF ResetsBackoff(at[t]) THEN [backoff EXCEPT ![t] = MinBackoff]
                  ELSE backoff
    /\ fails' = IF Connects(at[t]) THEN [fails EXCEPT ![t] = 0] ELSE fails
    /\ UNCHANGED <<net, mainVars>>

\* A stage fails or times out: a backoff sleep, except for a failed WATCH.
StageFails(t) ==
    /\ at[t] \in Attempting
    /\ ~net[t]
    /\ at' = [at EXCEPT ![t] = IF RetriesAtOnce(at[t]) THEN "top" ELSE "sleeping"]
    /\ fails' = IF RetriesAtOnce(at[t]) THEN fails
                ELSE [fails EXCEPT ![t] = Smaller(@ + 1, MaxFails)]
    /\ UNCHANGED <<backoff, net, mainVars>>

\* A mutant: the doubling is not capped.
M_Doubled(b) == b * 2

\* (backoff_secs * 2).min(MAX_BACKOFF_SECS)
Doubled(b) == Smaller(b * 2, MaxBackoff)

\* A mutant: the task gives up when the backoff has reached its cap.
M_Wake(t) ==
    /\ at[t] = "sleeping"
    /\ backoff[t] < MaxBackoff
    /\ at' = [at EXCEPT ![t] = "top"]
    /\ backoff' = [backoff EXCEPT ![t] = Doubled(@)]
    /\ UNCHANGED <<net, mainVars, fails>>

\* The sleep is over.
Wake(t) ==
    /\ at[t] = "sleeping"
    /\ at' = [at EXCEPT ![t] = "top"]
    /\ backoff' = [backoff EXCEPT ![t] = Doubled(@)]
    /\ UNCHANGED <<net, mainVars, fails>>

\* The session ends (closed by the peer, a read, write or receive error): the
\* task goes round at once.
SessionFails(t) ==
    /\ at[t] = "up"
    /\ t # "sse"
    /\ ~net[t]
    /\ at' = [at EXCEPT ![t] = "top"]
    /\ UNCHANGED <<backoff, net, mainVars, fails>>

\* The task sees the cancelled token; it flushes what it owns and returns.
Ends(t) ==
    /\ cancelled
    /\ at[t] \in Cancellable
    /\ at' = [at EXCEPT ![t] = "ended"]
    /\ UNCHANGED <<backoff, net, mainVars, fails>>

\* The task panics (external: main handles it, so it is possible).
Panics(t) ==
    /\ at[t] \notin Over
    /\ main \in {"running", "joining"}
    /\ at' = [at EXCEPT ![t] = "panicked"]
    /\ UNCHANGED <<backoff, net, mainVars, fails>>

\* The network the task depends on breaks or recovers (external).
NetChanges(t) ==
    /\ at[t] \notin Over
    /\ net' = [net EXCEPT ![t] = ~@]
    /\ UNCHANGED <<at, backoff, mainVars, fails>>

-----------------------------------------------------------------------------
(* main.                                                                   *)

\* main leaves its loop and cancels the token; n are the tasks joined so far.
Shutdown(n) ==
    /\ main = "running"
    /\ main' = "joining"
    /\ joined' = n
    /\ cancelled' = TRUE
    /\ UNCHANGED <<at, backoff, net, fails>>

\* SIGINT, SIGTERM, or the HTTP server returned.
Signal == Shutdown(joined)

\* A mutant: main logs the exit and goes on waiting.
M_TaskGone(t) ==
    /\ main = "running"
    /\ at[t] \in Over
    /\ t \notin joined
    /\ joined' = joined \cup {t}
    /\ UNCHANGED <<at, backoff, net, main, cancelled, fails>>

\* join_next: a task returned or panicked though nobody asked it to.
TaskGone(t) ==
    /\ at[t] \in Over
    /\ Shutdown(joined \cup {t})

\* join_all: the remaining tasks have all returned; main writes the history snapshot
\* and returns.
JoinAll ==
    /\ main = "joining"
    /\ \A t \in Tasks \ joined : at[t] = "ended"
    /\ main' = "exited"
    /\ joined' = Tasks
    /\ UNCHANGED <<at, backoff, net, cancelled, fails>>

\* join_all panics at the first task that did: main unwinds without the snapshot, and
\* the tasks that have not returned yet are aborted where they are.
JoinPanics ==
    /\ main = "joining"
    /\ \E t \in Tasks \ joined : at[t] = "panicked"
    /\ main' = "aborted"
    /\ at' = [t \in Tasks |-> IF at[t] \in Over THEN at[t] ELSE "ended"]
    /\ UNCHANGED <<backoff, net, joined, cancelled, fails>>

Next ==
    \/ \E t \in Tasks : \/ Attempt(t) \/ StageOk(t) \/ StageFails(t) \/ Wake(t)
                        \/ SessionFails(t) \/ Ends(t) \/ Panics(t) \/ NetChanges(t)
                        \/ TaskGone(t)
    \/ Signal \/ JoinAll \/ JoinPanics

(***************************************************************************)
(* Fairness: every await but recv() is bounded, by a timeout of the code   *)
(* (connect, login, write), by the timer, or by the system resolver; and   *)
(* select! picks among ready branches at random, so a cancelled token and  *)
(* a finished task are eventually seen.                                    *)
(***************************************************************************)
Fairness ==
    /\ \A t \in Tasks : /\ WF_vars(Attempt(t))
                        /\ WF_vars(StageOk(t) \/ StageFails(t))
                        /\ WF_vars(Wake(t))
                        /\ WF_vars(Ends(t))
                        /\ WF_vars(TaskGone(t))
    /\ WF_vars(JoinAll)
    /\ WF_vars(JoinPanics)

Spec == Init /\ [][Next]_vars /\ Fairness

-----------------------------------------------------------------------------
(* Properties.                                                             *)

\* The types of the variables.
TypeOK ==
    /\ at \in [Tasks -> Attempting \cup {"top", "sleeping", "up"} \cup Over]
    /\ backoff \in [Tasks -> MinBackoff .. MaxBackoff]
    /\ net \in [Tasks -> BOOLEAN]
    /\ main \in {"running", "joining", "exited", "aborted"}
    /\ joined \subseteq Tasks
    /\ cancelled \in BOOLEAN
    /\ fails \in [Tasks -> 0 .. MaxFails]

\* min(MinBackoff * 2^(n-1), MaxBackoff).
Expected(n) == Smaller(MinBackoff * 2 ^ (n - 1), MaxBackoff)

\* The sleep after the n-th failure since the task last had a socket is the n-th
\* of 5, 10, 20, ... 300, 300: each failure doubles it exactly once.
BackoffFollowsFailures ==
    \A t \in Tasks : at[t] = "sleeping" => backoff[t] = Expected(fails[t])

\* Shutdown completes: once main leaves its loop every task ends, wherever in its
\* reconnection loop it was, and main returns (or aborts on a panic of a task it has
\* still to join).
ShutdownCompletes == (main = "joining") ~> (main \in {"exited", "aborted"})

\* A task that ends or panics on its own brings the whole process down: it
\* never goes on with a part of its tasks.
NoSilentTaskLoss ==
    (\E t \in Tasks : at[t] \in Over) ~> (main \in {"exited", "aborted"})

\* Each network task recovers: if its network stays good and the process keeps
\* running, the task is in a session from some point on.
TasksRecover ==
    \A t \in Tasks : <>[](net[t] /\ main = "running" /\ at[t] \notin Over)
                     => <>[](at[t] = "up")

=============================================================================
