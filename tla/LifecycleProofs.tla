--------------------------- MODULE LifecycleProofs ---------------------------
(***************************************************************************)
(* Theorems about Lifecycle, for any set of tasks and any bounds of the    *)
(* backoff.                                                                *)
(*                                                                         *)
(* BackoffFollowsFailures speaks of the sleeps only.  The invariant says   *)
(* in addition what a task that is awake has: the backoff of the next      *)
(* failure, which the connection sets back together with the count.        *)
(***************************************************************************)
EXTENDS Lifecycle, TLAPS

\* The backoff of a task that is awake is that of the failure to come.
AwakeBackoff ==
    \A t \in Tasks : at[t] \notin Over \cup {"sleeping"}
                     => backoff[t] = Expected(fails[t] + 1)

\* A task sleeps because of a failure.
SleepsAfterFailure ==
    \A t \in Tasks : at[t] = "sleeping" => fails[t] > 0

BackoffInv == AwakeBackoff /\ SleepsAfterFailure /\ BackoffFollowsFailures

-----------------------------------------------------------------------------
(* Facts about the operators.                                              *)

Stages == Attempting \cup {"top", "sleeping", "up"} \cup Over

LEMMA StageTypes ==
    \A t, s : s \in Attempting => NextStage(t, s) \in Attempting \cup {"up"}
BY DEF NextStage, Attempting

LEMMA DoubledType ==
    \A b \in MinBackoff .. MaxBackoff : Doubled(b) \in MinBackoff .. MaxBackoff
BY LifecycleAssumption DEF Doubled, Smaller

\* The first sleep is the initial backoff.
LEMMA ExpectedFirst == Expected(1) = MinBackoff
<1>1. 2 ^ (1 - 1) = 1
  OBVIOUS
<1>2. MinBackoff * 2 ^ (1 - 1) = MinBackoff
  BY <1>1, LifecycleAssumption
<1> QED BY <1>2, LifecycleAssumption DEF Expected, Smaller

\* Each sleep is the one before it, doubled and capped.
LEMMA ExpectedNext ==
    \A n \in 1 .. MaxFails : Expected(n + 1) = Doubled(Expected(n))
<1> SUFFICES ASSUME NEW n \in 1 .. MaxFails
             PROVE  Expected(n + 1) = Doubled(Expected(n))
  OBVIOUS
<1> DEFINE p == 2 ^ (n - 1)
           q == 2 ^ n
<1>1. p \in Nat /\ q = 2 * p
  <2>1. n - 1 \in 0 .. MaxFails /\ (n - 1) + 1 = n
    BY LifecycleAssumption
  <2> QED BY <2>1, BackoffAssumption
<1>2. (n + 1) - 1 = n
  BY LifecycleAssumption
<1>3. Expected(n + 1) = Smaller(MinBackoff * q, MaxBackoff)
  BY <1>2 DEF Expected
<1>4. Expected(n) = Smaller(MinBackoff * p, MaxBackoff)
  BY DEF Expected
<1> HIDE DEF p, q
<1>5. MinBackoff \in Nat /\ MaxBackoff \in Nat
  BY LifecycleAssumption
<1>6. MinBackoff * q = (MinBackoff * p) * 2 /\ MinBackoff * p \in Nat
  BY <1>1, <1>5
<1>7. Smaller((MinBackoff * p) * 2, MaxBackoff)
        = Smaller(Smaller(MinBackoff * p, MaxBackoff) * 2, MaxBackoff)
  <2> DEFINE x == MinBackoff * p
  <2>1. x \in Nat
    BY <1>6
  <2> HIDE DEF x
  <2>2. Smaller(x * 2, MaxBackoff) = Smaller(Smaller(x, MaxBackoff) * 2, MaxBackoff)
    BY <2>1, <1>5 DEF Smaller
  <2> QED BY <2>2 DEF x
<1> QED BY <1>3, <1>4, <1>6, <1>7 DEF Doubled

\* Where the history counter stops counting, the sleeps have stopped growing.
LEMMA ExpectedLast ==
    Expected(MaxFails) = MaxBackoff /\ Expected(MaxFails + 1) = MaxBackoff
<1> DEFINE x == MinBackoff * 2 ^ (MaxFails - 1)
<1>1. MaxFails \in 1 .. MaxFails /\ MaxBackoff \in Nat
  BY LifecycleAssumption
<1>2. x \in Nat
  <2>1. MaxFails - 1 \in 0 .. MaxFails
    BY LifecycleAssumption
  <2>2. 2 ^ (MaxFails - 1) \in Nat
    BY <2>1, BackoffAssumption
  <2> QED BY <2>2, LifecycleAssumption
<1>3. x >= MaxBackoff
  BY BackoffAssumption
<1>4. Expected(MaxFails) = Smaller(x, MaxBackoff)
  BY DEF Expected
<1> HIDE DEF x
<1>5. Expected(MaxFails) = MaxBackoff
  BY <1>1, <1>2, <1>3, <1>4 DEF Smaller
<1>6. Doubled(MaxBackoff) = MaxBackoff
  BY <1>1 DEF Doubled, Smaller
<1> QED BY <1>1, <1>5, <1>6, ExpectedNext

-----------------------------------------------------------------------------

\* The types hold: in particular the backoff of every task stays between its initial
\* value and its cap.
THEOREM LifecycleTypes == Spec => []TypeOK
<1>1. Init => TypeOK
  <2> SUFFICES ASSUME Init PROVE TypeOK
    OBVIOUS
  <2>1. at \in [Tasks -> Attempting \cup {"top", "sleeping", "up"} \cup Over]
    BY DEF Init
  <2>2. /\ backoff \in [Tasks -> MinBackoff .. MaxBackoff]
        /\ fails \in [Tasks -> 0 .. MaxFails]
    BY LifecycleAssumption DEF Init
  <2> QED BY <2>1, <2>2 DEF Init, TypeOK
<1>2. TypeOK /\ [Next]_vars => TypeOK'
  <2> SUFFICES ASSUME TypeOK, [Next]_vars PROVE TypeOK'
    OBVIOUS
  <2> USE DEF TypeOK, mainVars
  <2>1. ASSUME NEW t \in Tasks, Attempt(t) PROVE TypeOK'
    BY <2>1 DEF Attempt, Attempting
  <2>2. ASSUME NEW t \in Tasks, StageOk(t) PROVE TypeOK'
    <3>1. at' \in [Tasks -> Attempting \cup {"top", "sleeping", "up"} \cup Over]
      BY <2>2, StageTypes DEF StageOk
    <3>2. backoff' \in [Tasks -> MinBackoff .. MaxBackoff]
      BY <2>2, LifecycleAssumption DEF StageOk
    <3>3. fails' \in [Tasks -> 0 .. MaxFails]
      BY <2>2, LifecycleAssumption DEF StageOk
    <3> QED BY <2>2, <3>1, <3>2, <3>3 DEF StageOk
  <2>3. ASSUME NEW t \in Tasks, StageFails(t) PROVE TypeOK'
    BY <2>3, LifecycleAssumption DEF StageFails, Smaller
  <2>4. ASSUME NEW t \in Tasks, Wake(t) PROVE TypeOK'
    BY <2>4, DoubledType DEF Wake
  <2>5. ASSUME NEW t \in Tasks, SessionFails(t) PROVE TypeOK'
    BY <2>5 DEF SessionFails
  <2>6. ASSUME NEW t \in Tasks, Ends(t) \/ Panics(t) PROVE TypeOK'
    BY <2>6 DEF Ends, Panics, Over
  <2>7. ASSUME NEW t \in Tasks, NetChanges(t) PROVE TypeOK'
    BY <2>7 DEF NetChanges
  <2>8. ASSUME NEW t \in Tasks, TaskGone(t) PROVE TypeOK'
    BY <2>8 DEF TaskGone, Shutdown
  <2>9. CASE Signal
    BY <2>9 DEF Signal, Shutdown
  <2>10. CASE JoinAll
    BY <2>10 DEF JoinAll
  <2>11. CASE JoinPanics
    BY <2>11 DEF JoinPanics, Over
  <2>12. CASE UNCHANGED vars
    BY <2>12 DEF vars
  <2> QED
    BY <2>1, <2>2, <2>3, <2>4, <2>5, <2>6, <2>7, <2>8, <2>9, <2>10, <2>11, <2>12
       DEF Next
<1> QED BY <1>1, <1>2, PTL DEF Spec

-----------------------------------------------------------------------------

\* A step of task t concerns nobody else's backoff.
LEMMA OneTask ==
    ASSUME TypeOK, BackoffInv, NEW t \in Tasks,
           NEW a, NEW b, NEW n,
           at' = [at EXCEPT ![t] = a],
           backoff' = [backoff EXCEPT ![t] = b],
           fails' = [fails EXCEPT ![t] = n],
           a \notin Over \cup {"sleeping"} => b = Expected(n + 1),
           a = "sleeping" => n > 0 /\ b = Expected(n)
    PROVE  BackoffInv'
<1> SUFFICES ASSUME NEW u \in Tasks
             PROVE  /\ at'[u] \notin Over \cup {"sleeping"}
                       => backoff'[u] = Expected(fails'[u] + 1)
                    /\ at'[u] = "sleeping"
                       => fails'[u] > 0 /\ backoff'[u] = Expected(fails'[u])
  BY DEF BackoffInv, AwakeBackoff, SleepsAfterFailure, BackoffFollowsFailures, Expected
<1>1. CASE u = t
  BY <1>1 DEF TypeOK
<1>2. CASE u # t
  <2>1. at'[u] = at[u] /\ backoff'[u] = backoff[u] /\ fails'[u] = fails[u]
    BY <1>2 DEF TypeOK
  <2> QED BY <2>1 DEF BackoffInv, AwakeBackoff, SleepsAfterFailure,
                      BackoffFollowsFailures
<1> QED BY <1>1, <1>2

\* Whatever stage fails and whatever the connection resets, each failure since the task
\* last had a socket doubles the sleep exactly once, up to the cap.
THEOREM BackoffDoublesOnce == Spec => []BackoffFollowsFailures
<1>1. Init => BackoffInv
  BY ExpectedFirst DEF Init, BackoffInv, AwakeBackoff, SleepsAfterFailure,
                       BackoffFollowsFailures
<1>2. TypeOK /\ BackoffInv /\ [Next]_vars => BackoffInv'
  <2> SUFFICES ASSUME TypeOK, BackoffInv, [Next]_vars PROVE BackoffInv'
    OBVIOUS
  <2>s. ASSUME NEW t \in Tasks
        PROVE  /\ backoff = [backoff EXCEPT ![t] = backoff[t]]
               /\ fails = [fails EXCEPT ![t] = fails[t]]
               /\ at[t] \in Attempting \cup {"top", "up"}
                  => backoff[t] = Expected(fails[t] + 1)
               /\ fails[t] \in 0 .. MaxFails
    BY <2>s DEF TypeOK, BackoffInv, AwakeBackoff, Attempting, Over
  <2>1. ASSUME NEW t \in Tasks, Attempt(t) PROVE BackoffInv'
    <3>1. PICK a \in {"subscribe", "resolve"} :
             /\ at' = [at EXCEPT ![t] = a] /\ at[t] = "top"
             /\ backoff' = backoff /\ fails' = fails
      BY <2>1 DEF Attempt
    <3>2. a \notin Over \cup {"sleeping"}
      BY <3>1 DEF Over
    <3> QED BY <2>s, <3>1, <3>2, OneTask
  <2>2. ASSUME NEW t \in Tasks, StageOk(t) PROVE BackoffInv'
    <3>1. at' = [at EXCEPT ![t] = NextStage(t, at[t])] /\ at[t] \in Attempting
      BY <2>2 DEF StageOk
    <3>2. NextStage(t, at[t]) \notin Over \cup {"sleeping"}
      BY <3>1, StageTypes DEF Attempting, Over
    <3>3. CASE Connects(at[t])
      <4>1. backoff' = [backoff EXCEPT ![t] = MinBackoff]
            /\ fails' = [fails EXCEPT ![t] = 0]
        BY <2>2, <3>3 DEF StageOk, Connects, ResetsBackoff
      <4>2. MinBackoff = Expected(0 + 1)
        BY ExpectedFirst
      <4> QED BY <3>1, <3>2, <4>1, <4>2, OneTask
    <3>4. CASE ~Connects(at[t])
      <4>1. backoff' = backoff /\ fails' = fails
        BY <2>2, <3>4 DEF StageOk, Connects, ResetsBackoff
      <4> QED BY <2>s, <3>1, <3>2, <4>1, OneTask
    <3> QED BY <3>3, <3>4
  <2>3. ASSUME NEW t \in Tasks, StageFails(t) PROVE BackoffInv'
    <3>1. at[t] \in Attempting /\ backoff' = backoff
      BY <2>3 DEF StageFails
    <3>2. CASE RetriesAtOnce(at[t])
      <4>1. at' = [at EXCEPT ![t] = "top"] /\ fails' = fails
        BY <2>3, <3>2 DEF StageFails
      <4> QED BY <2>s, <3>1, <4>1, OneTask
    <3>3. CASE ~RetriesAtOnce(at[t])
      <4> DEFINE n == Smaller(fails[t] + 1, MaxFails)
      <4>1. at' = [at EXCEPT ![t] = "sleeping"] /\ fails' = [fails EXCEPT ![t] = n]
        BY <2>3, <3>3 DEF StageFails, TypeOK
      <4>2. n > 0
        BY <2>s, LifecycleAssumption DEF Smaller
      <4>3. backoff[t] = Expected(n)
        <5>1. CASE fails[t] = MaxFails
          <6>1. n = MaxFails
            BY <5>1, LifecycleAssumption DEF Smaller
          <6> QED BY <2>s, <3>1, <5>1, <6>1, ExpectedLast
        <5>2. CASE fails[t] # MaxFails
          <6>1. n = fails[t] + 1
            BY <2>s, <5>2, LifecycleAssumption DEF Smaller
          <6> QED BY <2>s, <3>1, <6>1
        <5> QED BY <5>1, <5>2
      <4> HIDE DEF n
      <4> QED BY <2>s, <3>1, <4>1, <4>2, <4>3, OneTask DEF Over
    <3> QED BY <3>2, <3>3
  <2>4. ASSUME NEW t \in Tasks, Wake(t) PROVE BackoffInv'
    <3>1. /\ at[t] = "sleeping" /\ at' = [at EXCEPT ![t] = "top"]
          /\ backoff' = [backoff EXCEPT ![t] = Doubled(backoff[t])]
          /\ fails' = fails
      BY <2>4 DEF Wake, TypeOK
    <3>2. fails[t] > 0 /\ backoff[t] = Expected(fails[t])
      BY <3>1 DEF BackoffInv, SleepsAfterFailure, BackoffFollowsFailures
    <3>3. fails[t] \in 1 .. MaxFails
      BY <2>s, <3>2
    <3>4. Doubled(backoff[t]) = Expected(fails[t] + 1)
      BY <3>2, <3>3, ExpectedNext
    <3> QED BY <2>s, <3>1, <3>4, OneTask
  <2>5. ASSUME NEW t \in Tasks, SessionFails(t) PROVE BackoffInv'
    <3>1. at[t] = "up" /\ at' = [at EXCEPT ![t] = "top"]
          /\ backoff' = backoff /\ fails' = fails
      BY <2>5 DEF SessionFails
    <3> QED BY <2>s, <3>1, OneTask
  <2>6. ASSUME NEW t \in Tasks, Ends(t) \/ Panics(t) PROVE BackoffInv'
    <3>1. PICK a \in Over : /\ at' = [at EXCEPT ![t] = a]
                            /\ backoff' = backoff /\ fails' = fails
      BY <2>6 DEF Ends, Panics, Over
    <3> QED BY <2>s, <3>1, OneTask DEF Over
  <2>7. ASSUME UNCHANGED <<at, backoff, fails>> PROVE BackoffInv'
    BY <2>7 DEF BackoffInv, AwakeBackoff, SleepsAfterFailure, BackoffFollowsFailures,
                Expected
  <2>8. ASSUME \/ \E t \in Tasks : NetChanges(t) \/ TaskGone(t)
               \/ Signal \/ JoinAll \/ UNCHANGED vars
        PROVE  UNCHANGED <<at, backoff, fails>>
    BY <2>8 DEF NetChanges, TaskGone, Signal, Shutdown, JoinAll, vars
  <2>9. CASE JoinPanics
    <3>1. /\ backoff' = backoff /\ fails' = fails
          /\ \A t \in Tasks : at'[t] \in Over
      BY <2>9 DEF JoinPanics, Over
    <3> QED BY <3>1 DEF BackoffInv, AwakeBackoff, SleepsAfterFailure,
                        BackoffFollowsFailures, Over
  <2> QED BY <2>1, <2>2, <2>3, <2>4, <2>5, <2>6, <2>7, <2>8, <2>9 DEF Next
<1> QED BY <1>1, <1>2, LifecycleTypes, PTL DEF Spec, BackoffInv
=============================================================================
