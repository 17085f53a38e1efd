----------------------------- MODULE PeerScore -----------------------------
(***************************************************************************)
(* DynamicPeerScore of src/p2p/pscore/dynamicpeerscore.go: one peer's     *)
(* score, shared by goroutines that call Award, Punish, Int, String and    *)
(* Disconnect on it.  The fields are guarded by a sync.Mutex, which is not *)
(* reentrant; Disconnect touches connRecords and reads the clock outside   *)
(* it.  Each goroutine is a small state machine (pc) whose steps are the   *)
(* stretches of code between the points where another goroutine can       *)
(* interleave: a mutex acquisition, an unguarded read or write.            *)
(*                                                                         *)
(* Data abstraction: the float64 scores are kept in thousandths of a point *)
(* (Scale), and math.Exp(-dt * ln2 / halflife) in thousandths              *)
(* (DecayPerMille).  time.Now().Unix() is the variable now, which moves   *)
(* forward through the small set Times.                                    *)
(***************************************************************************)
EXTENDS Integers, Sequences

CONSTANTS Goroutines,    \* goroutines sharing the score
          Ops,           \* methods they may call
          AwardEvents,   \* ScoreEvent values passed to Award
          PunishEvents,  \* ScoreEvent values passed to Punish
          Times,         \* the values time.Now().Unix() takes, in seconds
          MaxCalls,      \* calls made in all
          NoHolder,      \* model value: the mutex is free
          NoValue        \* model value: the goroutine has not returned a score

VARIABLES now,          \* time.Now().Unix()
          lastUnix, punishment, achievement, connRecords,  \* the struct fields
          mtx,          \* the goroutine holding s.mtx, or NoHolder
          pc,           \* where each goroutine is
          arg,          \* the ScoreEvent of the pending Award or Punish
          t,            \* Disconnect's local t
          snap,         \* the list as Disconnect's PushBack read it
          ret,          \* what the last call returned
          calls,        \* calls made so far
          pushed        \* PushBacks that returned (history, not in the code)

vars == <<now, lastUnix, punishment, achievement, connRecords, mtx, pc, arg, t,
          snap, ret, calls, pushed>>

\* constants of the code
baseScore == 100
upperLimit == 1000
PunishHalflife == 60
PunishLifetime == 1800
AchieveHalflife == 600
AchieveLifetime == 18000

Scale == 1000
StartTime == CHOOSE x \in Times : \A y \in Times : x <= y
Idle == "idle"

(***************************************************************************)
(* uint32(x) for a value the code computes in int64 arithmetic: the low 32 *)
(* bits, as a pair of 16-bit halves (TLC integers stop at 2^31).           *)
(***************************************************************************)
ToUint32Signed(x) == [hi |-> x \div 65536, lo |-> x % 65536]
ToUint32(x) ==
    IF x >= 0 THEN [hi |-> x \div 65536, lo |-> x % 65536]
    ELSE LET m == -x - 1 IN [hi |-> 65535 - (m \div 65536), lo |-> 65535 - (m % 65536)]

(***************************************************************************)
(* decayRate(dt) = exp(-dt * ln2 / halflife) = 2^(-dt / halflife), in      *)
(* thousandths: whole halvings by division, the fraction by the cubic      *)
(* Taylor polynomial of 2^-x (error below 2%, at most 1.7% near x = 1).  *)
(***************************************************************************)
DecayPerMille(halflife, dt) ==
    LET halvings == dt \div halflife
        x == (1000 * (dt % halflife)) \div halflife
        frac == 1000 - (693 * x) \div 1000 + (240 * x * x) \div 1000000
                     - (56 * ((x * x) \div 1000) * x) \div 1000000000
    IN IF halvings >= 10 THEN 0 ELSE frac \div (2 ^ halvings)

\* `if v > 1 { v *= decayRate(dt) }`
Decayed(v, halflife, dt) ==
    IF v > Scale THEN (v * DecayPerMille(halflife, dt)) \div 1000 ELSE v

\* baseScore + uint32(s.achievement) - uint32(s.punishment)
Score(ach, pun) == ToUint32(baseScore + ach \div Scale - pun \div Scale)

(***************************************************************************)
(* award / punish (lines 236-283) at time tu, as the record of the fields  *)
(* they leave: verifyLifeTime when lastUnix # 0, then, only when dt > 0,   *)
(* decay both scores, add the event and set lastUnix.                      *)
(***************************************************************************)
LifeChecked(tu) ==
    LET dt == tu - lastUnix IN
    [punishment  |-> IF lastUnix # 0 /\ PunishLifetime < dt THEN 0 ELSE punishment,
     achievement |-> IF lastUnix # 0 /\ AchieveLifetime < dt THEN 0 ELSE achievement,
     lastUnix    |-> lastUnix]

award(e, tu) ==
    LET dt == tu - lastUnix
        f == LifeChecked(tu)
        ach == Decayed(f.achievement, AchieveHalflife, dt) + e * Scale
    IN IF dt > 0
       THEN [punishment  |-> Decayed(f.punishment, PunishHalflife, dt),
             achievement |-> IF ach > upperLimit * Scale THEN upperLimit * Scale ELSE ach,
             lastUnix    |-> tu]
       ELSE f

punish(e, tu) ==
    LET dt == tu - lastUnix
        f == LifeChecked(tu)
    IN IF dt > 0
       THEN [punishment  |-> Decayed(f.punishment, PunishHalflife, dt) + e * Scale,
             achievement |-> Decayed(f.achievement, AchieveHalflife, dt),
             lastUnix    |-> tu]
       ELSE f

\* store the fields an award / punish / int left
SetFields(f) == /\ punishment' = f.punishment
                /\ achievement' = f.achievement
                /\ lastUnix' = f.lastUnix
(***************************************************************************)
(* int (lines 214-228): verifyLifeTime, unconditionally, then the decayed  *)
(* score; the fields keep their values apart from the lifetime reset.      *)
(* The record holds the fields int leaves and, in score, what it returns.  *)
(***************************************************************************)
int(tu) ==
    LET dt == tu - lastUnix
        pun == IF PunishLifetime < dt THEN 0 ELSE punishment
        ach == IF AchieveLifetime < dt THEN 0 ELSE achievement
    IN [punishment  |-> pun,
        achievement |-> ach,
        lastUnix    |-> lastUnix,
        score       |-> ToUint32(baseScore
                          + (ach * DecayPerMille(AchieveHalflife, dt)) \div (1000 * Scale)
                          - (pun * DecayPerMille(PunishHalflife, dt)) \div (1000 * Scale))]

-----------------------------------------------------------------------------
Init ==
    /\ now = StartTime
    /\ lastUnix = 0
    /\ punishment = 0
    /\ achievement = 0
    /\ connRecords = <<>>
    /\ mtx = NoHolder
    /\ pc = [g \in Goroutines |-> Idle]
    /\ arg = [g \in Goroutines |-> 0]
    /\ t = [g \in Goroutines |-> 0]
    /\ snap = [g \in Goroutines |-> <<>>]
    /\ ret = [g \in Goroutines |-> NoValue]
    /\ calls = 0
    /\ pushed = 0

\* the clock moves on (time.Now() is read by the steps below)
Tick ==
    /\ \E x \in Times : x > now /\ now' = x
    /\ UNCHANGED <<lastUnix, punishment, achievement, connRecords, mtx, pc, arg,
                   t, snap, ret, calls, pushed>>

\* goroutine g enters method m; Disconnect reads time.Now().Unix() first
Call(g, m, e) ==
    /\ pc[g] = Idle
    /\ calls < MaxCalls
    /\ m \in Ops
    /\ pc' = [pc EXCEPT ![g] = m]
    /\ arg' = [arg EXCEPT ![g] = e]
    /\ t' = [t EXCEPT ![g] = now]
    /\ calls' = calls + 1
    /\ UNCHANGED <<now, lastUnix, punishment, achievement, connRecords, mtx, snap, ret,
                   pushed>>

Return(g, r) == /\ pc' = [pc EXCEPT ![g] = Idle]
                /\ ret' = [ret EXCEPT ![g] = r]

\* Award / Punish: Lock, award or punish at time.Now(), Unlock, return
Award(g) ==
    /\ pc[g] = "Award"
    /\ mtx = NoHolder
    /\ LET f == award(arg[g], now) IN
          SetFields(f) /\ Return(g, Score(f.achievement, f.punishment))
    /\ UNCHANGED <<now, connRecords, mtx, arg, t, snap, calls, pushed>>

Punish(g) ==
    /\ pc[g] = "Punish"
    /\ mtx = NoHolder
    /\ LET f == punish(arg[g], now) IN
          SetFields(f) /\ Return(g, Score(f.achievement, f.punishment))
    /\ UNCHANGED <<now, connRecords, mtx, arg, t, snap, calls, pushed>>

\* Int: Lock, int(time.Now()), Unlock, return
IntCall(g) ==
    /\ pc[g] = "Int"
    /\ mtx = NoHolder
    /\ LET f == int(now) IN SetFields(f) /\ Return(g, f.score)
    /\ UNCHANGED <<now, connRecords, mtx, arg, t, snap, calls, pushed>>

\* String: Lock, then call s.Int(), which Locks the same mutex again: the
\* goroutine waits in Int for a mutex it holds itself
String(g) ==
    /\ pc[g] = "String"
    /\ mtx = NoHolder
    /\ mtx' = g
    /\ pc' = [pc EXCEPT ![g] = "Int"]
    /\ UNCHANGED <<now, lastUnix, punishment, achievement, connRecords, arg, t,
                   snap, ret, calls, pushed>>

(***************************************************************************)
(* Disconnect: t := time.Now().Unix() (read by Call), then                 *)
(* s.connRecords.PushBack(t) without the mutex, then s.Reset(t).  Two      *)
(* PushBacks that run at once race on the list: each links its element    *)
(* after the tail it read, so one of them can be lost.  PushBack is split  *)
(* into that read and that write.                                          *)
(***************************************************************************)
PushBackRead(g) ==
    /\ pc[g] = "Disconnect"
    /\ snap' = [snap EXCEPT ![g] = connRecords]
    /\ pc' = [pc EXCEPT ![g] = "PushBackWrite"]
    /\ UNCHANGED <<now, lastUnix, punishment, achievement, connRecords, mtx, arg,
                   t, ret, calls, pushed>>

PushBackWrite(g) ==
    /\ pc[g] = "PushBackWrite"
    /\ connRecords' = Append(snap[g], t[g])
    /\ pushed' = pushed + 1
    /\ pc' = [pc EXCEPT ![g] = "Reset"]
    /\ UNCHANGED <<now, lastUnix, punishment, achievement, mtx, arg, t, snap, ret,
                   calls>>

\* Reset(t): Lock, achievement = 0, lastUnix = t, Unlock
Reset(g) ==
    /\ pc[g] = "Reset"
    /\ mtx = NoHolder
    /\ achievement' = 0
    /\ lastUnix' = t[g]
    /\ pc' = [pc EXCEPT ![g] = Idle]
    /\ UNCHANGED <<now, punishment, connRecords, mtx, arg, t, snap, ret, calls, pushed>>

Step(g) ==
    \/ Award(g) \/ Punish(g) \/ IntCall(g) \/ String(g)
    \/ PushBackRead(g) \/ PushBackWrite(g) \/ Reset(g)

Next ==
    \/ Tick
    \/ \E g \in Goroutines :
          \/ \E e \in AwardEvents : Call(g, "Award", e)
          \/ \E e \in PunishEvents : Call(g, "Punish", e)
          \/ \E m \in {"Int", "String", "Disconnect"} : Call(g, m, 0)
          \/ Step(g)

(***************************************************************************)
(* A goroutine that can run eventually runs: the Go scheduler runs every   *)
(* runnable goroutine, and the calls are bounded, so a goroutine that      *)
(* waits for a free mutex gets it once it stays free.  Callers and the     *)
(* clock need not act.                                                     *)
(***************************************************************************)
Spec == Init /\ [][Next]_vars /\ \A g \in Goroutines : WF_vars(Step(g))

-----------------------------------------------------------------------------
U32 == [hi : 0..65535, lo : 0..65535]

TypeOK ==
    /\ now \in Times
    /\ lastUnix \in 0..now
    /\ punishment \in Nat
    /\ achievement \in 0..(upperLimit * Scale)
    /\ connRecords \in Seq(Times)
    /\ mtx \in Goroutines \cup {NoHolder}
    /\ ret \in [Goroutines -> U32 \cup {NoValue}]
    /\ calls \in 0..MaxCalls
    /\ pushed \in 0..calls

(***************************************************************************)
(* Every call returns: Award, Punish, Int, String and Disconnect take the  *)
(* mutex at most once each and give it back, so a goroutine inside one of  *)
(* them eventually returns.                                                *)
(***************************************************************************)
CallsReturn == \A g \in Goroutines : pc[g] # Idle ~> pc[g] = Idle

(***************************************************************************)
(* A score is between 0 and baseScore + upperLimit: the uint32 that Award, *)
(* Punish and Int return never wraps around below zero (line 257, 282,     *)
(* 217), where a heavily punished peer would look like the best one.      *)
(***************************************************************************)
ScoreInRange ==
    \A g \in Goroutines :
        ret[g] # NoValue => ret[g].hi = 0 /\ ret[g].lo <= baseScore + upperLimit

(***************************************************************************)
(* Award and Punish count the event they are given ("Award increases ...  *)
(* the scores by the values passed", line 173): when the call returns, the *)
(* score it changes is at least the event's value (or the upper limit).   *)
(***************************************************************************)
EventsCounted ==
    [][\A g \in Goroutines :
         /\ (pc[g] = "Award" /\ pc'[g] = Idle) =>
               achievement' >= IF arg[g] > upperLimit THEN upperLimit * Scale ELSE arg[g] * Scale
         /\ (pc[g] = "Punish" /\ pc'[g] = Idle) => punishment' >= arg[g] * Scale]_vars

(***************************************************************************)
(* Reset sets both the persistent and the decaying score to zero (its doc *)
(* comment, line 199): after a Disconnect the peer starts with no          *)
(* achievement and no punishment.                                          *)
(***************************************************************************)
ResetClearsScores ==
    [][\A g \in Goroutines :
         (pc[g] = "Reset" /\ pc'[g] = Idle) => achievement' = 0 /\ punishment' = 0]_vars

(***************************************************************************)
(* lastUnix, the time of the last scored event, never moves back: every   *)
(* dt the code computes from it is the time since that event.  Disconnect *)
(* reads t before it takes the mutex in Reset (lines 194-196).             *)
(***************************************************************************)
LastUnixMonotonic == [][lastUnix' >= lastUnix]_lastUnix

(***************************************************************************)
(* connRecords records every disconnection: once PushBack has returned in  *)
(* n Disconnect calls, the list holds n entries.                           *)
(***************************************************************************)
RecordsComplete == Len(connRecords) = pushed
=============================================================================
