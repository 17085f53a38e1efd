---------------------------- MODULE Circulation ----------------------------
(***************************************************************************)
(* The circulation integration test (src/integration_tests/circulation.go *)
(* lines 1-166).  Run starts one doTx goroutine per partition of the test *)
(* addresses.  Each goroutine loops: it polls its quit channel, sends its *)
(* next address on the shared collAddrCh, receives a CirInfo from the      *)
(* shared cirInfoCh and runs txRepeatTest from cirInfo.Addr to its next   *)
(* address.  An interrupt is delivered to every quit channel; a goroutine  *)
(* that sees it closes collAddrCh and returns.  A panic in doTx is         *)
(* recovered and recorded unless its text is "close on closed channel".   *)
(*                                                                         *)
(* The driver at the other end of the two channels is not under src/: it *)
(* is modelled as the collector that receives an address on the          *)
(* unbuffered collAddrCh, answers with a CirInfo for that address on the  *)
(* unbuffered cirInfoCh, and closes cirInfoCh when collAddrCh is closed.   *)
(***************************************************************************)
EXTENDS Integers, Sequences

CONSTANTS
    Addrs,       \* c.addrs, the test addresses
    PartLen,     \* c.partLen
    Basic,       \* scopeValue(*scope) = basicScope
    Times,       \* the times argument of txRepeatTest
    Balances,    \* balances balanceFor may return for the from address
    Fee,         \* fee the chain takes per transaction
    Width,       \* bits of the unsigned balance arithmetic
    MaxSignals,  \* bound on the interrupts delivered
    None

ASSUME PartLen > 0 /\ Len(Addrs) > 0

VARIABLES
    pc,          \* per goroutine: where doTx is
    addrIdx,     \* per goroutine: addrIdx
    toAddr,      \* per goroutine: toAddr of the current round
    info,        \* per goroutine: cirInfo.Addr of the current round
    quit,        \* per quit channel: signals buffered (capacity 1)
    collClosed,  \* collAddrCh has been closed
    coll,        \* the collector: its state and the address it answers
    cirClosed,   \* cirInfoCh has been closed
    errors,      \* what TryRecordError recorded
    signals      \* interrupts delivered so far

vars == <<pc, addrIdx, toAddr, info, quit, collClosed, coll, cirClosed, errors,
          signals>>

AccCnt == Len(Addrs)

(* NewCirculation makes (accCnt + partLen - 1) / partLen quit channels.    *)
QuitChans == 0..((AccCnt + PartLen - 1) \div PartLen - 1)

(* Run starts a goroutine for every i with i * partLen < len(c.addrs).     *)
Parts == {i \in 0..AccCnt : i * PartLen < AccCnt}

(* doTx's addrs = c.addrs[start:end], end clipped to len(c.addrs).         *)
PartAddrs(i) ==
    LET start == i * PartLen
        end   == IF start + PartLen > AccCnt THEN AccCnt ELSE start + PartLen
    IN  SubSeq(Addrs, start + 1, end)

(* The Go runtime's panic texts and the text doTx's recover compares with. *)
CloseClosed == "close of closed channel"
SendClosed == "send on closed channel"
Ignored == "close on closed channel"

(* doTx's deferred recover: the panic is recorded unless its text is the   *)
(* ignored one.                                                            *)
RecoverDoTx(msg) == IF msg # Ignored THEN errors \cup {msg} ELSE errors

(* Unsigned subtraction of Width-bit integers.                            *)
USub(a, b) == (a - b) % (2 ^ Width)

(* base := fromBalancePre / uint64(times) / 5 * 2                          *)
Base(bal) == ((bal \div Times) \div 5) * 2

(* The errors txRepeatTest(from, to, _, Times) records when balanceFor(from) *)
(* is bal and the random parts of the amounts add up to extra.  The chain  *)
(* itself is taken to be right: every tx lands and costs Fee.              *)
TxRepeatErrors(from, to, bal, extra) ==
    LET base     == Base(bal)
        transfer == Times * base + extra
        fees     == Times * Fee
        toPre    == IF from = to THEN bal ELSE 0
        toPost   == IF from = to THEN bal - transfer - fees + transfer
                    ELSE toPre + transfer
        fromPost == IF from = to THEN toPost ELSE bal - transfer - fees
        toGap    == USub(toPost, toPre)
        fromGap  == USub(bal, fromPost)
        waitErr  == IF toPost >= toPre + transfer THEN {} ELSE {"timeout"}
        gapErr   == IF toGap > fromGap \/ toGap # transfer
                    THEN {"txRepeatTest faild"} ELSE {}
    IN  CASE Times <= 0 -> {}
          [] bal = 0    -> {}
          [] base = 0   -> {"invalid argument to Int63n"}
          [] OTHER      -> waitErr \cup gapErr

(* The random part of the amounts: each is base + rand.Int63n(base), so    *)
(* the extra is between 0 and Times * (base - 1); its extremes.            *)
Extras(bal) ==
    IF Base(bal) = 0 THEN {0} ELSE {0, Times * (Base(bal) - 1)}

Done == {"done", "panicked"}

-----------------------------------------------------------------------------
Init ==
    /\ pc = [g \in Parts |-> "select"]
    /\ addrIdx = [g \in Parts |-> 0]
    /\ toAddr = [g \in Parts |-> None]
    /\ info = [g \in Parts |-> None]
    /\ quit = [q \in QuitChans |-> 0]
    /\ collClosed = FALSE
    /\ coll = [state |-> "recv", addr |-> None]
    /\ cirClosed = FALSE
    /\ errors = {}
    /\ signals = 0

(* An interrupt: signal.Notify sends it to every quit channel without      *)
(* blocking, so a channel whose buffer is full drops it.                   *)
Signal ==
    /\ signals < MaxSignals
    /\ signals' = signals + 1
    /\ quit' = [q \in QuitChans |-> 1]
    /\ UNCHANGED <<pc, addrIdx, toAddr, info, collClosed, coll, cirClosed, errors>>

(* The select finds the signal: close(c.collAddrCh) and return; closing a *)
(* closed channel panics, and the recover sees the runtime's text.        *)
QuitClose(g) ==
    /\ pc[g] = "select"
    /\ quit[g] = 1
    /\ quit' = [quit EXCEPT ![g] = 0]
    /\ IF collClosed
       THEN /\ errors' = RecoverDoTx(CloseClosed)
            /\ pc' = [pc EXCEPT ![g] = "panicked"]
            /\ UNCHANGED collClosed
       ELSE /\ collClosed' = TRUE
            /\ pc' = [pc EXCEPT ![g] = "done"]
            /\ UNCHANGED errors
    /\ UNCHANGED <<addrIdx, toAddr, info, coll, cirClosed, signals>>

(* Mutant: the default is taken without looking at the quit channel.      *)
NoQuitIgnoresQuit(g) ==
    /\ pc[g] = "select"
    /\ addrIdx' = [addrIdx EXCEPT ![g] = @ % Len(PartAddrs(g))]
    /\ pc' = [pc EXCEPT ![g] = "send"]
    /\ UNCHANGED <<toAddr, info, quit, collClosed, coll, cirClosed, errors, signals>>

(* The select's default: no signal buffered.                              *)
NoQuit(g) ==
    /\ pc[g] = "select"
    /\ quit[g] = 0
    /\ addrIdx' = [addrIdx EXCEPT ![g] = @ % Len(PartAddrs(g))]
    /\ pc' = [pc EXCEPT ![g] = "send"]
    /\ UNCHANGED <<toAddr, info, quit, collClosed, coll, cirClosed, errors, signals>>

(* Mutant: addrIdx = toIdx is left out, so addrIdx stays where it was.     *)
SendNoAdvance(g) ==
    /\ pc[g] = "send"
    /\ ~collClosed
    /\ coll.state = "recv"
    /\ LET a     == PartAddrs(g)
           toIdx == (addrIdx[g] + 1) % Len(a)
       IN  /\ coll' = [state |-> "reply", addr |-> a[addrIdx[g] + 1]]
           /\ toAddr' = [toAddr EXCEPT ![g] = a[toIdx + 1]]
           /\ UNCHANGED addrIdx
    /\ pc' = [pc EXCEPT ![g] = "recv"]
    /\ UNCHANGED <<info, quit, collClosed, cirClosed, errors, signals>>

(* c.collAddrCh <- addrs[addrIdx], taken by the collector; then toIdx and  *)
(* toAddr, and addrIdx moves on.                                          *)
Send(g) ==
    /\ pc[g] = "send"
    /\ ~collClosed
    /\ coll.state = "recv"
    /\ LET a     == PartAddrs(g)
           toIdx == (addrIdx[g] + 1) % Len(a)
       IN  /\ coll' = [state |-> "reply", addr |-> a[addrIdx[g] + 1]]
           /\ toAddr' = [toAddr EXCEPT ![g] = a[toIdx + 1]]
           /\ addrIdx' = [addrIdx EXCEPT ![g] = toIdx]
    /\ pc' = [pc EXCEPT ![g] = "recv"]
    /\ UNCHANGED <<info, quit, collClosed, cirClosed, errors, signals>>

(* A send on the closed collAddrCh panics, also one already blocked.      *)
SendOnClosed(g) ==
    /\ pc[g] = "send"
    /\ collClosed
    /\ errors' = RecoverDoTx(SendClosed)
    /\ pc' = [pc EXCEPT ![g] = "panicked"]
    /\ UNCHANGED <<addrIdx, toAddr, info, quit, collClosed, coll, cirClosed, signals>>

(* After a round: break out of the loop in the basic scope.               *)
EndRound(g) == pc' = [pc EXCEPT ![g] = IF Basic THEN "done" ELSE "select"]

(* cirInfo, ok := <-c.cirInfoCh with ok: the collector's answer.          *)
Recv(g) ==
    /\ pc[g] = "recv"
    /\ coll.state = "reply"
    /\ info' = [info EXCEPT ![g] = coll.addr]
    /\ coll' = [state |-> "recv", addr |-> None]
    /\ pc' = [pc EXCEPT ![g] = "test"]
    /\ UNCHANGED <<addrIdx, toAddr, quit, collClosed, cirClosed, errors, signals>>

(* txRepeatTest(cirInfo.Addr, toAddr, cirInfo.PeerAddr, 100), whose own    *)
(* recover records a panic.                                                *)
TxTest(g) ==
    /\ pc[g] = "test"
    /\ \E bal \in Balances, extra \in UNION {Extras(b) : b \in Balances} :
          /\ extra \in Extras(bal)
          /\ errors' = errors \cup TxRepeatErrors(info[g], toAddr[g], bal, extra)
    /\ EndRound(g)
    /\ UNCHANGED <<addrIdx, toAddr, info, quit, collClosed, coll, cirClosed, signals>>

(* The collector's range over collAddrCh ends when it is closed; it then  *)
(* closes cirInfoCh.  No doTx is then waiting on cirInfoCh (the collector *)
(* answers each address before it takes the next), so doTx's ok = false   *)
(* branch is never taken.                                                  *)
CollectorStop ==
    /\ coll.state = "recv"
    /\ collClosed
    /\ ~cirClosed
    /\ cirClosed' = TRUE
    /\ coll' = [state |-> "stopped", addr |-> None]
    /\ UNCHANGED <<pc, addrIdx, toAddr, info, quit, collClosed, errors, signals>>

Step(g) ==
    \/ QuitClose(g) \/ NoQuit(g) \/ Send(g) \/ SendOnClosed(g)
    \/ Recv(g) \/ TxTest(g)

Next == Signal \/ CollectorStop \/ \E g \in Parts : Step(g)

(* The Go scheduler runs every runnable goroutine, the collector included. *)
(* A goroutine blocked sending on the unbuffered collAddrCh waits in the   *)
(* channel's FIFO queue of senders and is handed to the collector when its *)
(* turn comes, even if another goroutine keeps sending: strong fairness    *)
(* per goroutine, which is weaker than that queue.  Interrupts come from   *)
(* outside and need no fairness.                                           *)
Spec == Init /\ [][Next]_vars /\ \A g \in Parts : SF_vars(Step(g))
                               /\ WF_vars(CollectorStop)

-----------------------------------------------------------------------------
TypeOK ==
    /\ pc \in [Parts -> {"select", "send", "recv", "test"} \cup Done]
    /\ \A g \in Parts : addrIdx[g] \in 0..Len(PartAddrs(g)) - 1
    /\ toAddr \in [Parts -> {Addrs[i] : i \in 1..AccCnt} \cup {None}]
    /\ info \in [Parts -> {Addrs[i] : i \in 1..AccCnt} \cup {None}]
    /\ quit \in [QuitChans -> 0..1]
    /\ collClosed \in BOOLEAN /\ cirClosed \in BOOLEAN
    /\ coll.state \in {"recv", "reply", "stopped"}
    /\ signals \in 0..MaxSignals

AllReturned == \A g \in Parts : pc[g] \in Done

(* Run returns: in the basic scope every doTx breaks out after one round;  *)
(* otherwise, once an interrupt arrives, every doTx sees its quit channel  *)
(* or panics on the closed collAddrCh, none stays blocked on a channel,   *)
(* and wg.Wait returns.                                                    *)
RunReturns == (Basic \/ signals > 0) ~> AllReturned

(* Every address circulates: until an interrupt arrives, each doTx       *)
(* goroutine keeps running txRepeatTest from every address of its          *)
(* partition in turn (addrIdx moves to toIdx after each send, lines        *)
(* 98-102), although the goroutines compete for the one collector.         *)
EveryAddressCirculates ==
    \A g \in Parts : \A k \in 1..Len(PartAddrs(g)) :
        []<>(Basic \/ signals > 0 \/ (pc[g] = "test" /\ info[g] = PartAddrs(g)[k]))

(* An interrupt ends the test without recording an error: the recover in   *)
(* doTx is meant to swallow the panic of the second close of collAddrCh.   *)
QuitRecordsNoPanic == errors \cap {CloseClosed, SendClosed} = {}

(* With a chain that processes every transaction, txRepeatTest records no  *)
(* error: its amounts, its wait and its balance gaps are right.            *)
TxRepeatTestSound ==
    errors \cap {"invalid argument to Int63n", "timeout", "txRepeatTest faild"} = {}
=============================================================================
