------------------------ MODULE ConcurrencyGovernor ------------------------
(***************************************************************************)
(* The process-wide admission of model requests for one provider key: the  *)
(* AIMD controller of the cap (dynamic-workflow/src/engine/concurrency.ts) *)
(* and the governor that queues the requests of workflow runs, grants them *)
(* round robin and lets the main agent's requests through as an observer.  *)
(*                                                                         *)
(* Every operation is synchronous, so each is one step on the bucket.      *)
(*                                                                         *)
(* Abstractions: requests of one run are alike, so a queue is its length   *)
(* and open tickets are two counts, those minted in the current epoch and  *)
(* older ones; the clock is two facts, whether the cooldown still runs     *)
(* and whether the last admission is 5 minutes old; a success streak past  *)
(* the threshold stays at it; lastBad, which is only reported, and the     *)
(* change events for subscribers are left out.                             *)
(***************************************************************************)
EXTENDS Naturals, Sequences, FiniteSets, SequencesExt

CONSTANTS
    Runs,            \* workflow runs
    Observer,        \* OBSERVER_RUN_ID, the main agent
    None,
    Ceiling,         \* initial and largest cap
    IncreaseAfter,   \* CONCURRENCY_INCREASE_AFTER_SUCCESSES
    MaxWaiters,      \* bound: queued requests per run
    MaxOpen          \* bound: open requests, which the cap does not hold
                     \* back when they are the main agent's

ASSUME GovernorAssumption ==
    /\ Ceiling \in Nat \ {0} /\ IncreaseAfter \in Nat \ {0}
    /\ MaxWaiters \in Nat \ {0} /\ MaxOpen \in Nat
    /\ Observer \notin Runs /\ None \notin Runs \cup {Observer}

VARIABLES
    b,         \* the bucket: controller, queues, open tickets, cooldown wake
    late,      \* a settled ticket is still to be released
    served,    \* history: runs granted by the last step
    probed,    \* history: a request was admitted since the last verdict
    stranded   \* history: an idle reset in an abort left waiters behind

vars == <<b, late, served, probed, stranded>>

Init ==
    /\ b = [cap |-> Ceiling, inFlight |-> 0, streak |-> 0, cooldown |-> "none",
            lastGood |-> 0, asked |-> "never",
            queues |-> <<>>, last |-> None, wake |-> FALSE,
            new |-> 0, old |-> 0]
    /\ late = FALSE /\ served = {} /\ probed = FALSE /\ stranded = FALSE

-----------------------------------------------------------------------------
(* The controller.                                                         *)

CanAdmit(s) == s.inFlight < s.cap /\ s.cooldown # "running"

(* epoch += 1: no open ticket is of the current epoch any more. *)
NewEpoch(s) == [s EXCEPT !.new = 0, !.old = @ + s.new]

Dirty(s) == s.cap # Ceiling \/ s.streak # 0 \/ s.cooldown # "none" \/ s.lastGood # 0
IdleReset(s) ==
    IF s.asked = "long" /\ s.inFlight = 0 /\ Dirty(s)
    THEN NewEpoch([s EXCEPT !.cap = Ceiling, !.streak = 0, !.cooldown = "none", !.lastGood = 0])
    ELSE s

(* One request less in flight, Math.max(0, inFlight - 1). *)
Left(s) == [s EXCEPT !.inFlight = IF @ = 0 THEN 0 ELSE @ - 1]

Waiting(s, r) == \E n \in DOMAIN s.queues : s.queues[n].run = r
NoWaiter(s) == s.queues = <<>>

Proven(s) == [s EXCEPT !.lastGood = IF s.cap > @ THEN s.cap ELSE @]
Succeeded(s, kind) ==
    LET more == [Left(s) EXCEPT !.streak = IF @ < IncreaseAfter THEN @ + 1 ELSE @]
    IN  CASE kind = "old" -> Left(s)
          [] kind = "new" /\ more.streak < IncreaseAfter -> more
          [] OTHER -> IF NoWaiter(s) \/ s.cap >= Ceiling THEN Proven(more)
                      ELSE [Proven(more) EXCEPT !.cap = @ + 1, !.streak = 0]

(* A verdict on the current cap; CONCURRENCY_FLOOR is 1.                    *)
Verdict(s) ==
    NewEpoch(IF s.lastGood # 0 /\ s.cap > s.lastGood
             THEN [s EXCEPT !.cap = s.lastGood]
             ELSE [s EXCEPT !.cap = IF @ = 1 THEN 1 ELSE (3 * @) \div 4, !.lastGood = 0])
(* Mutant: an answer of an older epoch is a verdict on the current cap too. *)
ThrottledAnyEpoch(s, kind, retryAfter) ==
    Verdict([Left(s) EXCEPT !.streak = 0, !.cooldown = IF retryAfter THEN "running" ELSE @])
Throttled(s, kind, retryAfter) ==
    LET hit == [Left(s) EXCEPT !.streak = 0, !.cooldown = IF retryAfter THEN "running" ELSE @]
    IN  IF kind = "new" THEN Verdict(hit) ELSE hit

FailedTransient(s) == [Left(s) EXCEPT !.streak = 0]
Ended(s) == Left(s)

-----------------------------------------------------------------------------
(* The governor.                                                           *)

Grant(s, h) ==
    [IdleReset(s) EXCEPT !.asked = "recent", !.inFlight = @ + 1, !.last = h,
                         !.new = @ + 1]

(* The run after the last granted one in the order the queues were made.   *)
(* Mutant: always the oldest queue.                                        *)
FirstRunWithWaiters(s) == s.queues[1].run
NextRunWithWaiters(s) ==
    LET n == Len(s.queues)
        at == {i \in 1..n : s.queues[i].run = s.last}
    IN  IF at = {} THEN s.queues[1].run
        ELSE s.queues[((CHOOSE i \in at : TRUE) % n) + 1].run

(* An empty queue is removed from the map. *)
Queue(s, r) == CHOOSE n \in DOMAIN s.queues : s.queues[n].run = r
Shifted(q, i) == IF q[i].n = 1 THEN RemoveAt(q, i) ELSE [q EXCEPT ![i].n = @ - 1]
Dequeue(s, r) == [s EXCEPT !.queues = Shifted(@, Queue(s, r))]
Enqueue(s, r) ==
    IF Waiting(s, r)
    THEN [s EXCEPT !.queues[Queue(s, r)].n = @ + 1]
    ELSE [s EXCEPT !.queues = Append(@, [run |-> r, n |-> 1])]

(* armCooldownWake *)
Arm(s) == [s EXCEPT !.wake = ~NoWaiter(s) /\ s.cooldown # "none"]

(* drain grants while the gate is open; at most Ceiling grants fit.  The    *)
(* outcomes of a drain (there is one): the bucket, and the runs granted.    *)
(* Mutant: one grant per drain.                                             *)
GrantOne(p) ==
    IF NoWaiter(p.s) \/ ~CanAdmit(p.s) THEN p
    ELSE LET r == NextRunWithWaiters(p.s)
         IN  [s |-> Grant(Dequeue(p.s, r), r), granted |-> p.granted \cup {r}]
DrainedOnce(s) == {GrantOne([s |-> IdleReset(s), granted |-> {}])}
Rounds(s) ==
    LET after[n \in 0..Ceiling] ==
            IF n = 0 THEN {[s |-> IdleReset(s), granted |-> {}]}
            ELSE {GrantOne(p) : p \in after[n - 1]}
    IN  after
Drained(s) == Rounds(s)[Ceiling]

-----------------------------------------------------------------------------
(* The queues are drained from bucket s; seen tells whether a request was   *)
(* admitted since the last verdict before that.                             *)
Drain(s, seen) ==
    \E p \in Drained(s) :
        /\ b' = Arm(p.s)
        /\ served' = p.granted
        /\ probed' = (seen \/ p.granted # {})
        /\ stranded' = FALSE

(* acquire of a run: tryAdmit, then admit. *)
Acquire(r) ==
    LET s == IdleReset(b)
    IN  /\ \A n \in DOMAIN b.queues : b.queues[n].run = r => b.queues[n].n < MaxWaiters
        /\ \/ /\ NoWaiter(s) /\ CanAdmit(s)
              /\ b' = Grant(s, r) /\ served' = {r} /\ probed' = TRUE
              /\ UNCHANGED stranded
           \/ /\ ~(NoWaiter(s) /\ CanAdmit(s))
              /\ Drain(Enqueue(s, r), probed)
        /\ UNCHANGED late

(* A request of the main agent: no queue, no gate; it moves the cursor out  *)
(* of the queues.                                                           *)
Observe ==
    /\ b.inFlight < MaxOpen
    /\ b' = Grant(b, Observer) /\ served' = {} /\ probed' = TRUE
    /\ UNCHANGED <<late, stranded>>

(* The signal of a queued request is aborted.  waiters() may reset an idle  *)
(* controller here, and nothing is granted.                                 *)
Abort(r) ==
    LET s == IdleReset(Dequeue(b, r))
    IN  /\ Waiting(b, r)
        /\ b' = Arm(s) /\ served' = {}
        /\ stranded' = (stranded \/ (~NoWaiter(s) /\ CanAdmit(s)))
        /\ UNCHANGED <<late, probed>>

(* A ticket of the current epoch or an older one gets its terminal event    *)
(* (publish) or is released without one ("ended").                          *)
Judged(s, kind, outcome) ==
    CASE outcome = "completed" -> Succeeded(s, kind)
      [] outcome = "throttled" -> Throttled(s, kind, FALSE)
      [] outcome = "retryAfter" -> Throttled(s, kind, TRUE)
      [] outcome = "transient" -> FailedTransient(s)
      [] OTHER -> Ended(s)
Outcomes == {"completed", "throttled", "retryAfter", "transient", "ended"}
Settle(kind, outcome) ==
    /\ b[kind] > 0
    /\ \E s \in {Judged(IdleReset([b EXCEPT ![kind] = @ - 1]), kind, outcome)} :
           Drain(s, probed /\ ~(kind = "new" /\ outcome \in {"throttled", "retryAfter"}))
    /\ late' = TRUE

(* release after the terminal event: the ticket is settled already.         *)
(* Mutant: it settles once more.                                            *)
LateReleaseEnds ==
    /\ late /\ late' = FALSE
    /\ Drain(Ended(b), probed)
LateRelease ==
    /\ late /\ late' = FALSE /\ served' = {}
    /\ UNCHANGED <<b, probed, stranded>>

(* The timer armed for the end of the cooldown; it also fires when an idle  *)
(* reset cleared the cooldown in the meantime.                              *)
Wake ==
    /\ b.wake /\ b.cooldown # "running"
    /\ Drain(b, probed) /\ UNCHANGED late

(* Time. *)
CooldownEnds ==
    /\ b.cooldown = "running" /\ b' = [b EXCEPT !.cooldown = "over"]
    /\ served' = {}
    /\ UNCHANGED <<late, probed, stranded>>
FiveMinutes ==
    /\ b.asked = "recent" /\ b' = [b EXCEPT !.asked = "long"]
    /\ served' = {}
    /\ UNCHANGED <<late, probed, stranded>>

SettleAny == \E kind \in {"new", "old"}, outcome \in Outcomes : Settle(kind, outcome)
Next ==
    \/ \E r \in Runs : Acquire(r) \/ Abort(r)
    \/ Observe
    \/ SettleAny \/ LateRelease \/ Wake \/ CooldownEnds \/ FiveMinutes

Spec == Init /\ [][Next]_vars

(* An attempt ends (the runner releases in a finally), timers fire. *)
Fairness ==
    /\ WF_vars(SettleAny) /\ WF_vars(Wake) /\ WF_vars(CooldownEnds)
FairSpec == Spec /\ Fairness

-----------------------------------------------------------------------------
RunQueues == Seq([run : Runs, n : 1..MaxWaiters])
Buckets ==
    [cap : 1..Ceiling, inFlight : Nat, streak : 0..IncreaseAfter,
     cooldown : {"none", "running", "over"}, lastGood : 0..Ceiling,
     asked : {"never", "recent", "long"}, queues : RunQueues,
     last : Runs \cup {Observer, None}, wake : BOOLEAN, new : Nat, old : Nat]

(* Types; and the controller counts exactly the tickets that are open,      *)
(* however their ends reach it (mintTicket settles once; Math.max(0, ..)    *)
(* hides nothing).                                                          *)
TypeOK ==
    /\ b \in Buckets
    /\ \A m, n \in DOMAIN b.queues : b.queues[m].run = b.queues[n].run => m = n
    /\ b.inFlight = b.new + b.old
    /\ late \in BOOLEAN /\ served \subseteq Runs
    /\ probed \in BOOLEAN /\ stranded \in BOOLEAN

(* Whoever waits waits for something that comes: the requests in flight     *)
(* fill the cap, or the wake of a cooldown is armed.  Excepted are waiters  *)
(* left behind by an abort that reset an idle controller: nothing looks at  *)
(* them before the next request does.                                       *)
EveryWaiterWaitsForSomething ==
    NoWaiter(b) \/ stranded \/ b.inFlight >= b.cap \/ b.wake

(* One burst of requests lowers the cap once: between two cuts a request    *)
(* has been admitted (answers of an older epoch are not verdicts).          *)
CutNeedsAProbe == [][b'.cap < b.cap => probed]_vars

(* A run is served again and again, or does not wait.                       *)
Served(r) == []<>(~Waiting(b, r) \/ r \in served \/ stranded)

(* A run that waits is served, under attempts that end, once aborts and the *)
(* main agent's requests cease: no run is passed by for ever for another.   *)
WaitersAreServed ==
    <>[][~Observe /\ \A r \in Runs : ~Abort(r)]_vars => \A r \in Runs : Served(r)

(* "Round robin between the runs: a large fan-out cannot starve a small run *)
(* that comes later": when one run is served again and again, so is every   *)
(* other that waits, whatever the main agent does in the meantime.          *)
NoRunStarves ==
    <>[][\A r \in Runs : ~Abort(r)]_vars
        => \A q, r \in Runs : []<>(q \in served) => Served(r)
=============================================================================
