----------------------------- MODULE Escalation -----------------------------
(***************************************************************************)
(* SLA escalation of one thread: the quarter-hourly sweep and the delayed  *)
(* check of the thread, next to the routes and jobs that write the thread. *)
(* A check reads the thread, then (for the admin levels) who the admins    *)
(* are, and then claims and notifies in one transaction, whose snapshot of *)
(* the thread may be stale by then.                                        *)
(*                                                                         *)
(* A period is the time between two activities of the thread.  A check's   *)
(* now is its read: an activity between the two makes the age negative and *)
(* the check want nothing.                                                 *)
(***************************************************************************)
EXTENDS Naturals, FiniteSets

CONSTANTS
  Sweeps,      \* concurrent check-all-escalations jobs
  Delayed,     \* check-escalation jobs of the thread
  Priorities,  \* the priorities the thread may have
  Hours,       \* bound: the ages of a period that are told apart
  MaxPeriods,  \* bound: periods of the thread
  Stalls       \* whether a check may be held up for hours between two statements

SlaDefaults == [CRITICAL |-> 2, HIGH |-> 4, NORMAL |-> 24, LOW |-> 72]

ASSUME EscalationAssumption ==
  /\ Sweeps \cap Delayed = {}
  /\ Priorities \subseteq DOMAIN SlaDefaults
  /\ Hours \subseteq Nat /\ 0 \in Hours
  /\ MaxPeriods \in Nat
  /\ Stalls \in BOOLEAN

Checks == Sweeps \cup Delayed
NoMark == 0
Level == <<"SLA_WARNING", "ESCALATION">>

\* OPEN stands for every other status: only these are told apart.
ThreadStatuses == {"AWAITING_RESPONSE", "OPEN", "RESOLVED"}

VARIABLES
  thread,    \* the threads row; age is the hours since lastActivityAt, mark is
             \* lastEscalatedAt (the number of the claim) and markPeriod its period
  assigned,  \* assignedToId is set
  admins,    \* an active admin exists
  check,     \* locals of checkThreadEscalation
  alerts,    \* notifications committed, by type, the period that the check read
             \* and the replies that had reset the marker by then
  claims,    \* history: levels claimed
  resets     \* history: replies that reset the marker

history == <<alerts, claims>>
vars == <<thread, assigned, admins, check, history, resets>>

Types == {"SLA_WARNING", "ESCALATION", "SLA_BREACH"}
Alerts == [type : Types, period : 0..MaxPeriods, resets : 0..MaxPeriods]

Threads ==
  [status : ThreadStatuses, priority : Priorities, period : 0..MaxPeriods, age : Hours,
   level : 0..2, mark : Nat, markPeriod : 0..MaxPeriods, breached : BOOLEAN]

NewThread(p) ==
  [status |-> "AWAITING_RESPONSE", priority |-> p, period |-> 0, age |-> 0,
   level |-> 0, mark |-> NoMark, markPeriod |-> 0, breached |-> FALSE]

Idle == [pc |-> "idle"]

Locals ==
  {Idle} \cup [pc : {"admins", "claim"}, wants : 0..2, breach : BOOLEAN,
               period : 0..MaxPeriods, current : 0..2, mark : Nat, told : BOOLEAN]

TypeOK ==
  /\ thread \in Threads
  /\ assigned \in BOOLEAN /\ admins \in BOOLEAN
  /\ check \in [Checks -> Locals]
  /\ alerts \in [Alerts -> Nat] /\ claims \in Nat
  /\ resets \in 0..MaxPeriods

Init ==
  /\ thread \in {NewThread(p) : p \in Priorities}
  /\ assigned \in BOOLEAN /\ admins = TRUE
  /\ check = [c \in Checks |-> Idle]
  /\ alerts = [a \in Alerts |-> 0]
  /\ claims = 0 /\ resets = 0

-----------------------------------------------------------------------------
\* The thread's other writers.

\* Activity restarts the clock; only a reply also clears the marker.
Activity(s) ==
  /\ thread.period < MaxPeriods
  /\ thread' = [thread EXCEPT !.status = s, !.period = @ + 1, !.age = 0]
  /\ UNCHANGED <<assigned, admins, check, history, resets>>

AddMessage == \E s \in {"AWAITING_RESPONSE", "OPEN"} : Activity(s)

\* Mail newer than the last activity, scanned when it arrives; urgent mail
\* raises the priority.
IngestMail ==
  /\ thread.period < MaxPeriods
  /\ \E p \in {thread.priority} \cup ({"HIGH"} \cap Priorities) :
       thread' = [thread EXCEPT !.priority = p, !.period = @ + 1, !.age = 0]
  /\ UNCHANGED <<assigned, admins, check, history, resets>>

Reply(s) ==
  /\ thread.period < MaxPeriods
  /\ thread' = [thread EXCEPT !.status = s, !.period = @ + 1, !.age = 0,
                              !.level = 0, !.mark = NoMark]
  /\ resets' = resets + 1
  /\ UNCHANGED <<assigned, admins, check, history>>

RecordSend == Reply("AWAITING_RESPONSE")
MarkSent == Reply("OPEN")

UpdateThread(s, p) ==
  /\ <<s, p>> # <<thread.status, thread.priority>>
  /\ thread' = [thread EXCEPT !.status = s, !.priority = p]
  /\ UNCHANGED <<assigned, admins, check, history, resets>>

\* SNOOZED is one of the statuses that OPEN stands for.
SnoozeThread == UpdateThread("OPEN", thread.priority)
ResolveThread == UpdateThread("RESOLVED", thread.priority)

AssignThread ==
  /\ ~assigned
  /\ assigned' = TRUE
  /\ UNCHANGED <<thread, admins, check, history, resets>>

AdminsChange ==
  /\ admins' = ~admins
  /\ UNCHANGED <<thread, assigned, check, history, resets>>

TimePasses ==
  /\ Stalls \/ \A c \in Checks : check[c] = Idle
  /\ \E h \in Hours :
       /\ h > thread.age /\ \A g \in Hours : g > thread.age => h <= g
       /\ thread' = [thread EXCEPT !.age = h]
  /\ UNCHANGED <<assigned, admins, check, history, resets>>

-----------------------------------------------------------------------------
\* The level already notified in the current period.
CurrentLevel(t) == IF t.mark = NoMark \/ t.period > t.markPeriod THEN 0 ELSE t.level

\* The level a check of the thread wants to claim, 0 if none.
Wants ==
  CASE thread.age >= 4 /\ thread.age < 8 /\ assigned /\ CurrentLevel(thread) < 1 -> 1
    [] thread.age >= 8 /\ CurrentLevel(thread) < 2 -> 2
    [] OTHER -> 0

WantsBreach == thread.age >= SlaDefaults[thread.priority] /\ ~thread.breached

\* Mutant: the sweep skips threads it has marked.
InScopeUnmarked(c) ==
  IF c \in Sweeps THEN thread.status = "AWAITING_RESPONSE" /\ ~thread.breached /\ thread.mark = NoMark
  ELSE thread.status # "RESOLVED"

\* What the sweep looks at, and what a check of one thread does.
InScope(c) ==
  IF c \in Sweeps THEN thread.status = "AWAITING_RESPONSE" /\ ~thread.breached
  ELSE thread.status # "RESOLVED"

\* A check that wants nothing returns, and is no step.  The rest of the thread
\* it read is used for the notifications' text only.
CheckRead(c) ==
  /\ check[c] = Idle /\ InScope(c)
  /\ Wants > 0 \/ WantsBreach
  /\ check' = [check EXCEPT ![c] =
                 [pc |-> IF Wants = 2 \/ WantsBreach THEN "admins" ELSE "claim",
                  wants |-> Wants, breach |-> WantsBreach, period |-> thread.period,
                  current |-> CurrentLevel(thread), mark |-> thread.mark, told |-> FALSE]]
  /\ UNCHANGED <<thread, assigned, admins, history, resets>>

ReadAdmins(c) ==
  /\ check[c].pc = "admins"
  /\ check' = [check EXCEPT ![c].pc = "claim", ![c].told = admins]
  /\ UNCHANGED <<thread, assigned, admins, history, resets>>

\* Mutant: the claim is not conditional on the marker.
UnmovedAlways(t) == TRUE

\* claimEscalationLevel: the marker is the one that was read, and the level of
\* a marker of this period is lower.
Unmoved(t) ==
  /\ thread.mark = t.mark
  /\ t.current > 0 => thread.level < t.wants

Breachable == ~thread.breached

\* Mutant: the marker is set to the time of the claim.
MarkedNow(t) == thread.period

\* The marker is set to the time of the check, not of the claim.
MarkedAt(t) == t.period

Alert(type, t) == [type |-> type, period |-> t.period, resets |-> resets]

\* The transaction: claims and notifications together.  Without an active admin
\* the admin levels stay unclaimed.
Claim(c) ==
  /\ check[c].pc = "claim"
  /\ LET t == check[c]
         claimed == t.wants > 0 /\ (t.wants = 2 => t.told) /\ Unmoved(t)
         breached == t.breach /\ t.told /\ Breachable
         marked == [thread EXCEPT !.level = t.wants, !.mark = claims + 1, !.markPeriod = MarkedAt(t)]
         sent == (IF claimed THEN {Alert(Level[t.wants], t)} ELSE {})
                   \cup (IF breached THEN {Alert("SLA_BREACH", t)} ELSE {})
     IN /\ thread' = [(IF claimed THEN marked ELSE thread) EXCEPT !.breached = @ \/ breached]
        /\ claims' = IF claimed THEN claims + 1 ELSE claims
        /\ alerts' = [a \in Alerts |-> IF a \in sent THEN alerts[a] + 1 ELSE alerts[a]]
  /\ check' = [check EXCEPT ![c] = Idle]
  /\ UNCHANGED <<assigned, admins, resets>>

\* A failed transaction or a dead worker: nothing was committed.
CheckFails(c) ==
  /\ check[c] # Idle
  /\ check' = [check EXCEPT ![c] = Idle]
  /\ UNCHANGED <<thread, assigned, admins, history, resets>>

-----------------------------------------------------------------------------
Next ==
  \/ AddMessage \/ IngestMail \/ RecordSend \/ MarkSent
  \/ \E s \in ThreadStatuses, p \in Priorities : UpdateThread(s, p)
  \/ SnoozeThread \/ ResolveThread \/ AssignThread \/ AdminsChange \/ TimePasses
  \/ \E c \in Checks : CheckRead(c) \/ ReadAdmins(c) \/ Claim(c) \/ CheckFails(c)

Spec == Init /\ [][Next]_vars

\* The clock runs, the sweep runs every quarter of an hour, and it does not fail
\* every time (BullMQ retries it).
FairSpec ==
  /\ Spec
  /\ WF_vars(TimePasses)
  /\ \A c \in Sweeps : WF_vars(CheckRead(c)) /\ SF_vars(ReadAdmins(c)) /\ SF_vars(Claim(c))

-----------------------------------------------------------------------------
\* The sweep, the delayed check and a second worker never repeat an alert about
\* a quiet period, until a reply ends it and clears the marker: then a check that
\* had read the thread before may send it once more.  The breach of a thread is
\* notified once in its life.
RepeatNeedsReply ==
  /\ \A a \in Alerts : alerts[a] <= 1
  /\ Cardinality({a \in Alerts : a.type = "SLA_BREACH" /\ alerts[a] > 0}) <= 1

\* A marker that counts in this period was set by an alert about this period:
\* a check that claims late, with a thread it read before a reply or a message,
\* never silences the levels of the new period.
NeverSilenced ==
  CurrentLevel(thread) > 0 =>
    \E a \in Alerts : /\ a.period = thread.period /\ a.type = Level[CurrentLevel(thread)]
                      /\ alerts[a] > 0

Escalated(p) ==
  \E a \in Alerts : a.period = p /\ a.type = "ESCALATION" /\ alerts[a] > 0

QuietFor8Hours(p) ==
  thread.period = p /\ thread.status = "AWAITING_RESPONSE" /\ thread.age >= 8

\* A thread that has waited for 8 hours is escalated to the admins, if there is
\* one, unless its SLA was breached before those 8 hours were over.  The breach
\* that the escalating check itself records is no excuse.
QuietIsEscalated ==
  \A p \in 0..MaxPeriods :
    QuietFor8Hours(p) /\ ~thread.breached ~> Escalated(p) \/ ~QuietFor8Hours(p) \/ ~admins

=============================================================================
