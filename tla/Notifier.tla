----------------------------- MODULE Notifier -----------------------------
(***************************************************************************)
(* The alerts that reach a person: notifications/actor.py, the Filter of   *)
(* filters.py and the fan-out of delivery.py.                              *)
(*                                                                         *)
(* Two threads: the bus, on which an alert is filtered and the component's *)
(* state follows the count of failures, and the executor, which sends one  *)
(* alert at a time and keeps that count.  Every time is kept as an age, up *)
(* to Old, beyond which no window looks.                                   *)
(***************************************************************************)
EXTENDS Naturals, SequencesExt

CONSTANTS
    Alerts,         \* the payloads published
    Key,            \* Filter.key of each: what makes two the same finding
    Unwanted,       \* no title, below the level or the floor, or off the list
    Urgent,         \* critical ones
    Uncapped,       \* the ones whose shape the hourly cap may not drop
    Unheard,        \* the ones no channel takes
    Broken,         \* the ones _deliver raises on: an `at` that is no number
    Cooldown, Hour, \* the two windows, in ticks
    MaxPerHour, Memory, DegradeAfter,
    MaxQueue,       \* bound on the alerts handed to the executor
    MaxRestarts     \* bound on the restarts

ASSUME NotifierAssumption ==
    /\ {Cooldown, Hour, Memory, DegradeAfter, MaxQueue} \subseteq Nat \ {0}
    /\ {MaxPerHour, MaxRestarts} \subseteq Nat
    /\ Unwanted \cup Urgent \cup Uncapped \cup Unheard \cup Broken \subseteq Alerts

VARIABLES
    state,          \* the component's state
    sent,           \* Filter._sent: findings by when they were accepted last
    recent,         \* Filter._recent: when the hour's alerts were accepted
    queue,          \* accepted alerts the executor has not sent yet
    undelivered,    \* _undelivered, counted up to DegradeAfter
    file,           \* what on_save last returned
    up,             \* the channels can be reached and sending does not raise
    log,            \* history: what was accepted, as far back as a window looks
    restarts        \* how often the process was started again

vars == <<state, sent, recent, queue, undelivered, file, up, log, restarts>>

Old == IF Cooldown > Hour THEN Cooldown ELSE Hour
Keys == {Key[a] : a \in Alerts}
Finding == [key : Keys, age : 0..Old]
Accepted == [key : Keys, age : 0..Old, capped : BOOLEAN, mine : BOOLEAN, saved : BOOLEAN]

Init ==
    /\ state = "ready" /\ sent = <<>> /\ recent = <<>> /\ queue = <<>>
    /\ undelivered = 0 /\ file = <<>> /\ up = TRUE /\ log = <<>> /\ restarts = 0

---------------------------------------------------------------------------
(* The filter: Filter.rejects and accept.                                  *)

Capped(a) == a \notin Urgent \cup Uncapped

\* The same finding, or another alert of it, inside the cooling-off window.
Repeat(a) == \E i \in DOMAIN sent : sent[i].key = Key[a] /\ sent[i].age < Cooldown

\* What is kept of a list in order of time once the entries at old have run out.
Since(s, old) == SubSeq(s, Cardinality(old) + 1, Len(s))

ThisHour == Since(recent, {i \in DOMAIN recent : recent[i] >= Hour})

\* A ceiling of zero is no ceiling.
OverCap(a) == Capped(a) /\ MaxPerHour > 0 /\ Len(ThisHour) >= MaxPerHour

\* An OrderedDict: the finding is taken from where it was, and goes to the end.
AtTheEnd(a) ==
    LET others == IF \E i \in DOMAIN sent : sent[i].key = Key[a]
                  THEN RemoveAt(sent, CHOOSE i \in DOMAIN sent : sent[i].key = Key[a])
                  ELSE sent
    IN  Append(others, [key |-> Key[a], age |-> 0])

\* Mutant: the oldest is dropped only when the memory was over already.
RememberedPast(a) == IF Len(sent) > Memory THEN Tail(AtTheEnd(a)) ELSE AtTheEnd(a)

\* Mutant: a finding keeps the place it had when it was first accepted.
RememberedInPlace(a) ==
    LET known == \E i \in DOMAIN sent : sent[i].key = Key[a]
        all == IF known
               THEN [i \in DOMAIN sent |->
                        IF sent[i].key = Key[a] THEN [key |-> Key[a], age |-> 0] ELSE sent[i]]
               ELSE Append(sent, [key |-> Key[a], age |-> 0])
    IN  IF Len(all) > Memory THEN Tail(all) ELSE all

\* _sent, the oldest dropped past Memory.
Remembered(a) == IF Len(AtTheEnd(a)) > Memory THEN Tail(AtTheEnd(a)) ELSE AtTheEnd(a)

\* Mutant: what the cap may not drop does not count toward it.
CountedCapped(a) == IF Capped(a) THEN Append(ThisHour, 0) ELSE ThisHour

Counted(a) == Append(ThisHour, 0)

\* Decided, and remembered, before anything is sent.
Accept(a) ==
    /\ sent' = Remembered(a)
    /\ recent' = Counted(a)
    /\ queue' = Append(queue, a)
    /\ log' = Append(log, [key |-> Key[a], age |-> 0, capped |-> Capped(a),
                           mine |-> TRUE, saved |-> FALSE])

---------------------------------------------------------------------------
(* The bus: on_alert.                                                      *)

\* Mutant: what has degraded never resumes.
ReconciledNever ==
    IF state = "running" /\ undelivered >= DegradeAfter THEN "degraded" ELSE state

\* _reconcile, before the alert is looked at.
Reconciled ==
    IF state = "running" /\ undelivered >= DegradeAfter THEN "degraded"
    ELSE IF state = "degraded" /\ undelivered = 0 THEN "running" ELSE state

\* The subscription outlives a stop, and what comes to a stopped actor is dropped.
OnAlert(a) ==
    /\ state # "disposed" /\ Len(queue) < MaxQueue
    /\ state' = Reconciled
    /\ IF state \notin {"running", "degraded"} \/ a \in Unwanted \/ Repeat(a)
       THEN UNCHANGED <<sent, recent, queue, log>>
       ELSE IF OverCap(a) THEN recent' = ThisHour /\ UNCHANGED <<sent, queue, log>>
       ELSE Accept(a)
    /\ UNCHANGED <<undelivered, file, up, restarts>>

---------------------------------------------------------------------------
(* The executor: _deliver, _record and _note.                              *)

\* Mutant: failures in a row are not added up.
FailuresOnce == 1

Failures == IF undelivered < DegradeAfter THEN undelivered + 1 ELSE undelivered

\* Delivered where any channel took it; no channel for it is not a failure.
\* What raises, in the building or before the fan-out, is one for any alert.
Deliver ==
    /\ queue # <<>> /\ queue' = Tail(queue)
    /\ LET a == Head(queue) IN
       \/ (a \in Broken \/ ~up) /\ undelivered' = Failures
       \/ a \in Unheard \ Broken /\ UNCHANGED undelivered
       \/ a \notin Unheard \cup Broken /\ up /\ undelivered' = 0
    /\ UNCHANGED <<state, sent, recent, file, up, log, restarts>>

---------------------------------------------------------------------------
(* The lifecycle (the component's state machine is the framework's), the   *)
(* clock and the channels.                                                 *)

\* on_start: a filter, unless one was loaded.
OnStart ==
    /\ state = "ready" /\ state' = "running"
    /\ UNCHANGED <<sent, recent, queue, undelivered, file, up, log, restarts>>

\* on_stop: of an actor that is running.
OnStop ==
    /\ state = "running" /\ state' = "stopped"
    /\ UNCHANGED <<sent, recent, queue, undelivered, file, up, log, restarts>>

\* on_resume, by the framework: nothing to redo.
OnResume ==
    /\ state = "stopped" /\ state' = "running"
    /\ UNCHANGED <<sent, recent, queue, undelivered, file, up, log, restarts>>

\* on_reset: the window, the hour and the count go.
OnReset ==
    /\ state = "stopped" /\ state' = "ready"
    /\ sent' = <<>> /\ recent' = <<>> /\ undelivered' = 0 /\ log' = <<>>
    /\ UNCHANGED <<queue, file, up, restarts>>

\* on_save: the window, and not the hour.
OnSave ==
    /\ state \in {"running", "degraded", "stopped"}
    /\ file' = sent
    /\ log' = [i \in DOMAIN log |-> [log[i] EXCEPT !.saved = TRUE]]
    /\ UNCHANGED <<state, sent, recent, queue, undelivered, up, restarts>>

\* The process ends, and another loads what was saved (on_load); what is known of
\* the past is what was accepted before the last save.
Restart ==
    /\ restarts < MaxRestarts /\ restarts' = restarts + 1
    /\ state' = "ready" /\ sent' = file
    /\ recent' = <<>> /\ queue' = <<>> /\ undelivered' = 0
    /\ log' = [i \in 1 .. Cardinality({n \in DOMAIN log : log[n].saved}) |->
                  [log[i] EXCEPT !.mine = FALSE]]
    /\ UNCHANGED <<file, up>>

OnDispose ==
    /\ state \in {"ready", "stopped", "degraded"} /\ state' = "disposed"
    /\ UNCHANGED <<sent, recent, queue, undelivered, file, up, log, restarts>>

Older(age) == IF age < Old THEN age + 1 ELSE age
Aged(es) == [i \in DOMAIN es |-> [es[i] EXCEPT !.age = Older(@)]]

Tick ==
    /\ sent' = Aged(sent) /\ file' = Aged(file)
    /\ recent' = [i \in DOMAIN recent |-> Older(recent[i])]
    /\ log' = Since(Aged(log), {i \in DOMAIN log : Older(log[i].age) = Old})
    /\ UNCHANGED <<state, queue, undelivered, up, restarts>>

Channels ==
    /\ up' = ~up
    /\ UNCHANGED <<state, sent, recent, queue, undelivered, file, log, restarts>>

---------------------------------------------------------------------------
Next ==
    \/ \E a \in Alerts : OnAlert(a)
    \/ Deliver \/ Tick \/ Channels
    \/ OnStart \/ OnStop \/ OnResume \/ OnReset \/ OnSave \/ Restart \/ OnDispose

Spec == Init /\ [][Next]_vars

\* The executor runs what it was handed, time passes, and an alarm somebody
\* should hear keeps being raised.
LiveSpec == /\ Spec /\ WF_vars(Deliver) /\ WF_vars(Tick)
            /\ \A a \in Urgent \ (Unwanted \cup Unheard \cup Broken) : SF_vars(OnAlert(a))
---------------------------------------------------------------------------
(* Type invariant of the model (no code behaviour of its own).             *)
TypeOK ==
    /\ state \in {"ready", "running", "degraded", "stopped", "disposed"}
    /\ sent \in Seq(Finding) /\ Len(sent) <= Memory
    /\ file \in Seq(Finding) /\ Len(file) <= Memory
    /\ recent \in Seq(0..Old) /\ queue \in Seq(Alerts) /\ Len(queue) <= MaxQueue
    /\ undelivered \in 0..DegradeAfter
    /\ up \in BOOLEAN /\ log \in Seq(Accepted) /\ restarts \in 0..MaxRestarts

(* The same finding is accepted once in a cooling-off window, whatever its *)
(* level, and after a stop and a resume or a restart that saved, too; the  *)
(* one exception is a finding that Memory others have pushed out.          *)
NotRepeated ==
    \A i, j \in DOMAIN log :
        /\ i < j /\ log[i].key = log[j].key /\ log[i].age - log[j].age < Cooldown
        => Cardinality({log[n].key : n \in i + 1 .. j - 1}) >= Memory

(* Nothing that is neither an alarm nor a trade is accepted once the hour  *)
(* before it holds MaxPerHour alerts, the alarms and trades among them, as *)
(* far as the running process remembers.                                   *)
HourIsKept ==
    MaxPerHour > 0 =>
    \A i \in DOMAIN log : log[i].mine /\ log[i].capped =>
        Cardinality({n \in 1 .. i - 1 : log[n].mine /\ log[n].age - log[i].age < Hour})
            < MaxPerHour

(* A degraded notifier notices that the channels are back: it keeps trying, *)
(* because an alarm passes the cap and outlives its own cooldown.  An alert *)
(* that cannot be built counts as one that reached nobody, so one of them  *)
(* after each alarm would keep a notifier degraded that delivers the rest: *)
(* from some time on none must come.                                       *)
Unbuilt == \E i \in DOMAIN queue : queue[i] \in Broken
ComesBack == <>[](up /\ ~ Unbuilt) => []<>(state # "degraded")

(* A notifier that reaches nobody says so: it does not stay running.        *)
SaysSo == <>[]~up => []<>(state # "running")
=============================================================================
