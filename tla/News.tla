-------------------------------- MODULE News --------------------------------
(***************************************************************************)
(* The calendar: the collector of adapters/news/client.py, the store it    *)
(* writes (store.py), what it publishes from it and the history it serves  *)
(* from it.                                                                *)
(*                                                                         *)
(* The collector is one task: a pass asks every due provider, writes what  *)
(* came back a provider at a time, and sweeps the store.  Providers,       *)
(* clock, disconnections and the end of the process come between.          *)
(*                                                                         *)
(* An entry is its release time and whether its figure is out; entries     *)
(* below the floor or of other countries (_carried), which nothing tells,  *)
(* and headlines and macro rows, which nothing publishes, are left out.    *)
(***************************************************************************)
EXTENDS Integers, Sequences

CONSTANTS
    Entries,        \* what the calendars list, a row of the store each
    Sources,        \* the calendars, all of them slow
    SourceOf,       \* whose entry it is: a row is keyed by its source, too
    Derived,        \* entries whose id is made from their time
    Times,          \* release times
    Lead,           \* how long before its release an entry is announced
    Back, Ahead,    \* how far the sweep looks
    Behind, Forward,\* how far a calendar lists
    Early,          \* how long before its time a provider may have the figure
    Answering,      \* a source that answers again and again (for the liveness)
    Slow,           \* passes from one fetch of the calendars to the next
    MaxTime,        \* bound on the clock
    MaxRestarts     \* bound on the processes

ASSUME NewsAssumption ==
    /\ SourceOf \in [Entries -> Sources] /\ Answering \in Sources
    /\ Derived \subseteq Entries /\ Times \subseteq Nat /\ {Lead, Slow} \subseteq Nat \ {0}
    /\ {Back, Ahead, Behind, Forward, Early, MaxTime, MaxRestarts} \subseteq Nat
    /\ Behind <= Back

VARIABLES
    now,            \* the clock
    feed,           \* what the providers have: listed or not, when, figure or not
    store,          \* the events table
    published,      \* _published: (entry, stage)
    told,           \* history: the stages handed over by this process, in order
    dropped,        \* history: the ones noted whose handing over raised
    phase,          \* where _poll stands
    live,           \* the sources that opened
    slowIn,         \* passes till the calendars are due (next_slow)
    asking,         \* sources that have not answered
    pending,        \* sources whose batch is not written yet
    got,            \* their batches
    restarts        \* how often the process was started again

vars == <<now, feed, store, published, told, dropped, phase, live, slowIn, asking, pending, got, restarts>>
collector == <<phase, live, slowIn, asking, pending, got>>

Stage == {"scheduled", "released"}
NoRow == [time |-> 0, out |-> FALSE, kept |-> FALSE]
Row == [time : Times \cup {0}, out : BOOLEAN, kept : BOOLEAN]
Entry == [time : Times, out : BOOLEAN, listed : BOOLEAN]

Init ==
    /\ now = 0
    /\ feed \in {f \in [Entries -> Entry] : \A e \in Entries : ~f[e].out /\ f[e].listed}
    /\ store = [e \in Entries |-> NoRow] /\ published = {}
    /\ told = [e \in Entries |-> <<>>] /\ dropped = {}
    /\ phase = "off" /\ live = {} /\ slowIn = 0 /\ asking = {} /\ pending = {}
    /\ got = [e \in Entries |-> NoRow] /\ restarts = 0

---------------------------------------------------------------------------
(* One stored row as its two publishable states: _stages and what          *)
(* _calendar_history serves.                                               *)

\* The announcement is in every row, the release once the figure is.
Has(row, s) == row.kept /\ (s = "released" => row.out)
At(row, s) == IF s = "scheduled" THEN row.time - Lead ELSE row.time

\* Mutant: a release that has not happened is knowable.
KnowableAtOnce(e, s) ==
    Has(store[e], s) /\ store[e].time >= now - Back /\ store[e].time <= now + Ahead

\* In the window of the sweep, and its moment has come.
Knowable(e, s) ==
    /\ Has(store[e], s) /\ store[e].time >= now - Back /\ store[e].time <= now + Ahead
    /\ At(store[e], s) <= now

\* Mutant: what was published is published again.
FreshOrNot(e, s) == Knowable(e, s)

\* Mutant: an entry is known once one of its stages was published.
FreshByEntry(e, s) == (\A x \in Stage : <<e, x>> \notin published) /\ Knowable(e, s)

Fresh(e, s) == <<e, s>> \notin published /\ Knowable(e, s)

Due == {k \in Entries \X Stage : Fresh(k[1], k[2])}

\* The stages of these keys are handed over, the announcement first.
Said(e, s, said, keys) == IF <<e, s>> \in keys THEN Append(said, s) ELSE said
Hands(keys) ==
    told' = [e \in Entries |->
                Said(e, "released", Said(e, "scheduled", told[e], keys), keys)]

---------------------------------------------------------------------------
(* The collector: _poll and fetch_into.                                    *)

\* _connect: the store opens, and the sources that can.
Connect ==
    /\ phase = "off" /\ phase' = "asleep" /\ live' \in SUBSET Sources
    /\ UNCHANGED <<now, feed, store, published, told, dropped, slowIn, asking, pending, got, restarts>>

\* The store does not open: "collecting stopped", till the next connection.
ConnectFails ==
    /\ phase = "off" /\ phase' = "failed"
    /\ UNCHANGED <<now, feed, store, published, told, dropped, live, slowIn, asking, pending, got, restarts>>

\* Mutant: the calendars are due a pass late.
NextSlowLate == IF slowIn = 0 THEN {Slow} ELSE 0 .. slowIn - 1

\* A pass that takes long brings the next fetch nearer by more than itself.
NextSlow == IF slowIn = 0 THEN {Slow - 1} ELSE 0 .. slowIn - 1

\* A pass begins; the clock of the calendars is set before they are asked.
Begin ==
    /\ phase = "asleep" /\ phase' = "pass"
    /\ asking' = IF slowIn = 0 THEN live ELSE {}
    /\ slowIn' \in NextSlow
    /\ UNCHANGED <<now, feed, store, published, told, dropped, live, pending, got, restarts>>

\* In the window of days the source asks for or its file covers.
Served(e) == /\ feed[e].listed
             /\ feed[e].time >= now - Behind /\ feed[e].time <= now + Forward

\* A source answers with its whole window.
Polled(s) ==
    /\ phase = "pass" /\ s \in asking
    /\ asking' = asking \ {s} /\ pending' = pending \cup {s}
    /\ got' = [e \in Entries |->
                  IF SourceOf[e] = s
                  THEN [time |-> feed[e].time, out |-> feed[e].out, kept |-> Served(e)]
                  ELSE got[e]]
    /\ UNCHANGED <<now, feed, store, published, told, dropped, phase, live, slowIn, restarts>>

\* Its attempts are over: counted, and the others go on.
PollFails(s) ==
    /\ phase = "pass" /\ s \in asking
    /\ asking' = asking \ {s}
    /\ UNCHANGED <<now, feed, store, published, told, dropped, phase, live, slowIn, pending, got, restarts>>

\* The upsert: a row that changed is rewritten, one not listed stays.
Upserted(s) == [e \in Entries |-> IF SourceOf[e] = s /\ got[e].kept THEN got[e] ELSE store[e]]

\* write_events, once every source has answered, in the order of the settings.
Written(s) ==
    /\ phase = "pass" /\ asking = {} /\ s \in pending
    /\ store' = Upserted(s) /\ pending' = pending \ {s}
    /\ got' = [e \in Entries |-> IF SourceOf[e] = s THEN NoRow ELSE got[e]]
    /\ UNCHANGED <<now, feed, published, told, dropped, phase, live, slowIn, asking, restarts>>

\* A write of events or of headlines raises: the rest of the pass is skipped.
PassFails ==
    /\ phase = "pass" /\ asking = {}
    /\ phase' = "asleep" /\ pending' = {} /\ got' = [e \in Entries |-> NoRow]
    /\ UNCHANGED <<now, feed, store, published, told, dropped, live, slowIn, asking, restarts>>

\* _sweep: the announcement of a row before its release, each once.
Sweep ==
    /\ phase = "pass" /\ asking = {} /\ pending = {} /\ phase' = "asleep"
    /\ Hands(Due) /\ published' = published \cup Due
    /\ UNCHANGED <<now, feed, store, dropped, live, slowIn, asking, pending, got, restarts>>

\* What a sweep that stops at the key k has done: rows before, and the
\* announcement of its own.
DoneBefore(k, before) ==
    {n \in Due : n[1] \in before \/ (n[1] = k[1] /\ n[2] = "scheduled")} \ {k}

\* Handing over the key k raises: it was noted first, and the rest is skipped.
SweepBreaks ==
    /\ phase = "pass" /\ asking = {} /\ pending = {} /\ phase' = "asleep"
    /\ \E k \in Due : \E before \in SUBSET (Entries \ {k[1]}) :
        /\ Hands(DoneBefore(k, before))
        /\ published' = published \cup DoneBefore(k, before) \cup {k}
        /\ dropped' = dropped \cup {k}
    /\ UNCHANGED <<now, feed, store, live, slowIn, asking, pending, got, restarts>>

\* The store cannot be read: a warning, and nothing is published.
SweepBlind ==
    /\ phase = "pass" /\ asking = {} /\ pending = {} /\ phase' = "asleep"
    /\ UNCHANGED <<now, feed, store, published, told, dropped, live, slowIn, asking, pending, got, restarts>>

\* The task is gone; a write with its thread is done or is not.
Cut ==
    /\ phase' = "off" /\ asking' = {} /\ pending' = {} /\ got' = [e \in Entries |-> NoRow]
    /\ live' = {} /\ slowIn' = 0
    /\ \/ store' = store
       \/ asking = {} /\ \E s \in pending : store' = Upserted(s)

\* _disconnect: cancelled wherever it waits; what was published is remembered.
Disconnect ==
    /\ phase # "off" /\ Cut
    /\ UNCHANGED <<now, feed, published, told, dropped, restarts>>

\* The process ends, and another knows the store only.
Restart ==
    /\ restarts < MaxRestarts /\ restarts' = restarts + 1 /\ Cut
    /\ published' = {} /\ told' = [e \in Entries |-> <<>>] /\ dropped' = {}
    /\ UNCHANGED <<now, feed>>

---------------------------------------------------------------------------
(* The providers and the clock.                                            *)

\* An entry without its figure is moved; one with a derived id becomes another
\* one, and is listed no more.
Moves(e) ==
    /\ ~feed[e].out
    /\ IF e \in Derived THEN feed' = [feed EXCEPT ![e].listed = FALSE]
       ELSE \E t \in Times : feed' = [feed EXCEPT ![e].time = t]
    /\ UNCHANGED <<now, store, published, told, dropped, collector, restarts>>

\* The figure is out, sometimes before the time the provider says.
Prints(e) ==
    /\ feed[e].listed /\ ~feed[e].out /\ now >= feed[e].time - Early
    /\ feed' = [feed EXCEPT ![e].out = TRUE]
    /\ UNCHANGED <<now, store, published, told, dropped, collector, restarts>>

Tick ==
    /\ now < MaxTime /\ now' = now + 1
    /\ UNCHANGED <<feed, store, published, told, dropped, collector, restarts>>

---------------------------------------------------------------------------
Next ==
    \/ Connect \/ ConnectFails \/ Begin \/ PassFails \/ Sweep \/ SweepBreaks \/ SweepBlind
    \/ \E s \in Sources : Polled(s) \/ PollFails(s) \/ Written(s)
    \/ Disconnect \/ Restart \/ Tick
    \/ \E e \in Entries : Moves(e) \/ Prints(e)

Spec == Init /\ [][Next]_vars

\* A pass goes on: every attempt of a source ends, and so does every write.
Pass == Begin \/ Sweep \/ SweepBreaks \/ SweepBlind \/ PassFails
        \/ \E s \in Sources : Polled(s) \/ PollFails(s) \/ Written(s)

\* And the store works and a sweep ends again and again; a source is held to no
\* more than that one of them, Answering, answers again and again.
LiveSpec ==
    /\ Spec /\ WF_vars(Pass) /\ SF_vars(Sweep)
    /\ SF_vars(Polled(Answering)) /\ \A s \in Sources : SF_vars(Written(s))
---------------------------------------------------------------------------
(* Type invariant of the model (no code behaviour of its own).             *)
TypeOK ==
    /\ now \in 0..MaxTime /\ feed \in [Entries -> Entry] /\ store \in [Entries -> Row]
    /\ published \subseteq Entries \X Stage /\ dropped \subseteq published
    /\ told \in [Entries -> Seq(Stage)]
    /\ phase \in {"off", "failed", "asleep", "pass"} /\ live \subseteq Sources
    /\ slowIn \in 0 .. Slow - 1 /\ asking \subseteq Sources /\ pending \subseteq Sources
    /\ got \in [Entries -> Row] /\ restarts \in 0..MaxRestarts

(* A process is told of an entry once, and once of its release, in this    *)
(* order, however often it is polled, moved, cut off and connected again.  *)
(* The release is told alone only where handing over the announcement      *)
(* raised: what was noted is not tried again.                              *)
OnceAnnouncedFirst ==
    \A e \in Entries :
        \/ told[e] \in {<<>>, <<"scheduled">>, <<"scheduled", "released">>}
        \/ told[e] = <<"released">> /\ <<e, "scheduled">> \in dropped

(* No lookahead: a release that was told is of a figure its provider has    *)
(* put out, whose time (as the provider has it) has come, and the history   *)
(* replays it no later than now.                                            *)
FiguresAreOut ==
    \A e \in Entries : "released" \in {told[e][i] : i \in DOMAIN told[e]} =>
        /\ feed[e].out /\ feed[e].time <= now
        /\ Has(store[e], "released") /\ At(store[e], "released") <= now

(* A figure that stays listed by a calendar which answers again and again   *)
(* is told, though the other calendars never answer, the store fails now    *)
(* and then, and the first passes came before it was out: once handing it  *)
(* over has raised, it never is.                                           *)
TellsFigures ==
    \A e \in Entries : SourceOf[e] = Answering =>
        (<>[](/\ phase \in {"asleep", "pass"} /\ Answering \in live
              /\ Served(e) /\ feed[e].out /\ feed[e].time <= now)
         => <>(\/ "released" \in {told[e][i] : i \in DOMAIN told[e]}
               \/ <<e, "released">> \in dropped))
=============================================================================
