------------------------------ MODULE MT5Data ------------------------------
(***************************************************************************)
(* The read side of the venue: adapters/mt5/data.py over the calls and the *)
(* quote stream of adapters/mt5/bridge.py.                                 *)
(*                                                                         *)
(* The pollers share nothing but the clock and the bridge, so one of them  *)
(* is modelled, of any kind.  A call to the bridge is asked, served at the *)
(* terminal and received; in between, ticks arrive and time passes.  The   *)
(* loop over the rows of a reply has no await: it is taken a row at a step *)
(* with everything else held still.                                        *)
(***************************************************************************)
EXTENDS Integers, SequencesExt

CONSTANTS
    Kinds,          \* which pollers: quote_source, or bars
    Pairs,          \* the (bid, ask) a tick may carry
    Unpriced,       \* those with no bid or no ask
    Start,          \* the clock when the terminal is first watched, in ms
    Offset,         \* the terminal's clock less UTC, in ms
    PerSecond,      \* milliseconds in a second
    BarLength,      \* milliseconds in a bar
    Backlog,        \* STREAM_BACKLOG
    MaxTime, MaxTicks

ASSUME ConstantsAssumption ==
    /\ Kinds \subseteq {"poll", "ticks", "push", "unnumbered", "bars"}
    /\ Unpriced \subseteq Pairs
    /\ Start \in Nat \ {0} /\ Offset \in Int
    /\ PerSecond \in Nat \ {0} /\ BarLength \in Nat \ {0} /\ Backlog \in Nat \ {0}
    /\ MaxTime \in Nat /\ MaxTicks \in Nat

VARIABLES
    kind,       \* quote_source of the subscription, or bars; push with seq or without
    clock,      \* UTC, in ms
    history,    \* the ticks of the terminal
    pushed,     \* how many of them the stream has been through
    queue,      \* frames received and not yet handled, as positions in history
    phase,      \* where the poller's task stands
    wanted,     \* the seconds a catch-up asks for
    rows,       \* of the reply, those not yet handled
    frame,      \* the frame in hand while its gap is refilled, or 0
    mark, seen, \* _mark: newest time published, and the pairs published at it
    seq,        \* _seq, or 0
    out,        \* the quotes handed over
    lastBar,    \* _last_bar
    bars,       \* the bars handed over
    since,      \* history: the watermark the subscription began with
    covered,    \* history: the ticks up to the end of the last catch-up's range
    unseen      \* history: later ones, that came before the first frame

terminal == <<kind, clock, history>>
link == <<pushed, queue>>
published == <<mark, seen, out>>
bar == <<lastBar, bars>>
ghosts == <<since, covered, unseen>>
vars == <<terminal, link, phase, wanted, rows, frame, published, seq, bar, ghosts>>

Unset == -1
Tick == [msc : Int, pair : Pairs]
Opened(tick) == tick.msc - (tick.msc % BarLength)
BarOf(opened) ==
    [opened |-> opened, ticks |-> {i \in DOMAIN history : Opened(history[i]) = opened}]
NoRange == [from |-> 0, until |-> 0]
Streams == kind \in {"push", "unnumbered"}

Init ==
    /\ kind \in Kinds /\ clock = Start /\ history = <<>>
    /\ pushed = 0 /\ queue = <<>>
    /\ phase = "off" /\ wanted = NoRange /\ rows = {} /\ frame = 0
    /\ mark = Unset /\ seen = {} /\ seq = 0 /\ out = <<>>
    /\ lastBar = 0 /\ bars = <<>>
    /\ since = Unset /\ covered = {} /\ unseen = {}

---------------------------------------------------------------------------
(* The terminal and the stream.                                            *)

Idle == phase # "rows"

Advance ==
    /\ Idle /\ clock < MaxTime /\ clock' = clock + 1
    /\ UNCHANGED <<kind, history, link, phase, wanted, rows, frame, published, seq, bar, ghosts>>

Trade(pair) ==
    /\ Idle /\ Len(history) < MaxTicks
    /\ history' = Append(history, [msc |-> clock + Offset, pair |-> pair])
    /\ UNCHANGED <<kind, clock, link, phase, wanted, rows, frame, published, seq, bar, ghosts>>

\* Mutant: the queue is not bounded.
ReceivedUnbounded(i) == queue' = Append(queue, i)

\* _received: a full queue drops its oldest frame for the new one.
Received(i) == queue' = Append(IF Len(queue) >= Backlog THEN Tail(queue) ELSE queue, i)

Connected == Idle /\ (phase = "live" \/ frame # 0)

\* The bridge sends the next tick, loses it, or sends one a second time.
Push ==
    /\ Connected
    /\ \/ /\ pushed < Len(history) /\ pushed' = pushed + 1 /\ Received(pushed + 1)
       \/ pushed < Len(history) /\ pushed' = pushed + 1 /\ UNCHANGED queue
       \/ pushed # 0 /\ Received(pushed) /\ UNCHANGED pushed
    /\ UNCHANGED <<terminal, phase, wanted, rows, frame, published, seq, bar, ghosts>>

---------------------------------------------------------------------------
(* Publishing.                                                             *)

\* Mutant: of the pairs of a millisecond only the last is remembered.
SeenAtLast(tick) == {tick.pair}

\* _publish_tick refuses an unpriced tick, one older than the watermark, and
\* a pair it has published at the watermark's own millisecond.
Fresh(tick) ==
    /\ tick.pair \notin Unpriced
    /\ tick.msc >= mark
    /\ ~(tick.msc = mark /\ tick.pair \in seen)
SeenAt(tick) == IF tick.msc > mark THEN {tick.pair} ELSE seen \cup {tick.pair}

PublishTick(tick) ==
    \/ ~Fresh(tick) /\ UNCHANGED published
    \/ /\ Fresh(tick)
       /\ mark' = tick.msc /\ seen' = SeenAt(tick) /\ out' = Append(out, tick)

\* _is_forming: the window of the bar is still open by this clock.
Forming(b) == clock < b.opened + BarLength

\* A bar later than the last one published whose window has closed by now.
NewBar(b) == b.opened > lastBar /\ ~Forming(b)

PublishBar(b) ==
    \/ ~NewBar(b) /\ UNCHANGED bar
    \/ NewBar(b) /\ lastBar' = b.opened /\ bars' = Append(bars, b)

---------------------------------------------------------------------------
(* The poller's task.                                                      *)

Second(ms) == ms \div PerSecond

\* Mutant: the second of the watermark is taken as done.
CatchUpAfter == [from |-> Second(mark) + 1, until |-> Second(clock) + 1]

\* _catch_up asks for whole seconds, from the watermark's to the one after now.
CatchUp ==
    [from |-> IF mark # 0 THEN Second(mark) ELSE Second(clock),
     until |-> Second(clock) + 1]

\* The task sets the watermark only if no subscription before it did.
Subscribe ==
    /\ phase = "off" /\ phase' = "sleeping"
    /\ IF kind = "bars" \/ mark # Unset
       THEN UNCHANGED <<mark, since>>
       ELSE mark' = (IF kind = "poll" THEN 0 ELSE clock) /\ since' = mark'
    /\ UNCHANGED <<terminal, link, wanted, rows, frame, seen, seq, out, bar, covered, unseen>>

\* Cancelled at whatever await it stands.
Unsubscribe ==
    /\ phase \notin {"off", "rows"} /\ phase' = "off"
    /\ queue' = <<>> /\ pushed' = 0 /\ wanted' = NoRange /\ rows' = {} /\ frame' = 0
    /\ UNCHANGED <<terminal, published, seq, bar, ghosts>>

\* The latest tick, the last two bars, or a catch-up.
Ask ==
    /\ phase = "sleeping" /\ phase' = "asked"
    /\ wanted' = IF kind \in {"poll", "bars"} THEN NoRange ELSE CatchUp
    /\ UNCHANGED <<terminal, link, rows, frame, published, seq, bar, ghosts>>

\* GET /symbols/ticks: the one latest tick.
LatestTick == {history[i] : i \in {j \in DOMAIN history : j = Len(history)}}

\* GET /symbols/rates/pos: the last two bars, the last of them still forming.
Opens == {Opened(history[i]) : i \in DOMAIN history}
LastTwoBars == {BarOf(o) : o \in {x \in Opens : \A p \in Opens, q \in Opens : ~(x < p /\ p < q)}}

\* GET /symbols/ticks/range: every tick between two whole seconds.
InReach == {i \in DOMAIN history : history[i].msc <= wanted.until * PerSecond}
TicksInRange ==
    {history[i] : i \in {j \in InReach : history[j].msc >= wanted.from * PerSecond}}

Reply ==
    CASE kind = "bars" -> LastTwoBars
      [] kind = "poll" -> LatestTick
      [] OTHER -> TicksInRange

Serve ==
    /\ phase = "asked" /\ phase' = "served" /\ rows' = Reply
    /\ wanted' = NoRange /\ covered' = IF kind = "push" THEN InReach ELSE {}
    /\ UNCHANGED <<terminal, link, frame, published, seq, bar, since, unseen>>

Answered ==
    /\ phase = "served" /\ phase' = "rows"
    /\ UNCHANGED <<terminal, link, wanted, rows, frame, published, seq, bar, ghosts>>

\* A call or the stream raises, or the stream ends: the loop comes round, and
\* the connection, its queue and the frame in hand are gone.
Failed ==
    /\ phase \in {"asked", "served", "open", "live"} /\ phase' = "sleeping"
    /\ queue' = <<>> /\ pushed' = 0 /\ wanted' = NoRange /\ rows' = {} /\ frame' = 0
    /\ UNCHANGED <<terminal, published, seq, bar, ghosts>>

\* The rows of a reply in the order of their times.
TickRow ==
    /\ phase = "rows" /\ kind # "bars"
    /\ \E row \in rows :
        /\ \A other \in rows : row.msc <= other.msc
        /\ rows' = rows \ {row} /\ PublishTick(row)
    /\ UNCHANGED <<terminal, link, phase, wanted, frame, seq, bar, ghosts>>

BarRow ==
    /\ phase = "rows" /\ kind = "bars"
    /\ \E row \in rows :
        /\ \A other \in rows : row.opened <= other.opened
        /\ rows' = rows \ {row} /\ PublishBar(row)
    /\ UNCHANGED <<terminal, link, phase, wanted, frame, published, seq, ghosts>>

\* The last row: sleep, open the stream, or hand over the frame whose gap
\* this was.
Slept ==
    /\ phase = "rows" /\ rows = {} /\ ~Streams /\ phase' = "sleeping"
    /\ UNCHANGED <<terminal, link, wanted, rows, frame, published, seq, bar, ghosts>>

Opening ==
    /\ phase = "rows" /\ rows = {} /\ Streams /\ frame = 0
    /\ phase' = "open" /\ seq' = 0
    /\ UNCHANGED <<terminal, link, wanted, rows, frame, published, bar, ghosts>>

Refilled ==
    /\ phase = "rows" /\ rows = {} /\ frame # 0
    /\ phase' = "live" /\ frame' = 0 /\ PublishTick(history[frame])
    /\ UNCHANGED <<terminal, link, wanted, rows, seq, bar, ghosts>>

\* Frames begin with the ticks that come after the subscription.
Connect ==
    /\ phase = "open" /\ Streams /\ phase' = "live" /\ pushed' = Len(history)
    /\ UNCHANGED <<terminal, queue, wanted, rows, frame, published, seq, bar, ghosts>>

\* Mutant: a jump of seq is not looked for.
GapNever(i) == FALSE

Gap(i) == kind = "push" /\ seq # 0 /\ i # seq + 1

Handle ==
    /\ phase = "live" /\ queue # <<>> /\ queue' = Tail(queue)
    /\ seq' = IF kind = "push" THEN Head(queue) ELSE seq
    /\ unseen' = IF kind = "push" /\ seq = 0
                 THEN unseen \cup ((1 .. Head(queue) - 1) \ covered) ELSE unseen
    /\ \/ /\ Gap(Head(queue)) /\ phase' = "asked" /\ wanted' = CatchUp /\ frame' = Head(queue)
          /\ UNCHANGED published
       \/ /\ ~Gap(Head(queue)) /\ PublishTick(history[Head(queue)])
          /\ UNCHANGED <<phase, wanted, frame>>
    /\ UNCHANGED <<terminal, pushed, rows, bar, since, covered>>

---------------------------------------------------------------------------
Row == TickRow \/ BarRow \/ Slept \/ Opening \/ Refilled

Next ==
    \/ Advance \/ (\E pair \in Pairs : Trade(pair)) \/ Push
    \/ Subscribe \/ Unsubscribe
    \/ Ask \/ Serve \/ Answered \/ Failed
    \/ TickRow \/ BarRow \/ Slept \/ Opening \/ Refilled
    \/ Connect \/ Handle

Spec == Init /\ [][Next]_vars

\* The task runs, and a call that is made again and again is answered.
Fairness ==
    /\ WF_vars(Ask) /\ WF_vars(Row)
    /\ SF_vars(Serve) /\ SF_vars(Answered)

LiveSpec == Spec /\ Fairness

---------------------------------------------------------------------------
(* Properties.                                                             *)

\* The types, the bound of the stream's queue, and that a reply and the
\* frames are of the ticks the terminal has.
TypeOK ==
    /\ kind \in Kinds /\ clock \in Nat /\ history \in Seq(Tick)
    /\ pushed \in 0 .. Len(history)
    /\ queue \in Seq(1 .. Len(history)) /\ Len(queue) <= Backlog
    /\ phase \in {"off", "sleeping", "asked", "served", "rows", "open", "live"}
    /\ wanted \in [from : Int, until : Int]
    /\ IF kind = "bars" THEN \A row \in rows : row \in [opened : Int, ticks : SUBSET Nat]
                        ELSE rows \subseteq Tick
    /\ frame \in 0 .. Len(history)
    /\ mark \in Int /\ seen \subseteq Pairs /\ seq \in Nat /\ out \in Seq(Tick)
    /\ lastBar \in Int /\ bars \in Seq([opened : Int, ticks : SUBSET Nat])

\* Whatever the polls, the stream, the refills and a second subscription
\* overlap, a quote is handed over once and in the order of its time, and so
\* is a bar (_publish_tick, _poll_bars).
OnceInOrder ==
    /\ \A i \in DOMAIN out, j \in DOMAIN out : i < j =>
        out[i].msc <= out[j].msc /\ out[i] # out[j]
    /\ \A i \in DOMAIN bars, j \in DOMAIN bars : i < j => bars[i].opened < bars[j].opened

Priced == {i \in DOMAIN history : history[i].pair \notin Unpriced /\ history[i].msc >= since}
HandedOver == {i \in DOMAIN history : \E j \in DOMAIN out : out[j] = history[i]}
Passed == {i \in Priced : history[i].msc < mark}

\* Every tick the watermark has gone past has been handed over, for a source
\* that pulls and for a stream with numbers, but for those later than the
\* range of a catch-up and before the first frame of the stream it went
\* before (_catch_up, _stream_quotes).
NothingPassedOver ==
    kind \in {"ticks", "push"} => Passed \ unseen \subseteq HandedOver

\* Every tick a pulling source is subscribed for is handed over: "complete,
\* up to one interval late" (_pull_ticks).
Delivered ==
    \A i \in 1 .. MaxTicks :
        (kind = "ticks" /\ phase # "off" /\ i \in Priced) ~> (phase = "off" \/ i \in HandedOver)

\* A bar handed over is of every tick of its window: "the closed bar is the
\* one behind it, and only that one is published" (_poll_bars).
BarsAreWhole ==
    \A i \in DOMAIN bars : bars[i].ticks = BarOf(bars[i].opened).ticks
=============================================================================
