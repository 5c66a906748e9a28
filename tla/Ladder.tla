------------------------------- MODULE Ladder -------------------------------
(***************************************************************************)
(* The promotion loop: node/ladder.py, pipeline.py, promotion.py, the      *)
(* handler of node/live.py that applies it, and discovery.deliver_to.      *)
(*                                                                         *)
(* Three parties share one ladder.  The node walks its copy in memory on a *)
(* timer and saves it; the engine (trader and risk engine) is told of each *)
(* decision on the node's own stack; another process reads the file, amends*)
(* what it read and writes it back.  The node may be killed anywhere: the  *)
(* memory and the engine go, the file stays.                               *)
(*                                                                         *)
(* A candidate has one gate (discovery writes one, "backtest"), of which   *)
(* the ladder reads a verdict and a number of episodes; or it is broken:   *)
(* its deflated Sharpe cannot be computed, and asking for it raises, which *)
(* ends the pass.  Shares of the account are whole numbers, and the clock  *)
(* is left open: a candidate before capital may be stale at any pass.      *)
(***************************************************************************)
EXTENDS Integers, FiniteSets

CONSTANTS
    Candidates,     \* the names that may come on the ladder
    Strategies,     \* those this node runs
    Trades,         \* the instrument each of them trades
    Small, Full,    \* Allocation: the share of each rung with capital
    Ceiling,        \* CEILING
    MinEpisodes,    \* MIN_EPISODES
    LiveEpisodes,   \* live_episodes()
    Verdicts,       \* what a gate may say, see GateVerdicts
    MaxClosed,      \* bound on the positions a strategy closes
    MaxEdits        \* bound on what others do to the file and the environment

\* failing: short of the bar, unmeasured, or passed on fewer than MinEpisodes;
\* long: passed on as many as LiveEpisodes too.
GateVerdicts == {"failing", "passed", "long", "broken"}

ASSUME ConstantsAssumption ==
    /\ IsFiniteSet(Candidates) /\ Strategies \subseteq Candidates
    /\ Small \in Nat /\ Full \in Nat /\ Ceiling \in Nat
    /\ 0 < Small /\ Small < Full
    /\ MinEpisodes \in Nat /\ LiveEpisodes \in Nat \ {0}
    /\ DOMAIN Trades = Strategies
    /\ Verdicts \subseteq GateVerdicts
    /\ MaxClosed \in Nat /\ MaxEdits \in Nat

VARIABLES
    up,         \* the node runs
    ladder,     \* LadderActor.ladder
    pass,       \* where the node is: idle, or walking with a save to come
    todo,       \* candidates this pass has yet to judge
    promoted,   \* candidates it promoted, to be published when it is through
    legible,    \* TRADING_LIVE_EPISODES and TRADING_DSR_REQUIRED can be read
    counted,    \* Episodes.counted
    closed,     \* positions_closed of the cache, since the node started
    stopped,    \* strategies the trader has stopped
    halted,     \* the trading state is HALTED
    cap,        \* max_notional_per_order of each instrument, as a share; 0: none
    file,       \* the ladder on disk, as far as it can be rebuilt
    edit,       \* the ladder another process has read, while it amends it
    total,      \* history: positions each strategy ever closed
    edits       \* bound: what others did to the file and the environment

memory == <<ladder, pass, todo, promoted, legible, counted, closed>>
engine == <<stopped, halted, cap>>
disk == <<file, edit, edits>>
vars == <<up, memory, engine, disk, total>>

BeforeCapital == {"discovered", "backtested"}
Live == {"small", "full"}
Rungs == BeforeCapital \cup Live \cup {"rejected", "retired"}

Instruments == {Trades[c] : c \in Strategies}

\* History: base, the positions closed when the sample began; whole, unless the
\* pass that put the candidate on its rung raised before it was entered.
Row == [rung : Rungs \cup {"absent"}, alloc : {0, Small, Full}, gate : Verdicts \cup {"none"},
        after : {MinEpisodes, LiveEpisodes}, seen : Nat, base : Nat, whole : BOOLEAN]
Absent == [rung |-> "absent", alloc |-> 0, gate |-> "none", after |-> MinEpisodes,
           seen |-> 0, base |-> 0, whole |-> TRUE]
Empty == [c \in Candidates |-> Absent]
NoEdit == [on |-> FALSE, copy |-> Empty]

OnLadder(l) == {c \in Candidates : l[c].rung # "absent"}
Holding(l, share) == {c \in Candidates : l[c].alloc = share}

\* Ladder.allocated.
Allocated(l) == Small * Cardinality(Holding(l, Small)) + Full * Cardinality(Holding(l, Full))

\* No process, and what an earlier one may have left on disk.
InitFrom(l) ==
    /\ up = FALSE
    /\ ladder = Empty /\ pass = "idle" /\ todo = {} /\ promoted = {} /\ legible = TRUE
    /\ counted = [c \in Strategies |-> 0] /\ closed = [c \in Strategies |-> 0]
    /\ stopped = {} /\ halted = FALSE /\ cap = [i \in Instruments |-> 0]
    /\ file = l /\ edit = NoEdit /\ edits = 0
    /\ total = [c \in Candidates |-> 0]

Init == InitFrom(Empty)

---------------------------------------------------------------------------
(* The ladder's own operations (pipeline.py, promotion.py).                *)

\* Ladder.enter: the sample starts again.
Enter(row, c) == [row EXCEPT !.seen = 0, !.base = total[c]]

\* A candidate nobody knew, put at the bottom by _seed or by deliver.
New(c) == Enter([Absent EXCEPT !.rung = "discovered"], c)

\* deliver: the gate of that name is replaced.
Delivered(l, c, verdict) ==
    [l EXCEPT ![c] = [(IF c \in OnLadder(l) THEN l[c] ELSE New(c)) EXCEPT !.gate = verdict]]

\* put_back: revive refuses a candidate that is not retired, and its sample
\* starts again all the same.
PutBack(l, c) ==
    [l EXCEPT ![c] = Enter(IF l[c].rung = "retired"
                           THEN [l[c] EXCEPT !.rung = "backtested", !.alloc = 0, !.gate = "none"]
                           ELSE l[c], c)]

\* Mutant: a rung nothing knows.
NextRungShouted(rung) == CASE rung = "discovered" -> "backtested"
                           [] rung = "backtested" -> "small"
                           [] OTHER -> "FULL"

NextRung(rung) == CASE rung = "discovered" -> "backtested"
                    [] rung = "backtested" -> "small"
                    [] OTHER -> "full"

\* Allocation.of.
Of(rung) == IF rung = "small" THEN Small ELSE IF rung = "full" THEN Full ELSE 0

\* Gate.episodes, of a gate that passes.
Episodes(gate) ==
    IF gate = "long" /\ MinEpisodes < LiveEpisodes THEN LiveEpisodes ELSE MinEpisodes

\* Mutant: the live count decides every rung, the ones that cannot trade too.
SampleOfTrades(row) == row.seen

\* sample_seen: the gate's episodes before capital, closed positions after.
SampleSeen(row) == IF row.rung \in BeforeCapital THEN Episodes(row.gate) ELSE row.seen

\* sample_for.
SampleFor(rung) == IF rung \in Live THEN LiveEpisodes ELSE MinEpisodes

\* Candidate.blocking has nothing to say.
Passing(gate) == gate \in {"passed", "long"}

\* may_promote, of a rung that climbs.
MayPromote(row) == Passing(row.gate) /\ SampleSeen(row) >= row.after

\* The rungs that climb.
Climbs(row) == row.rung \in BeforeCapital \cup {"small"}

\* Mutant: the candidate is judged without what the ladder has given already.
FitsAlone(l, c) == Of(NextRung(l[c].rung)) <= Ceiling

\* Within the headroom, which is never below zero.
Fits(l, c) ==
    LET wanted == Of(NextRung(l[c].rung)) - l[c].alloc IN
    wanted <= 0 \/ wanted <= Ceiling - Allocated(l)

Promoted(l, c) ==
    LET rung == NextRung(l[c].rung) IN
    [l EXCEPT ![c] = Enter([l[c] EXCEPT !.rung = rung, !.alloc = Of(rung), !.after = SampleFor(rung),
                                        !.whole = TRUE], c)]

\* promote, where sample_for raises: the sample is not fixed and not begun.
HalfPromoted(l, c) ==
    LET rung == NextRung(l[c].rung) IN
    [l EXCEPT ![c] = [l[c] EXCEPT !.rung = rung, !.alloc = Of(rung), !.whole = FALSE]]

\* What Ladder.load rebuilds of a ladder that was damaged: it drops a candidate
\* that will not rebuild, and so a gate.
Readings(row) == {row, Absent, [row EXCEPT !.gate = "none"]}
Rebuilt(l) == {m \in [Candidates -> UNION {Readings(l[c]) : c \in Candidates}] :
                  \A c \in Candidates : m[c] \in Readings(l[c])}

\* Ladder.load: an empty ladder where the file cannot be read.
Loads == {file, Empty}

---------------------------------------------------------------------------
(* The life of the node.                                                   *)

\* _seed, of the strategies the cache knows: those that have had an order.
Seeded(l, known) == [c \in Candidates |-> IF c \in known \ OnLadder(l) THEN New(c) ELSE l[c]]

\* LadderActor.on_start, in a new process: nothing is published, nothing saved.
Start ==
    /\ ~up /\ up' = TRUE
    /\ \E l \in Loads, known \in SUBSET Strategies : ladder' = Seeded(l, known)
    /\ \/ legible' = TRUE /\ UNCHANGED edits
       \/ legible' = FALSE /\ edits < MaxEdits /\ edits' = edits + 1
    /\ UNCHANGED <<pass, todo, promoted, counted, closed, engine, file, edit, total>>

\* What a process takes with it.
Gone ==
    /\ up' = FALSE /\ legible' = TRUE
    /\ ladder' = Empty /\ pass' = "idle" /\ todo' = {} /\ promoted' = {}
    /\ counted' = [c \in Strategies |-> 0] /\ closed' = [c \in Strategies |-> 0]
    /\ stopped' = {} /\ halted' = FALSE /\ cap' = [i \in Instruments |-> 0]
    /\ UNCHANGED <<edit, edits, total>>

\* _save: a file that cannot be written is logged, and stays as it was.
Saves == file' = ladder \/ UNCHANGED file

\* on_stop, between two passes.
Stop == up /\ pass = "idle" /\ Gone /\ Saves

\* Killed anywhere.
Crash == up /\ Gone /\ UNCHANGED file

\* A strategy this node runs closes a position.
PositionClosed(c) ==
    /\ up /\ pass = "idle" /\ total[c] < MaxClosed
    /\ closed' = [closed EXCEPT ![c] = @ + 1]
    /\ total' = [total EXCEPT ![c] = @ + 1]
    /\ UNCHANGED <<up, ladder, pass, todo, promoted, legible, counted, engine, disk>>

---------------------------------------------------------------------------
(* A pass: LadderActor._walk.                                              *)

\* Mutant: the cache's total is added on every pass.
SinceTotal(c) == closed[c]

\* Episodes.since: what is new since the last pass.
Since(c) == IF closed[c] <= counted[c] THEN 0 ELSE closed[c] - counted[c]

\* _count, for every candidate on the ladder that this node runs.
Walk ==
    /\ up /\ pass = "idle"
    /\ LET mine == Strategies \cap OnLadder(ladder) IN
       /\ ladder' = [c \in Candidates |-> IF c \in mine THEN [ladder[c] EXCEPT !.seen = @ + Since(c)]
                                          ELSE ladder[c]]
       /\ counted' = [c \in Strategies |-> IF c \in mine THEN closed[c] ELSE counted[c]]
    /\ pass' = "walking" /\ todo' = OnLadder(ladder)
    /\ UNCHANGED <<up, promoted, legible, closed, engine, disk, total>>

\* step, for the next candidate: stale, promoted, or held (off the ladder,
\* over the ceiling, for want of a gate or of a sample).
Judge(c) ==
    /\ up /\ c \in todo
    /\ todo' = todo \ {c}
    /\ \/ /\ ladder[c].rung \in BeforeCapital
          /\ ladder' = [ladder EXCEPT ![c].rung = "rejected"]
          /\ UNCHANGED promoted
       \/ /\ Climbs(ladder[c]) /\ Fits(ladder, c) /\ MayPromote(ladder[c])
          /\ ladder' = Promoted(ladder, c)
          /\ promoted' = promoted \cup {c}
       \/ /\ \/ ladder[c].rung \in {"rejected", "retired"}
             \/ ~Fits(ladder, c)
             \/ ladder[c].gate # "broken" /\ (~Climbs(ladder[c]) \/ ~MayPromote(ladder[c]))
          /\ UNCHANGED <<ladder, promoted>>
    /\ UNCHANGED <<up, pass, legible, counted, closed, engine, disk, total>>

\* The pass of _walk that catches an exception of step: what it promoted stays
\* promoted, and nothing is published or saved.
Abandoned ==
    /\ pass' = "idle" /\ todo' = {} /\ promoted' = {}
    /\ UNCHANGED <<up, legible, counted, closed, engine, disk, total>>

\* The gates of a candidate that is neither stale nor held at the ceiling raise,
\* before anything of it is changed: one is broken, or the bar it has to clear
\* cannot be read.
Raised(c) ==
    /\ up /\ c \in todo
    /\ ladder[c].rung \in BeforeCapital \cup Live /\ Fits(ladder, c)
    /\ ladder[c].gate = "broken" \/ (~legible /\ ladder[c].gate # "none")
    /\ Abandoned /\ UNCHANGED ladder

\* The number of live episodes cannot be read, with the rung and the share set.
Halved(c) ==
    /\ up /\ c \in todo /\ ~legible
    /\ Climbs(ladder[c]) /\ Fits(ladder, c) /\ MayPromote(ladder[c])
    /\ NextRung(ladder[c].rung) \in Live
    /\ ladder' = HalfPromoted(ladder, c)
    /\ Abandoned

\* Mutant: the share published is the one of the rung above.
ShareOfNext(row) == Of(NextRung(row.rung))

\* allocation_message.
Share(row) == row.alloc

\* apply, for a share: the cap of the instrument the strategy trades.  Not set
\* where the account has no balance, or not in its currency, or setting it
\* raises; of two strategies on an instrument the last one's stays.
Publishes ==
    cap' \in {f \in [Instruments -> {0, Small, Full}] :
                 \A i \in Instruments :
                    \/ f[i] = cap[i]
                    \/ \E c \in promoted \cap Strategies :
                          Trades[c] = i /\ f[i] = Share(ladder[c]) /\ f[i] > 0}

\* The end of a pass, or of a retirement: what was promoted is published, and
\* the ladder saved.
Save ==
    /\ up /\ pass = "walking" /\ todo = {}
    /\ pass' = "idle" /\ promoted' = {}
    /\ Publishes /\ Saves
    /\ UNCHANGED <<up, ladder, todo, legible, counted, closed, stopped, halted, edit, edits, total>>

\* LadderActor.retire: a live candidate, with a reason that is accepted, and
\* the node stops the strategy, if it runs it, and halts on a breached limit;
\* a refusal changes nothing.  Saved either way.
Retire(c) ==
    /\ up /\ pass = "idle" /\ c \in OnLadder(ladder)
    /\ pass' = "walking"
    /\ \/ /\ ladder[c].rung \in Live
          /\ ladder' = [ladder EXCEPT ![c].rung = "retired", ![c].alloc = 0]
          /\ stopped' = stopped \cup ({c} \cap Strategies)
          /\ halted' = TRUE \/ UNCHANGED halted
       \/ UNCHANGED <<ladder, stopped, halted>>
    /\ UNCHANGED <<up, todo, promoted, legible, counted, closed, cap, disk, total>>

---------------------------------------------------------------------------
(* Another process: discovery.deliver_to, or a person's put_back.          *)

Read ==
    /\ ~edit.on /\ edits < MaxEdits /\ edits' = edits + 1
    /\ \E l \in Loads : edit' = [on |-> TRUE, copy |-> l]
    /\ UNCHANGED <<up, memory, engine, file, total>>

\* deliver raises on a broken gate before it is saved: that one is a person's.
Write(c) ==
    /\ edit.on
    /\ \/ \E verdict \in Verdicts : file' = Delivered(edit.copy, c, verdict)
       \/ c \in OnLadder(edit.copy) /\ file' = PutBack(edit.copy, c)
    /\ edit' = NoEdit
    /\ UNCHANGED <<up, memory, engine, edits, total>>

\* The file is cut or edited so that load rebuilds less of it.
Damaged ==
    /\ edits < MaxEdits /\ edits' = edits + 1
    /\ file' \in Rebuilt(file) \ {file}
    /\ UNCHANGED <<up, memory, engine, edit, total>>

---------------------------------------------------------------------------
Pass == Walk \/ Save \/ \E c \in Candidates : Judge(c) \/ Raised(c) \/ Halved(c)

Next ==
    \/ Start \/ Stop \/ Crash \/ Read \/ Damaged \/ Pass
    \/ \E c \in Strategies : PositionClosed(c)
    \/ \E c \in Candidates : Retire(c) \/ Write(c)

Spec == Init /\ [][Next]_vars

\* The timer fires whatever else the node is asked for, and a pass that began
\* runs to its end unless the node is killed.
Fairness ==
    /\ SF_vars(Walk)
    /\ WF_vars(Save \/ \E c \in Candidates : Judge(c) \/ Raised(c) \/ Halved(c))

LiveSpec == Spec /\ Fairness

---------------------------------------------------------------------------
(* Type invariant of the model (no code behaviour of its own).             *)
Ladders == [Candidates -> Row]
TypeOK ==
    /\ up \in BOOLEAN /\ halted \in BOOLEAN /\ legible \in BOOLEAN
    /\ ladder \in Ladders /\ file \in Ladders
    /\ edit \in [on : BOOLEAN, copy : Ladders]
    /\ pass \in {"idle", "walking"} /\ todo \subseteq Candidates /\ promoted \subseteq Candidates
    /\ counted \in [Strategies -> Nat] /\ closed \in [Strategies -> Nat]
    /\ stopped \subseteq Strategies
    /\ cap \in [Instruments -> {0, Small, Full}]
    /\ total \in [Candidates -> Nat] /\ edits \in Nat

(* However many candidates pass, in whatever order, and whoever wrote the   *)
(* file the node started from, the ladder never gives out more than its     *)
(* ceiling: in memory, on disk, or in a copy about to be written back.      *)
AllocatedUnderCeiling ==
    \A l \in {ladder, file, edit.copy} : Allocated(l) <= Ceiling

(* Full capital is decided on trades the candidate made at small capital:   *)
(* the same closed position is never counted on two passes, at two rungs or *)
(* before and after a restart; unless the pass that gave it small capital   *)
(* raised before its sample was begun.                                      *)
PromotedOnItsOwnTrades ==
    [][\A c \in Candidates :
        ladder[c].rung = "small" /\ ladder[c].whole /\ ladder'[c].rung = "full"
            => total[c] - ladder[c].base >= LiveEpisodes]_vars

(* A cap in force is one the ladder gave, and not more than the ladder      *)
(* still gives, to a strategy on that instrument, or that strategy was      *)
(* stopped: whatever passes raised, saves failed and other files were read  *)
(* since (ladder.py: "the allocation already in force stays in force").     *)
CapWasGranted ==
    \A i \in Instruments :
        cap[i] # 0 => \E c \in Strategies :
                         Trades[c] = i /\ (c \in stopped \/ ladder[c].alloc >= cap[i])

Ready(c, rung) ==
    /\ up /\ ladder[c].rung = rung /\ Passing(ladder[c].gate)
    /\ ladder[c].after <= IF rung = "small" THEN ladder[c].seen ELSE Episodes(ladder[c].gate)

\* A gate that ends every pass that comes to it.
Spoiled == \E c \in Candidates : /\ ladder[c].rung \in BeforeCapital \cup Live
                                /\ ladder[c].gate = "broken"

(* A candidate whose gate has passed, and whose sample is complete, is not  *)
(* held for ever: it climbs or is dropped, unless it stops fitting under    *)
(* the ceiling, the node goes down, or passes raise: for a gate that is     *)
(* broken, or for numbers of its environment the node cannot read.          *)
ReadyClimbs ==
    \A c \in Candidates, rung \in BeforeCapital \cup {"small"} :
        Ready(c, rung) ~> \/ ~up \/ ladder[c].rung # rung \/ ~Fits(ladder, c)
                          \/ Spoiled \/ ~legible

(* A candidate retired from the ladder is off the node: promotion.py says   *)
(* of the rung "Was live, is not", pipeline.py that its state is persisted. *)
RetiredIsNotRunning ==
    \A c \in Strategies : up /\ ladder[c].rung = "retired" => c \in stopped
=============================================================================
