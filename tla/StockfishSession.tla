-------------------------- MODULE StockfishSession --------------------------
(***************************************************************************)
(* One engine process behind two pipes (src/src/engine/stockfish.cpp):     *)
(* start, stop, restart and analyze of pct::engine::Stockfish, against a   *)
(* child that may be slow, print a line that does not parse, or die.       *)
(* One client asks one question at a time; a stop request or a timeout may *)
(* strike at any read.  The lines in the pipe and those in read_buffer_    *)
(* are one sequence: which of them are in the buffer already is a matter   *)
(* of time only.  The wait for the end of a child that is told to quit is  *)
(* part of the step that replaces it.                                      *)
(***************************************************************************)
EXTENDS Integers, Sequences, FiniteSets

CONSTANTS Questions,  \* requests: a position and a depth
          Scores,     \* question -> the evaluations the engine may give
          MaxInfo,    \* info lines of one search
          MaxFaults,  \* deaths of a child, failed forks, lines that are unreadable or
                      \* name no move
          MaxStops,   \* stop requests and timeouts
          Siblings    \* {TRUE} when other engines are forked at the same time, else {}

ASSUME SessionConstants ==
    /\ Questions # {} /\ Scores \in [Questions -> (SUBSET Int) \ {{}}]
    /\ MaxInfo \in Nat /\ MaxFaults \in Nat /\ MaxStops \in Nat
    /\ Siblings \subseteq {TRUE}

VARIABLES
    call,    \* the client: where it is, its request, the caller of start(), the code of the
             \* Error on its way out, the questions of the info lines in `latest`, the answer
    engine,  \* the process: its state, the commands and lines in the pipes, its search, and
             \* whether a sibling inherited the ends of the pipes
    faults, stops

sessionVars == <<call, engine, faults, stops>>

Said(k) == [kind |-> k]
Line(k, q, s) == [kind |-> k, of |-> q, score |-> s]
Go(q) == [kind |-> "go", of |-> q]
Thrown(c) == [kind |-> "error", code |-> c]
Found(q, of, s) == [kind |-> "found", of |-> of, lines |-> q, score |-> s]

NoProcess == [state |-> "none", input |-> <<>>, output |-> <<>>, search |-> {}, infos |-> 0,
              kept |-> FALSE]
Fresh(k) == [NoProcess EXCEPT !.state = "alive", !.input = <<Said("uci")>>, !.kept = k]
Idle(a) == [pc |-> "idle", asked |-> {}, caller |-> "call", code |-> "None", latest |-> {},
            answer |-> a]

SessionInit == call = Idle(Thrown("None")) /\ engine = NoProcess /\ faults = 0 /\ stops = 0

\* process_id_ > 0, also when the process has died.
Running == engine.state # "none"
\* write fails once nobody holds the reading end, and the end of the output is seen once
\* nobody holds the writing end: a sibling forked before this pipe was closed still does.
Open == engine.state = "alive" \/ engine.kept
AtEnd == engine.output = <<>> /\ ~Open

Fault == faults < MaxFaults /\ faults' = faults + 1
Strike_NoDeadline == stops < MaxStops /\ stops' = stops + 1                  \* mutant
\* A stop request or a timeout.  The deadline of a read always comes when the child is dead.
Strike == \/ stops < MaxStops /\ stops' = stops + 1
          \/ engine.state = "dead" /\ UNCHANGED stops

-----------------------------------------------------------------------------
(* The process at the other end of the pipes.                               *)

Printed(e, line) == [e EXCEPT !.output = Append(@, line)]
Bestmove(e) == UNION {{Printed([e EXCEPT !.search = {}, !.infos = 0], Line("bestmove", q, s)) :
                           s \in Scores[q]} : q \in e.search}

\* A new search waits for the end of the last one; a stop without a search is ignored.
\* Lines like "id" come before uciok.  The lines of a search that have no score are left out:
\* analyze drops them.
Obeyed(e, cmd) ==
    CASE cmd.kind = "uci"     -> {Printed(Printed(e, Said("note")), Said("uciok"))}
      [] cmd.kind = "isready" -> {Printed(e, Said("readyok"))}
      [] cmd.kind = "stop"    -> IF e.search = {} THEN {e} ELSE Bestmove(e)
      [] cmd.kind = "go"      -> IF e.search = {} THEN {[e EXCEPT !.search = {cmd.of}]} ELSE {}

ChildObeys ==
    /\ engine.state = "alive" /\ engine.input # <<>>
    /\ engine' \in Obeyed([engine EXCEPT !.input = Tail(@)], Head(engine.input))
    /\ UNCHANGED <<call, faults, stops>>

ChildPrints ==
    /\ engine.state = "alive" /\ engine.infos < MaxInfo
    /\ \E q \in engine.search :
           LET counted == [engine EXCEPT !.infos = @ + 1]
           IN \/ engine' = Printed(counted, Line("info", q, 0)) /\ UNCHANGED faults
              \/ engine' = Printed(counted, Said("unreadable")) /\ Fault
    /\ UNCHANGED <<call, stops>>

ChildFinishes ==
    /\ engine.state = "alive" /\ engine' \in Bestmove(engine)
    /\ UNCHANGED <<call, faults, stops>>

ChildDies ==
    /\ engine.state = "alive" /\ Fault
    /\ engine' = [engine EXCEPT !.state = "dead", !.search = {}, !.infos = 0]
    /\ UNCHANGED <<call, stops>>

-----------------------------------------------------------------------------
(* stop, start and restart.                                                 *)

Goto(p) == call' = [call EXCEPT !.pc = p]
Return(a) == call' = Idle(a)
Sent(cmd) == engine' = [engine EXCEPT !.input = Append(@, cmd)]

\* stop() waits for the end of the child (quit, then SIGTERM) and closes the pipes; start()
\* is the next step.
Restart(who, c) ==
    /\ engine' = NoProcess
    /\ call' = [call EXCEPT !.pc = "start", !.caller = who, !.code = c]

\* The outer handler of analyze: an engine error of a process that runs restarts it.
Throw(c) == IF c = "EngineError" /\ Running THEN Restart("outer", c)
            ELSE Return(Thrown(c)) /\ UNCHANGED engine

\* start() throws: out of analyze (before its try block), out of its inner handler, where the
\* new error replaces the first, or into its outer handler, which swallows it.
StartFailed(c) ==
    /\ engine' = NoProcess
    /\ Return(Thrown(IF call.caller = "outer" THEN call.code ELSE c))

Start ==
    /\ call.pc = "start"
    /\ \/ Goto("uciok") /\ engine' \in {Fresh(k) : k \in {FALSE} \cup Siblings} /\ UNCHANGED faults
       \/ StartFailed("EngineError") /\ Fault
    /\ UNCHANGED stops

\* What follows start(): the question, or the error that made analyze restart the process.
Started ==
    CASE call.caller = "call"  -> Goto("ask") /\ UNCHANGED engine
      [] call.caller = "inner" -> Throw(call.code)
      [] call.caller = "outer" -> Return(Thrown(call.code)) /\ UNCHANGED engine

Next1 == Head(engine.output)
Hears(k) == engine.output # <<>> /\ Next1.kind = k
Skips == engine' = [engine EXCEPT !.output = Tail(@)] /\ UNCHANGED call

\* wait_for: lines that are not the one awaited are dropped.
Awaits(k) == engine.output # <<>> /\ Next1.kind # k /\ Skips

WaitFor(k, next) ==
    /\ \/ Awaits(k) /\ UNCHANGED stops
       \/ Hears(k) /\ next /\ UNCHANGED stops
       \/ AtEnd /\ StartFailed("EngineError") /\ UNCHANGED stops
       \/ StartFailed("Timeout") /\ Strike
    /\ UNCHANGED faults

Uciok == IF Open THEN /\ Goto("readyok")
                      /\ engine' = [engine EXCEPT !.output = Tail(@),
                                                  !.input = Append(@, Said("isready"))]
         ELSE StartFailed("EngineError")
Heeded(p) == Goto(p) /\ engine' = [engine EXCEPT !.output = Tail(@)]

WaitUciok == call.pc = "uciok" /\ WaitFor("uciok", Uciok)
WaitReadyok == call.pc = "readyok" /\ WaitFor("readyok", Heeded("started"))

AfterStart == call.pc = "started" /\ Started /\ UNCHANGED <<faults, stops>>

-----------------------------------------------------------------------------
(* analyze: the question, its lines, and the handler that stops a search.   *)

Analyze(q) ==
    /\ call.pc = "idle"
    /\ call' = [Idle(Thrown("None")) EXCEPT !.pc = IF Running THEN "ask" ELSE "start",
                                            !.asked = {q}]
    /\ UNCHANGED <<engine, faults, stops>>

Ask ==
    /\ call.pc = "ask"
    /\ IF Open THEN Goto("read") /\ \E q \in call.asked : Sent(Go(q)) ELSE Throw("EngineError")
    /\ UNCHANGED <<faults, stops>>

\* The inner handler stops the search and waits for its bestmove, if the pipe is open.
Stopping(e, c) ==
    /\ engine' = [e EXCEPT !.input = Append(@, Said("stop"))]
    /\ call' = [call EXCEPT !.pc = "drain", !.code = c]
Interrupt_AtOnce(c) == Throw(c)                                              \* mutant
Interrupt(c) == IF Open THEN Stopping(engine, c) ELSE Throw("EngineError")

Rest == [engine EXCEPT !.output = Tail(@)]

Read ==
    /\ call.pc = "read"
    /\ \/ /\ Hears("info") /\ engine' = Rest /\ UNCHANGED stops
          /\ call' = [call EXCEPT !.latest = @ \cup {Next1.of}]
       \/ /\ Hears("bestmove") /\ engine' = Rest /\ UNCHANGED stops
          /\ Return(Found(call.latest, Next1.of, Next1.score))
       \/ Interrupt("Timeout") /\ Strike
       \/ AtEnd /\ Throw("EngineError") /\ UNCHANGED stops
    /\ UNCHANGED faults

\* parse_info_line throws on a number it cannot read; the line is gone by then.
Misread ==
    /\ call.pc = "read" /\ Hears("unreadable")
    /\ IF Open THEN Stopping(Rest, "EngineError") ELSE Throw("EngineError")
    /\ UNCHANGED <<faults, stops>>

\* A bestmove line without a move.
Moveless ==
    /\ call.pc = "read" /\ Hears("bestmove") /\ Fault
    /\ Throw("EngineError")
    /\ UNCHANGED stops

\* No bestmove within two seconds, or never: the process is replaced.
GivesUp == Restart("inner", call.code)

Drain ==
    /\ call.pc = "drain"
    /\ \/ Awaits("bestmove") /\ UNCHANGED stops
       \/ Hears("bestmove") /\ Heeded("drained") /\ UNCHANGED stops
       \/ AtEnd /\ GivesUp /\ UNCHANGED stops
       \/ GivesUp /\ Strike
    /\ UNCHANGED faults

AfterDrain == call.pc = "drained" /\ Throw(call.code) /\ UNCHANGED <<faults, stops>>

ClientStep == Start \/ WaitUciok \/ WaitReadyok \/ AfterStart \/ Ask \/ Read \/ Misread \/ Moveless
              \/ Drain \/ AfterDrain

=============================================================================
