--------------------------- MODULE AnalyzerProofs ---------------------------
(***************************************************************************)
(* The answers of the cache, for any questions, scores, faults, stops and  *)
(* siblings: what a session hears between a "go" and its return is of the  *)
(* question asked, because nothing of an earlier search is left in the     *)
(* pipes when it asks.  And the mistakes of a finished review, which such  *)
(* answers rank: the first of a sort by loss.                              *)
(***************************************************************************)
EXTENDS Analyzer, TLAPS, SequenceTheorems, FiniteSetTheorems

-----------------------------------------------------------------------------
(* What is in the pipes.                                                    *)

Stop == Said("stop")
Spoken(q) == {Said("unreadable"), Line("info", q, 0)} \cup {Line("bestmove", q, s) : s \in Scores[q]}

\* Nothing is left of a search, but perhaps the stop that came too late for it.
Calm(input, output, search) == output = <<>> /\ search = {} /\ input \in Seq({Stop})

\* One search for q was asked for: it is still to be read, or under way, or its bestmove is the
\* last line (or its process died).
NoGo(input, q) == \A i \in 1 .. Len(input) : input[i] # Go(q)
Serves(input, output, search, q) ==
    /\ input \in Seq({Stop, Go(q)}) /\ output \in Seq(Spoken(q)) /\ search \subseteq {q}
    /\ \A i, j \in 1 .. Len(input) : input[i] = Go(q) /\ input[j] = Go(q) => i = j
    /\ search # {} => NoGo(input, q)
    /\ \A i \in 1 .. Len(output) :
           output[i].kind = "bestmove" => i = Len(output) /\ search = {} /\ NoGo(input, q)

\* The two questions of start(), each with its answer.
Uci(input, output) ==
    \/ input = <<Said("uci")>> /\ output = <<>>
    \/ input = <<>> /\ output \in {<<Said("note"), Said("uciok")>>, <<Said("uciok")>>}
Isready(input, output) ==
    \/ input = <<Said("isready")>> /\ output = <<>>
    \/ input = <<>> /\ output = <<Said("readyok")>>

-----------------------------------------------------------------------------
(* The invariant.                                                           *)

CallFields == {"pc", "asked", "caller", "code", "latest", "answer"}
EngineFields == {"state", "input", "output", "search", "infos", "kept"}
TaskFields == {"stage", "plies", "todo", "got", "asking"}
Places == {"idle", "start", "uciok", "readyok", "started", "ask", "read", "drain", "drained"}
Shaped ==
    /\ DOMAIN call = CallFields /\ DOMAIN engine = EngineFields /\ DOMAIN task = TaskFields
    /\ call.pc \in Places /\ call.caller \in {"call", "inner", "outer"} /\ task.asking \in BOOLEAN

Between(pc, input, output, search) ==
    /\ pc \in {"idle", "ask", "started", "drained"} => Calm(input, output, search)
    /\ pc = "uciok" => search = {} /\ Uci(input, output)
    /\ pc = "readyok" => search = {} /\ Isready(input, output)
Quiet ==
    /\ engine.state = "none" \/ call.pc = "start" => engine = NoProcess
    /\ Between(call.pc, engine.input, engine.output, engine.search)

Asking(q) ==
    /\ call.pc # "idle" => call.asked = {q} /\ call.latest \subseteq {q}
    /\ call.pc \in {"read", "drain"} => Serves(engine.input, engine.output, engine.search, q)
    /\ call.pc = "idle" /\ call.answer.kind = "found" =>
          call.answer.of = q /\ call.answer.lines \subseteq {q} /\ call.answer.score \in Scores[q]

CacheOK ==
    /\ order \in Seq(DOMAIN cache) /\ ToSet(order) = DOMAIN cache
    /\ IsInjective(order) /\ Len(order) <= MaxEntries
    /\ cache = [q \in DOMAIN cache |-> cache[q]]
    /\ \A q \in DOMAIN cache :
          cache[q].of = q /\ cache[q].lines \subseteq {q} /\ cache[q].score \in Scores[q]

Pending == Asking(Question) /\ Len(task.got) # Len(task.todo)
SessionInv == Shaped /\ Quiet /\ (IF task.asking THEN Pending ELSE call.pc = "idle")

-----------------------------------------------------------------------------
(* Sequences.                                                               *)

LEMMA TailFacts ==
    ASSUME NEW S, NEW s \in Seq(S), s # <<>>
    PROVE  /\ Head(s) = s[1] /\ Head(s) \in S
           /\ Tail(s) \in Seq(S) /\ Len(s) \in Nat \ {0} /\ Len(Tail(s)) = Len(s) - 1
           /\ \A i \in 1 .. Len(Tail(s)) : Tail(s)[i] = s[i + 1]
  <1>1. Len(s) \in Nat \ {0}
    BY EmptySeq
  <1>2. Tail(s) \in Seq(S) /\ Len(Tail(s)) = Len(s) - 1
    BY HeadTailProperties
  <1>3. \A i \in 1 .. Len(Tail(s)) : Tail(s)[i] = s[i + 1]
    BY HeadTailProperties
  <1> QED  BY <1>1, <1>2, <1>3, HeadTailProperties

LEMMA AppendFacts ==
    ASSUME NEW S, NEW s \in Seq(S), NEW x \in S
    PROVE  /\ Append(s, x) \in Seq(S) /\ Len(s) \in Nat /\ Len(Append(s, x)) = Len(s) + 1
           /\ \A i \in 1 .. Len(s) : Append(s, x)[i] = s[i]
           /\ Append(s, x)[Len(s) + 1] = x
  BY AppendProperties

\* A sequence over fewer values.
LEMMA Narrower ==
    ASSUME NEW S, NEW T, NEW s \in Seq(S), \A i \in 1 .. Len(s) : s[i] \in T
    PROVE  s \in Seq(T)
  OBVIOUS

LEMMA Kinds ==
    ASSUME NEW q
    PROVE  /\ Stop # Go(q) /\ Stop.kind = "stop" /\ Go(q).kind = "go" /\ Go(q).of = q
           /\ \A x \in Spoken(q) : x.kind \in {"unreadable", "info", "bestmove"}
           /\ \A x \in Spoken(q) : x.kind # "unreadable" => x.of = q
           /\ \A x \in Spoken(q) : x.kind = "bestmove" => x.score \in Scores[q]
           /\ \A k, s : Line(k, q, s).kind = k /\ Line(k, q, s).of = q
           /\ \A k : Said(k).kind = k
  BY DEF Stop, Go, Said, Spoken, Line

-----------------------------------------------------------------------------
(* A search in the pipes.                                                   *)

LEMMA SearchBegins ==
    ASSUME NEW input, NEW output, NEW search, NEW q, Calm(input, output, search)
    PROVE  Serves(Append(input, Go(q)), output, search, q)
  <1>1. input \in Seq({Stop, Go(q)})
    <2>1. \A i \in 1 .. Len(input) : input[i] \in {Stop, Go(q)}
      BY DEF Calm
    <2> QED  BY <2>1, Narrower DEF Calm
  <1>2. \A i \in 1 .. Len(input) : input[i] # Go(q)
    <2>1. \A i \in 1 .. Len(input) : input[i] = Stop
      BY DEF Calm
    <2> QED  BY <2>1, Kinds
  <1>3. /\ Append(input, Go(q)) \in Seq({Stop, Go(q)}) /\ Len(input) \in Nat
        /\ Len(Append(input, Go(q))) = Len(input) + 1
        /\ \A i \in 1 .. Len(input) : Append(input, Go(q))[i] = input[i]
    BY <1>1, AppendFacts
  <1>4. \A i \in 1 .. Len(Append(input, Go(q))) :
           Append(input, Go(q))[i] = Go(q) => i = Len(input) + 1
    <2> TAKE i \in 1 .. Len(Append(input, Go(q)))
    <2>1. i \in 1 .. Len(input) \/ i = Len(input) + 1
      BY <1>3
    <2> QED  BY <1>2, <1>3, <2>1
  <1>5. output = <<>> /\ search = {} /\ Len(<<>>) = 0
    BY DEF Calm
  <1>6. <<>> \in Seq(Spoken(q))
    OBVIOUS
  <1> QED
    BY <1>3, <1>4, <1>5, <1>6 DEF Serves

LEMMA StopSent ==
    ASSUME NEW input, NEW output, NEW search, NEW q, Serves(input, output, search, q)
    PROVE  Serves(Append(input, Stop), output, search, q)
  <1>1. /\ Append(input, Stop) \in Seq({Stop, Go(q)}) /\ Len(input) \in Nat
        /\ Len(Append(input, Stop)) = Len(input) + 1
        /\ \A i \in 1 .. Len(input) : Append(input, Stop)[i] = input[i]
        /\ Append(input, Stop)[Len(input) + 1] = Stop
    BY AppendFacts DEF Serves
  <1>2. \A i \in 1 .. Len(Append(input, Stop)) :
           Append(input, Stop)[i] = Go(q) => i \in 1 .. Len(input) /\ input[i] = Go(q)
    <2> TAKE i \in 1 .. Len(Append(input, Stop))
    <2>1. i \in 1 .. Len(input) \/ i = Len(input) + 1
      BY <1>1
    <2> QED  BY <1>1, <2>1, Kinds
  <1>3. NoGo(input, q) => NoGo(Append(input, Stop), q)
    BY <1>2 DEF NoGo
  <1> QED
    BY <1>1, <1>2, <1>3 DEF Serves

LEMMA LineRead ==
    ASSUME NEW input, NEW output, NEW search, NEW q, Serves(input, output, search, q),
           output # <<>>
    PROVE  /\ Head(output) \in Spoken(q)
           /\ Serves(input, Tail(output), search, q)
           /\ Head(output).kind = "bestmove" => Calm(input, Tail(output), search)
  <1>1. /\ Head(output) = output[1] /\ Head(output) \in Spoken(q)
        /\ Tail(output) \in Seq(Spoken(q)) /\ Len(output) \in Nat \ {0}
        /\ Len(Tail(output)) = Len(output) - 1
        /\ \A i \in 1 .. Len(Tail(output)) : Tail(output)[i] = output[i + 1]
    BY TailFacts DEF Serves
  <1>. PICK n \in Nat \ {0} : n = Len(output)
    BY <1>1
  <1>0. Len(Tail(output)) = n - 1
    BY <1>1
  <1>2. \A i \in 1 .. Len(Tail(output)) : Tail(output)[i].kind = "bestmove" =>
           i = Len(Tail(output)) /\ search = {} /\ NoGo(input, q)
    <2> SUFFICES ASSUME NEW i \in 1 .. Len(Tail(output)), Tail(output)[i].kind = "bestmove"
                 PROVE  i = Len(Tail(output)) /\ search = {} /\ NoGo(input, q)
      OBVIOUS
    <2>1. i + 1 \in 1 .. Len(output) /\ output[i + 1].kind = "bestmove"
      BY <1>1
    <2>2. i + 1 = Len(output) /\ search = {} /\ NoGo(input, q)
      BY <2>1 DEF Serves
    <2>3. i + 1 = n
      BY <2>2
    <2>4. i = n - 1
      BY <1>0, <2>3
    <2> QED  BY <1>0, <2>2, <2>4
  <1>3. Serves(input, Tail(output), search, q)
    BY <1>1, <1>2 DEF Serves
  <1>4. ASSUME Head(output).kind = "bestmove" PROVE Calm(input, Tail(output), search)
    <2>1. 1 = Len(output) /\ search = {} /\ NoGo(input, q)
      <3>1. 1 \in 1 .. Len(output)
        BY <1>1
      <3> QED  BY <1>1, <1>4, <3>1 DEF Serves
    <2>2. Len(Tail(output)) = 0
      <3>1. n = 1
        BY <2>1
      <3> QED  BY <1>0, <3>1
    <2>3. Tail(output) = <<>>
      BY <1>1, <2>2, EmptySeq
    <2>4. input \in Seq({Stop, Go(q)}) /\ \A i \in 1 .. Len(input) : input[i] \in {Stop}
      BY <2>1 DEF NoGo, Serves
    <2>5. input \in Seq({Stop})
      BY <2>4, Narrower
    <2> QED  BY <2>1, <2>3, <2>5 DEF Calm
  <1> QED
    BY <1>1, <1>3, <1>4

LEMMA LinePrinted ==
    ASSUME NEW input, NEW output, NEW search, NEW q, Serves(input, output, search, q),
           search # {}, NEW line \in Spoken(q)
    PROVE  /\ line.kind # "bestmove" => Serves(input, Append(output, line), search, q)
           /\ line.kind = "bestmove" => Serves(input, Append(output, line), {}, q)
  <1>1. /\ Append(output, line) \in Seq(Spoken(q)) /\ Len(output) \in Nat
        /\ Len(Append(output, line)) = Len(output) + 1
        /\ \A i \in 1 .. Len(output) : Append(output, line)[i] = output[i]
        /\ Append(output, line)[Len(output) + 1] = line
    BY AppendFacts DEF Serves
  <1>2. \A i \in 1 .. Len(output) : output[i].kind # "bestmove"
    BY DEF Serves
  <1>3. \A i \in 1 .. Len(Append(output, line)) : Append(output, line)[i].kind = "bestmove" =>
           i = Len(Append(output, line)) /\ line.kind = "bestmove"
    <2> TAKE i \in 1 .. Len(Append(output, line))
    <2>1. i \in 1 .. Len(output) \/ i = Len(output) + 1
      BY <1>1
    <2> QED  BY <1>1, <1>2, <2>1
  <1>4. NoGo(input, q)
    BY DEF Serves
  <1> QED
    BY <1>1, <1>3, <1>4 DEF Serves

LEMMA ProcessDied ==
    ASSUME NEW input, NEW output, NEW search, NEW q, Serves(input, output, search, q)
    PROVE  Serves(input, output, {}, q)
  BY DEF Serves

LEMMA CommandRead ==
    ASSUME NEW input, NEW output, NEW search, NEW q, Serves(input, output, search, q),
           input # <<>>
    PROVE  /\ Head(input) \in {Stop, Go(q)}
           /\ Serves(Tail(input), output, search, q)
           /\ Head(input) = Go(q) => Serves(Tail(input), output, {q}, q)
  <1>1. /\ Head(input) = input[1] /\ Head(input) \in {Stop, Go(q)}
        /\ Tail(input) \in Seq({Stop, Go(q)}) /\ Len(input) \in Nat \ {0}
        /\ Len(Tail(input)) = Len(input) - 1
        /\ \A i \in 1 .. Len(Tail(input)) : Tail(input)[i] = input[i + 1]
    BY TailFacts DEF Serves
  <1>2. \A i \in 1 .. Len(Tail(input)) : i + 1 \in 1 .. Len(input) /\ Tail(input)[i] = input[i + 1]
    BY <1>1
  <1>3. \A i, j \in 1 .. Len(Tail(input)) :
           Tail(input)[i] = Go(q) /\ Tail(input)[j] = Go(q) => i = j
    <2> SUFFICES ASSUME NEW i \in 1 .. Len(Tail(input)), NEW j \in 1 .. Len(Tail(input)),
                        Tail(input)[i] = Go(q), Tail(input)[j] = Go(q)
                 PROVE  i = j
      OBVIOUS
    <2>1. i + 1 = j + 1
      BY <1>2 DEF Serves
    <2> QED  BY <2>1
  <1>4. NoGo(input, q) => NoGo(Tail(input), q)
    BY <1>2 DEF NoGo
  <1>5. Serves(Tail(input), output, search, q)
    BY <1>1, <1>3, <1>4 DEF Serves
  <1>6. ASSUME Head(input) = Go(q) PROVE Serves(Tail(input), output, {q}, q)
    <2>1. 1 \in 1 .. Len(input) /\ input[1] = Go(q)
      BY <1>1, <1>6
    <2>2. NoGo(Tail(input), q)
      <3> SUFFICES ASSUME NEW i \in 1 .. Len(Tail(input)), Tail(input)[i] = Go(q) PROVE FALSE
        BY DEF NoGo
      <3>1. i + 1 = 1
        BY <1>2, <2>1 DEF Serves
      <3> QED  BY <3>1
    <2>3. \A i \in 1 .. Len(output) : output[i].kind # "bestmove"
      BY <2>1 DEF Serves, NoGo
    <2> QED  BY <1>1, <1>3, <2>2, <2>3 DEF Serves
  <1> QED
    BY <1>1, <1>5, <1>6

-----------------------------------------------------------------------------
(* The child.                                                               *)

\* What a step leaves in the pipes, of a process that is there.
Pipes(input, output, search) ==
    /\ engine'.input = input /\ engine'.output = output /\ engine'.search = search
    /\ engine'.state \in {"alive", "dead"}
    /\ DOMAIN engine' = EngineFields

LEMMA ObeysFacts ==
    ASSUME Shaped, ChildObeys
    PROVE  /\ engine.state = "alive" /\ engine.input # <<>> /\ UNCHANGED call
           /\ Head(engine.input).kind = "uci" =>
                 Pipes(Tail(engine.input), Append(Append(engine.output, Said("note")), Said("uciok")),
                       engine.search)
           /\ Head(engine.input).kind = "isready" =>
                 Pipes(Tail(engine.input), Append(engine.output, Said("readyok")), engine.search)
           /\ Head(engine.input).kind = "stop" =>
                 \/ engine.search = {} /\ Pipes(Tail(engine.input), engine.output, {})
                 \/ \E q \in engine.search : \E s \in Scores[q] :
                        Pipes(Tail(engine.input), Append(engine.output, Line("bestmove", q, s)), {})
           /\ Head(engine.input).kind = "go" =>
                 engine.search = {}
                 /\ Pipes(Tail(engine.input), engine.output, {Head(engine.input).of})
  <1>1. /\ engine.state = "alive" /\ engine.input # <<>> /\ UNCHANGED call
        /\ engine' \in Obeyed([engine EXCEPT !.input = Tail(@)], Head(engine.input))
    BY DEF ChildObeys
  <1>2. PICK e : e = [engine EXCEPT !.input = Tail(@)]
    OBVIOUS
  <1>3. /\ e.state = "alive" /\ e.input = Tail(engine.input) /\ e.output = engine.output
        /\ e.search = engine.search /\ DOMAIN e = EngineFields
    BY <1>1, <1>2 DEF Shaped, EngineFields
  <1>4. ASSUME Head(engine.input).kind = "uci"
        PROVE  Pipes(Tail(engine.input), Append(Append(engine.output, Said("note")), Said("uciok")),
                     engine.search)
    <2>1. engine' = Printed(Printed(e, Said("note")), Said("uciok"))
      BY <1>1, <1>2, <1>4 DEF Obeyed
    <2> QED  BY <1>3, <2>1 DEF Printed, Pipes, EngineFields
  <1>5. ASSUME Head(engine.input).kind = "isready"
        PROVE  Pipes(Tail(engine.input), Append(engine.output, Said("readyok")), engine.search)
    <2>1. engine' = Printed(e, Said("readyok"))
      BY <1>1, <1>2, <1>5 DEF Obeyed
    <2> QED  BY <1>3, <2>1 DEF Printed, Pipes, EngineFields
  <1>6. ASSUME Head(engine.input).kind = "stop"
        PROVE  \/ engine.search = {} /\ Pipes(Tail(engine.input), engine.output, {})
               \/ \E q \in engine.search : \E s \in Scores[q] :
                      Pipes(Tail(engine.input), Append(engine.output, Line("bestmove", q, s)), {})
    <2>1. engine' \in IF e.search = {} THEN {e} ELSE Bestmove(e)
      BY <1>1, <1>2, <1>6 DEF Obeyed
    <2>2. CASE engine.search = {}
      BY <1>3, <2>1, <2>2 DEF Pipes
    <2>3. CASE engine.search # {}
      <3>1. PICK q \in engine.search : \E s \in Scores[q] :
               engine' = Printed([e EXCEPT !.search = {}, !.infos = 0], Line("bestmove", q, s))
        BY <1>3, <2>1, <2>3 DEF Bestmove
      <3>2. PICK s \in Scores[q] :
               engine' = Printed([e EXCEPT !.search = {}, !.infos = 0], Line("bestmove", q, s))
        BY <3>1
      <3>3. Pipes(Tail(engine.input), Append(engine.output, Line("bestmove", q, s)), {})
        BY <1>3, <3>2 DEF Printed, Pipes, EngineFields
      <3> QED  BY <3>3
    <2> QED  BY <2>2, <2>3
  <1>7. ASSUME Head(engine.input).kind = "go"
        PROVE  engine.search = {}
               /\ Pipes(Tail(engine.input), engine.output, {Head(engine.input).of})
    <2>1. engine' \in IF e.search = {} THEN {[e EXCEPT !.search = {Head(engine.input).of}]} ELSE {}
      BY <1>1, <1>2, <1>7 DEF Obeyed
    <2> QED  BY <1>3, <2>1 DEF Pipes, EngineFields
  <1> QED
    BY <1>1, <1>4, <1>5, <1>6, <1>7

\* The other steps of the child: they print a line of the search, end it, or end the child.
LEMMA SearchFacts ==
    ASSUME Shaped, ChildPrints \/ ChildFinishes \/ ChildDies
    PROVE  /\ engine.state = "alive" /\ UNCHANGED call
           /\ \/ \E q \in engine.search :
                     \/ Pipes(engine.input, Append(engine.output, Line("info", q, 0)), engine.search)
                     \/ Pipes(engine.input, Append(engine.output, Said("unreadable")), engine.search)
                     \/ \E s \in Scores[q] :
                           Pipes(engine.input, Append(engine.output, Line("bestmove", q, s)), {})
              \/ Pipes(engine.input, engine.output, {})
  <1>1. CASE ChildPrints
    <2>1. PICK q \in engine.search :
             \/ engine' = Printed([engine EXCEPT !.infos = @ + 1], Line("info", q, 0))
             \/ engine' = Printed([engine EXCEPT !.infos = @ + 1], Said("unreadable"))
      BY <1>1 DEF ChildPrints
    <2>2. \/ Pipes(engine.input, Append(engine.output, Line("info", q, 0)), engine.search)
          \/ Pipes(engine.input, Append(engine.output, Said("unreadable")), engine.search)
      BY <1>1, <2>1 DEF ChildPrints, Shaped, Printed, Pipes, EngineFields
    <2> QED  BY <1>1, <2>2 DEF ChildPrints
  <1>2. CASE ChildFinishes
    <2>1. PICK q \in engine.search : \E s \in Scores[q] :
             engine' = Printed([engine EXCEPT !.search = {}, !.infos = 0], Line("bestmove", q, s))
      BY <1>2 DEF ChildFinishes, Bestmove
    <2>2. PICK s \in Scores[q] :
             engine' = Printed([engine EXCEPT !.search = {}, !.infos = 0], Line("bestmove", q, s))
      BY <2>1
    <2>3. Pipes(engine.input, Append(engine.output, Line("bestmove", q, s)), {})
      BY <1>2, <2>2 DEF ChildFinishes, Shaped, Printed, Pipes, EngineFields
    <2> QED  BY <1>2, <2>3 DEF ChildFinishes
  <1>3. CASE ChildDies
    BY <1>3 DEF ChildDies, Shaped, Pipes, EngineFields
  <1> QED
    BY <1>1, <1>2, <1>3

ChildMoves == ChildObeys \/ ChildPrints \/ ChildFinishes \/ ChildDies

LEMMA CalmObeys ==
    ASSUME NEW input, NEW output, NEW search, Calm(input, output, search), input # <<>>
    PROVE  Head(input).kind = "stop" /\ Calm(Tail(input), output, search)
  BY TailFacts, Kinds DEF Calm

LEMMA OneCommand ==
    ASSUME NEW x, NEW y
    PROVE  /\ Head(<<x>>) = x /\ Tail(<<x>>) = <<>> /\ Append(<<>>, x) = <<x>>
           /\ Append(<<x>>, y) = <<x, y>> /\ Head(<<x, y>>) = x /\ Tail(<<x, y>>) = <<y>>
  <1>1. Head(<<x>>) = x /\ Head(<<x, y>>) = x
    OBVIOUS
  <1>2. Tail(<<x>>) = <<>>
    OBVIOUS
  <1>3. Append(<<>>, x) = <<x>>
    OBVIOUS
  <1>4. Append(<<x>>, y) = <<x, y>>
    <2>1. <<x>> \in Seq({x, y}) /\ Len(<<x>>) = 1 /\ <<x>>[1] = x
      OBVIOUS
    <2>2. /\ <<x, y>> \in Seq({x, y}) /\ Len(<<x, y>>) = 2
          /\ <<x, y>>[1] = x /\ <<x, y>>[2] = y
      OBVIOUS
    <2>3. /\ Append(<<x>>, y) \in Seq({x, y}) /\ Len(Append(<<x>>, y)) = 2
          /\ Append(<<x>>, y)[1] = x /\ Append(<<x>>, y)[2] = y
      BY <2>1, AppendProperties
    <2>4. \A i \in 1 .. 2 : i = 1 \/ i = 2
      OBVIOUS
    <2> QED  BY <2>2, <2>3, <2>4, SeqEqual
  <1>5. Tail(<<x, y>>) = <<y>>
    OBVIOUS
  <1> QED  BY <1>1, <1>2, <1>3, <1>4, <1>5

\* A client that waits for its child, or does not speak to it.
LEMMA ObeysQuiet ==
    ASSUME Shaped, Quiet, ChildObeys, call.pc \notin {"read", "drain"}
    PROVE  /\ engine'.state \in {"alive", "dead"} /\ DOMAIN engine' = EngineFields
           /\ call.pc # "start" /\ Between(call.pc, engine'.input, engine'.output, engine'.search)
  <1>1. engine.state = "alive" /\ engine.input # <<>> /\ call.pc # "start"
    BY DEF ChildObeys, Quiet, NoProcess
  <1>2. CASE call.pc \in {"idle", "ask", "started", "drained"}
    <2>1. Calm(engine.input, engine.output, engine.search)
      BY <1>2 DEF Quiet, Between
    <2>2. /\ Head(engine.input).kind = "stop" /\ engine.search = {}
          /\ Calm(Tail(engine.input), engine.output, {})
      BY <1>1, <2>1, CalmObeys DEF Calm
    <2>3. Pipes(Tail(engine.input), engine.output, {})
      BY <2>2, ObeysFacts
    <2> QED  BY <1>2, <2>2, <2>3 DEF Pipes, Between
  <1>3. CASE call.pc = "uciok"
    <2>1. engine.input = <<Said("uci")>> /\ engine.output = <<>> /\ engine.search = {}
      BY <1>1, <1>3 DEF Quiet, Between, Uci
    <2>2. Pipes(<<>>, <<Said("note"), Said("uciok")>>, {})
      <3>1. Head(engine.input).kind = "uci" /\ Tail(engine.input) = <<>>
        BY <2>1, OneCommand, Kinds
      <3>2. Append(Append(engine.output, Said("note")), Said("uciok"))
              = <<Said("note"), Said("uciok")>>
        <4>1. Append(engine.output, Said("note")) = <<Said("note")>>
          BY <2>1, OneCommand
        <4> QED  BY <4>1, OneCommand
      <3> QED  BY <2>1, <3>1, <3>2, ObeysFacts
    <2> QED  BY <1>3, <2>2 DEF Pipes, Between, Uci
  <1>4. CASE call.pc = "readyok"
    <2>1. engine.input = <<Said("isready")>> /\ engine.output = <<>> /\ engine.search = {}
      BY <1>1, <1>4 DEF Quiet, Between, Isready
    <2>2. Pipes(<<>>, <<Said("readyok")>>, {})
      <3>1. Head(engine.input).kind = "isready" /\ Tail(engine.input) = <<>>
        BY <2>1, OneCommand, Kinds
      <3>2. Append(engine.output, Said("readyok")) = <<Said("readyok")>>
        BY <2>1, OneCommand
      <3> QED  BY <2>1, <3>1, <3>2, ObeysFacts
    <2> QED  BY <1>4, <2>2 DEF Pipes, Between, Isready
  <1> QED
    BY <1>1, <1>2, <1>3, <1>4 DEF Shaped, Places

\* A client that reads the lines of its search.
LEMMA ObeysServes ==
    ASSUME NEW q, Shaped, ChildObeys, Serves(engine.input, engine.output, engine.search, q)
    PROVE  /\ engine'.state \in {"alive", "dead"} /\ DOMAIN engine' = EngineFields
           /\ Serves(engine'.input, engine'.output, engine'.search, q)
  <1>1. engine.input # <<>>
    BY DEF ChildObeys
  <1>2. /\ Head(engine.input) \in {Stop, Go(q)}
        /\ Serves(Tail(engine.input), engine.output, engine.search, q)
        /\ Head(engine.input) = Go(q) => Serves(Tail(engine.input), engine.output, {q}, q)
    BY <1>1, CommandRead
  <1>3. CASE Head(engine.input) = Go(q)
    <2>1. Head(engine.input).kind = "go" /\ Head(engine.input).of = q
      BY <1>3, Kinds
    <2>2. Pipes(Tail(engine.input), engine.output, {Head(engine.input).of})
      BY <2>1, ObeysFacts
    <2>3. {Head(engine.input).of} = {q}
      BY <2>1
    <2>4. Pipes(Tail(engine.input), engine.output, {q})
      BY <2>2, <2>3
    <2> QED  BY <1>2, <1>3, <2>4 DEF Pipes
  <1>4. CASE Head(engine.input) = Stop
    <2>1. \/ engine.search = {} /\ Pipes(Tail(engine.input), engine.output, {})
          \/ \E r \in engine.search : \E s \in Scores[r] :
                Pipes(Tail(engine.input), Append(engine.output, Line("bestmove", r, s)), {})
      BY <1>4, Kinds, ObeysFacts
    <2>2. CASE engine.search = {} /\ Pipes(Tail(engine.input), engine.output, {})
      BY <1>2, <2>2 DEF Pipes
    <2>3. ASSUME NEW r \in engine.search, NEW s \in Scores[r],
                 Pipes(Tail(engine.input), Append(engine.output, Line("bestmove", r, s)), {})
          PROVE  /\ Serves(engine'.input, engine'.output, engine'.search, q)
                 /\ engine'.state \in {"alive", "dead"} /\ DOMAIN engine' = EngineFields
      <3>1. r = q /\ engine.search # {}
        BY DEF Serves
      <3>2. Line("bestmove", q, s) \in Spoken(q)
        BY <3>1 DEF Spoken
      <3>3. Serves(Tail(engine.input), Append(engine.output, Line("bestmove", q, s)), {}, q)
        BY <1>2, <3>1, <3>2, LinePrinted, Kinds
      <3> QED  BY <2>3, <3>1, <3>3 DEF Pipes
    <2> QED  BY <2>1, <2>2, <2>3
  <1> QED
    BY <1>2, <1>3, <1>4

LEMMA SearchServes ==
    ASSUME NEW q, Shaped, ChildPrints \/ ChildFinishes \/ ChildDies,
           Serves(engine.input, engine.output, engine.search, q)
    PROVE  Serves(engine'.input, engine'.output, engine'.search, q)
  <1>1. ASSUME NEW r \in engine.search, NEW line \in Spoken(q), line.kind # "bestmove",
               Pipes(engine.input, Append(engine.output, line), engine.search)
        PROVE  Serves(engine'.input, engine'.output, engine'.search, q)
    <2>1. Serves(engine.input, Append(engine.output, line), engine.search, q)
      BY <1>1, LinePrinted
    <2> QED  BY <1>1, <2>1 DEF Pipes
  <1>2. ASSUME NEW r \in engine.search, NEW s \in Scores[r],
               Pipes(engine.input, Append(engine.output, Line("bestmove", r, s)), {})
        PROVE  Serves(engine'.input, engine'.output, engine'.search, q)
    <2>1. r = q /\ engine.search # {}
      BY DEF Serves
    <2>2. Line("bestmove", q, s) \in Spoken(q)
      BY <2>1 DEF Spoken
    <2>3. Serves(engine.input, Append(engine.output, Line("bestmove", q, s)), {}, q)
      BY <2>1, <2>2, LinePrinted, Kinds
    <2> QED  BY <1>2, <2>1, <2>3 DEF Pipes
  <1>3. CASE Pipes(engine.input, engine.output, {})
    BY <1>3, ProcessDied DEF Pipes
  <1>4. ASSUME NEW r \in engine.search
        PROVE  /\ r = q /\ Line("info", r, 0) \in Spoken(q) /\ Said("unreadable") \in Spoken(q)
               /\ Line("info", r, 0).kind # "bestmove" /\ Said("unreadable").kind # "bestmove"
    BY Kinds DEF Serves, Spoken
  <1> QED
    BY <1>1, <1>2, <1>3, <1>4, SearchFacts

LEMMA ChildKeeps ==
    ASSUME NEW q, Shaped, Quiet, ChildMoves, UNCHANGED task, call.pc = "idle" \/ Asking(q)
    PROVE  Shaped' /\ Quiet' /\ UNCHANGED call /\ (Asking(q) => Asking(q)')
  <1>1. UNCHANGED call /\ engine.state = "alive" /\ call.pc # "start"
    BY DEF ChildMoves, ChildObeys, ChildPrints, ChildFinishes, ChildDies, Quiet, NoProcess
  <1>2. CASE call.pc \in {"read", "drain"}
    <2>1. Serves(engine.input, engine.output, engine.search, q)
      BY <1>2 DEF Asking
    <2>2. /\ engine'.state \in {"alive", "dead"} /\ DOMAIN engine' = EngineFields
          /\ Serves(engine'.input, engine'.output, engine'.search, q)
      BY <2>1, ObeysServes, SearchServes, SearchFacts DEF ChildMoves, Pipes
    <2> QED  BY <1>1, <1>2, <2>2 DEF Shaped, Quiet, Between, Asking
  <1>3. CASE call.pc \notin {"read", "drain"}
    <2>1. /\ engine'.state \in {"alive", "dead"} /\ DOMAIN engine' = EngineFields
          /\ Between(call.pc, engine'.input, engine'.output, engine'.search)
      <3>1. CASE ChildObeys
        BY <1>3, <3>1, ObeysQuiet
      <3>2. CASE ChildPrints \/ ChildFinishes \/ ChildDies
        <4>1. engine.search = {}
          BY <1>1, <1>3 DEF Shaped, Places, Quiet, Between, Calm
        <4>2. Pipes(engine.input, engine.output, engine.search)
          BY <3>2, <4>1, SearchFacts
        <4> QED  BY <4>2 DEF Pipes, Quiet
      <3> QED  BY <3>1, <3>2 DEF ChildMoves
    <2> QED  BY <1>1, <1>3, <2>1 DEF Shaped, Quiet, Asking
  <1> QED
    BY <1>2, <1>3

-----------------------------------------------------------------------------
(* The client.                                                              *)

LEMMA NothingIsCalm == Calm(<<>>, <<>>, {}) /\ Calm(NoProcess.input, NoProcess.output, NoProcess.search)
  BY DEF Calm, NoProcess

LEMMA NoProcessShape == DOMAIN NoProcess = EngineFields /\ NoProcess.state = "none"
  BY DEF NoProcess, EngineFields

LEMMA RestartKeeps ==
    ASSUME NEW q, Shaped, Quiet, Asking(q), UNCHANGED task, call.pc # "idle",
           NEW who \in {"inner", "outer"}, NEW c, Restart(who, c)
    PROVE  Shaped' /\ Quiet' /\ Asking(q)'
  <1>1. /\ engine' = NoProcess /\ call'.pc = "start" /\ DOMAIN call' = CallFields
        /\ call'.asked = call.asked /\ call'.latest = call.latest /\ call'.caller = who
    BY DEF Restart, Shaped, CallFields
  <1>2. Shaped'
    BY <1>1, NoProcessShape DEF Shaped, Places
  <1>3. Quiet'
    BY <1>1 DEF Quiet, Between
  <1>4. Asking(q)'
    BY <1>1 DEF Asking
  <1> QED
    BY <1>2, <1>3, <1>4

LEMMA ReturnKeeps ==
    ASSUME NEW q, Shaped, UNCHANGED task, NEW a, Return(a),
           DOMAIN engine' = EngineFields, engine'.state = "none" => engine' = NoProcess,
           Calm(engine'.input, engine'.output, engine'.search),
           a.kind = "found" => a.of = q /\ a.lines \subseteq {q} /\ a.score \in Scores[q]
    PROVE  Shaped' /\ Quiet' /\ Asking(q)'
  <1>1. call'.pc = "idle" /\ call'.answer = a /\ call'.caller = "call" /\ DOMAIN call' = CallFields
    BY DEF Return, Idle, CallFields
  <1>2. Shaped'
    BY <1>1 DEF Shaped, Places
  <1>3. Quiet'
    BY <1>1 DEF Quiet, Between
  <1>4. Asking(q)'
    BY <1>1 DEF Asking
  <1> QED
    BY <1>2, <1>3, <1>4

LEMMA ThrowKeeps ==
    ASSUME NEW q, Shaped, Quiet, Asking(q), UNCHANGED task, call.pc # "idle", NEW c, Throw(c),
           c = "EngineError" \/ Calm(engine.input, engine.output, engine.search)
    PROVE  Shaped' /\ Quiet' /\ Asking(q)'
  <1>1. CASE c = "EngineError" /\ Running
    BY <1>1, RestartKeeps DEF Throw
  <1>2. CASE ~(c = "EngineError" /\ Running)
    <2>1. Return(Thrown(c)) /\ UNCHANGED engine /\ Thrown(c).kind = "error"
      BY <1>2 DEF Throw, Thrown
    <2>2. Calm(engine.input, engine.output, engine.search)
      BY <1>2, NothingIsCalm DEF Running, Quiet
    <2> QED  BY <2>1, <2>2, ReturnKeeps DEF Shaped, Quiet
  <1> QED
    BY <1>1, <1>2

LEMMA StartFailedKeeps ==
    ASSUME NEW q, Shaped, UNCHANGED task, NEW c, StartFailed(c)
    PROVE  Shaped' /\ Quiet' /\ Asking(q)'
  <1>1. PICK d : Return(Thrown(d)) /\ engine' = NoProcess /\ Thrown(d).kind = "error"
    BY DEF StartFailed, Thrown
  <1> QED
    BY <1>1, ReturnKeeps, NothingIsCalm, NoProcessShape

\* A step that stays in analyze or start, to place p with new pipes.
LEMMA GoesOn ==
    ASSUME NEW q, Shaped, Asking(q), UNCHANGED task, call.pc # "idle", NEW p \in Places \ {"idle", "start"},
           call'.pc = p, call'.asked = call.asked, call'.caller = call.caller, call'.latest \subseteq {q}, DOMAIN call' = CallFields,
           DOMAIN engine' = EngineFields, engine'.state = "none" => engine' = NoProcess,
           Between(p, engine'.input, engine'.output, engine'.search),
           p \in {"read", "drain"} => Serves(engine'.input, engine'.output, engine'.search, q)
    PROVE  Shaped' /\ Quiet' /\ Asking(q)'
  <1>1. Shaped'
    BY DEF Shaped
  <1>2. Quiet'
    BY DEF Quiet
  <1>3. Asking(q)'
    BY DEF Asking
  <1> QED
    BY <1>1, <1>2, <1>3

LEMMA GotoFacts ==
    ASSUME Shaped, NEW p, Goto(p)
    PROVE  /\ call'.pc = p /\ call'.asked = call.asked /\ call'.caller = call.caller
           /\ call'.latest = call.latest /\ DOMAIN call' = CallFields
  BY DEF Goto, Shaped, CallFields

LEMMA RestFacts ==
    ASSUME Shaped
    PROVE  /\ Rest.input = engine.input /\ Rest.output = Tail(engine.output)
           /\ Rest.search = engine.search /\ Rest.state = engine.state /\ DOMAIN Rest = EngineFields
  BY DEF Rest, Shaped, EngineFields

LEMMA SpeakingIsThere == ASSUME Quiet, engine.output # <<>> \/ Open PROVE engine.state # "none"
  BY DEF Quiet, NoProcess, Open

LEMMA UciHeard ==
    ASSUME NEW input, NEW output, Uci(input, output), output # <<>>
    PROVE  /\ input = <<>>
           /\ Head(output).kind # "uciok" => Tail(output) = <<Said("uciok")>>
           /\ Head(output).kind = "uciok" => Tail(output) = <<>>
  <1>1. input = <<>> /\ output \in {<<Said("note"), Said("uciok")>>, <<Said("uciok")>>}
    BY DEF Uci
  <1>2. CASE output = <<Said("note"), Said("uciok")>>
    <2>1. Head(output) = Said("note") /\ Tail(output) = <<Said("uciok")>>
      BY <1>2, OneCommand
    <2>2. Head(output).kind = "note"
      BY <2>1, Kinds
    <2> QED  BY <1>1, <2>1, <2>2
  <1>3. CASE output = <<Said("uciok")>>
    <2>1. Head(output) = Said("uciok") /\ Tail(output) = <<>>
      BY <1>3, OneCommand
    <2>2. Head(output).kind = "uciok"
      BY <2>1, Kinds
    <2> QED  BY <1>1, <2>1, <2>2
  <1> QED
    BY <1>1, <1>2, <1>3

LEMMA IsreadyHeard ==
    ASSUME NEW input, NEW output, Isready(input, output), output # <<>>
    PROVE  input = <<>> /\ Head(output).kind = "readyok" /\ Tail(output) = <<>>
  <1>1. input = <<>> /\ output = <<Said("readyok")>>
    BY DEF Isready
  <1>2. Head(output) = Said("readyok") /\ Tail(output) = <<>>
    BY <1>1, OneCommand
  <1>3. Head(output).kind = "readyok"
    BY <1>2, Kinds
  <1> QED
    BY <1>1, <1>2, <1>3

LEMMA StartKeeps ==
    ASSUME NEW q, Shaped, Quiet, Asking(q), UNCHANGED task, Start
    PROVE  Shaped' /\ Quiet' /\ Asking(q)'
  <1>1. CASE StartFailed("EngineError")
    BY <1>1, StartFailedKeeps
  <1>2. ASSUME NEW k, Goto("uciok"), engine' = Fresh(k)
        PROVE  Shaped' /\ Quiet' /\ Asking(q)'
    <2>1. /\ engine'.state = "alive" /\ engine'.input = <<Said("uci")>> /\ engine'.output = <<>>
          /\ engine'.search = {} /\ DOMAIN engine' = EngineFields
      BY <1>2 DEF Fresh, NoProcess, EngineFields
    <2>2. Between("uciok", engine'.input, engine'.output, engine'.search)
      BY <2>1 DEF Between, Uci
    <2>3. call.pc = "start" /\ call.latest \subseteq {q}
      BY DEF Start, Asking
    <2> QED  BY <1>2, <2>1, <2>2, <2>3, GotoFacts, GoesOn DEF Places
  <1> QED
    BY <1>1, <1>2 DEF Start

LEMMA WaitUciokKeeps ==
    ASSUME NEW q, Shaped, Quiet, Asking(q), UNCHANGED task, WaitUciok
    PROVE  Shaped' /\ Quiet' /\ Asking(q)'
  <1>1. /\ call.pc = "uciok" /\ call.latest \subseteq {q} /\ engine.search = {}
        /\ Uci(engine.input, engine.output)
    BY DEF WaitUciok, Quiet, Between, Asking
  <1>2. CASE Awaits("uciok")
    <2>1. engine.input = <<>> /\ Tail(engine.output) = <<Said("uciok")>>
      BY <1>1, <1>2, UciHeard DEF Awaits, Next1
    <2>2. /\ engine'.input = <<>> /\ engine'.output = <<Said("uciok")>> /\ engine'.search = {}
          /\ engine'.state = engine.state /\ DOMAIN engine' = EngineFields /\ UNCHANGED call
      BY <1>1, <1>2, <2>1 DEF Awaits, Skips, Shaped, EngineFields
    <2>3. Between("uciok", engine'.input, engine'.output, engine'.search)
      BY <2>2 DEF Between, Uci
    <2>4. engine.state # "none"
      BY <1>2, SpeakingIsThere DEF Awaits
    <2> QED  BY <1>1, <2>2, <2>3, <2>4, GoesOn DEF Places, Shaped, Asking
  <1>3. CASE Hears("uciok") /\ Uciok
    <2>1. engine.input = <<>> /\ Tail(engine.output) = <<>>
      BY <1>1, <1>3, UciHeard DEF Hears, Next1
    <2>2. CASE Open
      <3>1. /\ engine'.input = Append(engine.input, Said("isready")) /\ engine'.output = <<>>
            /\ engine'.search = {}
            /\ engine'.state = engine.state /\ DOMAIN engine' = EngineFields /\ Goto("readyok")
        BY <1>1, <1>3, <2>1, <2>2 DEF Uciok, Shaped, EngineFields
      <3>2. engine'.input = <<Said("isready")>>
        BY <2>1, <3>1, OneCommand
      <3>3. Between("readyok", engine'.input, engine'.output, engine'.search)
        BY <3>1, <3>2 DEF Between, Isready
      <3>4. engine.state # "none"
        BY <2>2, SpeakingIsThere
      <3> QED  BY <1>1, <3>1, <3>3, <3>4, GotoFacts, GoesOn DEF Places
    <2>3. CASE ~Open
      BY <1>3, <2>3, StartFailedKeeps DEF Uciok
    <2> QED  BY <2>2, <2>3
  <1> QED
    BY <1>2, <1>3, StartFailedKeeps DEF WaitUciok, WaitFor

LEMMA WaitReadyokKeeps ==
    ASSUME NEW q, Shaped, Quiet, Asking(q), UNCHANGED task, WaitReadyok
    PROVE  Shaped' /\ Quiet' /\ Asking(q)'
  <1>1. /\ call.pc = "readyok" /\ call.latest \subseteq {q} /\ engine.search = {}
        /\ Isready(engine.input, engine.output)
    BY DEF WaitReadyok, Quiet, Between, Asking
  <1>2. ~Awaits("readyok")
    BY <1>1, IsreadyHeard DEF Awaits, Next1
  <1>3. CASE Hears("readyok") /\ Heeded("started")
    <2>1. engine.input = <<>> /\ Tail(engine.output) = <<>>
      BY <1>1, <1>3, IsreadyHeard DEF Hears, Next1
    <2>2. /\ engine'.input = <<>> /\ engine'.output = <<>> /\ engine'.search = {}
          /\ engine'.state = engine.state /\ DOMAIN engine' = EngineFields /\ Goto("started")
      BY <1>1, <1>3, <2>1 DEF Heeded, Shaped, EngineFields
    <2>3. Between("started", engine'.input, engine'.output, engine'.search)
      BY <2>2, NothingIsCalm DEF Between
    <2>4. engine.state # "none"
      BY <1>3, SpeakingIsThere DEF Hears
    <2> QED  BY <1>1, <2>2, <2>3, <2>4, GotoFacts, GoesOn DEF Places
  <1> QED
    BY <1>2, <1>3, StartFailedKeeps DEF WaitReadyok, WaitFor

LEMMA AfterStartKeeps ==
    ASSUME NEW q, Shaped, Quiet, Asking(q), UNCHANGED task, AfterStart
    PROVE  Shaped' /\ Quiet' /\ Asking(q)'
  <1>1. /\ call.pc = "started" /\ call.latest \subseteq {q} /\ Started
        /\ Calm(engine.input, engine.output, engine.search)
    BY DEF AfterStart, Quiet, Between, Asking
  <1>2. CASE call.caller = "call"
    <2>1. Goto("ask") /\ UNCHANGED engine
      BY <1>1, <1>2 DEF Started
    <2>2. Between("ask", engine.input, engine.output, engine.search)
      BY <1>1 DEF Between
    <2> QED  BY <1>1, <2>1, <2>2, GotoFacts, GoesOn DEF Places, Shaped, Quiet
  <1>3. CASE call.caller = "inner"
    <2>1. Throw(call.code)
      BY <1>1, <1>3 DEF Started
    <2> QED  BY <1>1, <2>1, ThrowKeeps
  <1>4. CASE call.caller = "outer"
    <2>1. Return(Thrown(call.code)) /\ UNCHANGED engine /\ Thrown(call.code).kind = "error"
      BY <1>1, <1>4 DEF Started, Thrown
    <2> QED  BY <1>1, <2>1, ReturnKeeps DEF Shaped, Quiet
  <1> QED
    BY <1>2, <1>3, <1>4 DEF Shaped

LEMMA AskKeeps ==
    ASSUME NEW q, Shaped, Quiet, Asking(q), UNCHANGED task, Ask
    PROVE  Shaped' /\ Quiet' /\ Asking(q)'
  <1>1. /\ call.pc = "ask" /\ call.asked = {q} /\ call.latest \subseteq {q}
        /\ Calm(engine.input, engine.output, engine.search)
    BY DEF Ask, Quiet, Between, Asking
  <1>2. CASE Open
    <2>1. Goto("read") /\ Sent(Go(q))
      BY <1>1, <1>2 DEF Ask
    <2>2. /\ engine'.input = Append(engine.input, Go(q)) /\ engine'.output = engine.output
          /\ engine'.search = engine.search /\ engine'.state = engine.state
          /\ DOMAIN engine' = EngineFields
      BY <2>1 DEF Sent, Shaped, EngineFields
    <2>3. Serves(engine'.input, engine'.output, engine'.search, q)
      BY <1>1, <2>2, SearchBegins
    <2>4. engine.state # "none"
      BY <1>2, SpeakingIsThere
    <2>5. Between("read", engine'.input, engine'.output, engine'.search)
      BY DEF Between
    <2> QED  BY <1>1, <2>1, <2>2, <2>3, <2>4, <2>5, GotoFacts, GoesOn DEF Places
  <1>3. CASE ~Open
    BY <1>1, <1>3, ThrowKeeps DEF Ask
  <1> QED
    BY <1>2, <1>3

\* The inner handler, from pipes e that serve the search.
LEMMA StoppingKeeps ==
    ASSUME NEW q, Shaped, Quiet, Asking(q), UNCHANGED task, call.pc = "read", Open, NEW e, NEW c,
           Stopping(e, c), DOMAIN e = EngineFields, e.state = engine.state,
           Serves(e.input, e.output, e.search, q)
    PROVE  Shaped' /\ Quiet' /\ Asking(q)'
  <1>1. /\ engine'.input = Append(e.input, Stop) /\ engine'.output = e.output
        /\ engine'.search = e.search /\ engine'.state = engine.state /\ DOMAIN engine' = EngineFields
    BY DEF Stopping, EngineFields, Stop
  <1>2. /\ call'.pc = "drain" /\ call'.asked = call.asked /\ call'.caller = call.caller
        /\ call'.latest = call.latest /\ DOMAIN call' = CallFields /\ call.latest \subseteq {q}
    BY DEF Stopping, Shaped, CallFields, Asking
  <1>3. Serves(engine'.input, engine'.output, engine'.search, q)
    BY <1>1, StopSent
  <1>4. engine.state # "none"
    BY SpeakingIsThere
  <1>5. Between("drain", engine'.input, engine'.output, engine'.search)
    BY DEF Between
  <1> QED
    BY <1>1, <1>2, <1>3, <1>4, <1>5, GoesOn DEF Places

LEMMA ReadKeeps ==
    ASSUME NEW q, Shaped, Quiet, Asking(q), UNCHANGED task, Read
    PROVE  Shaped' /\ Quiet' /\ Asking(q)'
  <1>1. /\ call.pc = "read" /\ call.latest \subseteq {q}
        /\ Serves(engine.input, engine.output, engine.search, q)
    BY DEF Read, Asking
  <1>2. CASE /\ Hears("info") /\ engine' = Rest
             /\ call' = [call EXCEPT !.latest = @ \cup {Next1.of}]
    <2>1. /\ Serves(engine'.input, engine'.output, engine'.search, q) /\ Next1.of = q
          /\ engine'.state = engine.state /\ DOMAIN engine' = EngineFields
      BY <1>1, <1>2, LineRead, RestFacts, Kinds DEF Hears, Next1
    <2>2. /\ call'.pc = "read" /\ call'.asked = call.asked /\ call'.caller = call.caller
          /\ call'.latest \subseteq {q} /\ DOMAIN call' = CallFields
      BY <1>1, <1>2, <2>1 DEF Shaped, CallFields
    <2>3. engine.state # "none"
      BY <1>2, SpeakingIsThere DEF Hears
    <2>4. Between("read", engine'.input, engine'.output, engine'.search)
      BY DEF Between
    <2> QED  BY <1>1, <2>1, <2>2, <2>3, <2>4, GoesOn DEF Places
  <1>3. CASE Hears("bestmove") /\ engine' = Rest /\ Return(Found(call.latest, Next1.of, Next1.score))
    <2>1. /\ Calm(engine'.input, engine'.output, engine'.search) /\ Next1.of = q
          /\ Next1.score \in Scores[q] /\ engine'.state = engine.state /\ DOMAIN engine' = EngineFields
      <3>1. /\ engine.output # <<>> /\ Head(engine.output).kind = "bestmove"
            /\ Next1 = Head(engine.output)
        BY <1>3 DEF Hears, Next1
      <3>2. /\ Head(engine.output) \in Spoken(q)
            /\ Calm(engine.input, Tail(engine.output), engine.search)
        BY <1>1, <3>1, LineRead
      <3>3. Next1.of = q /\ Next1.score \in Scores[q]
        BY <3>1, <3>2, Kinds
      <3> QED  BY <1>3, <3>2, <3>3, RestFacts
    <2>2. engine.state # "none"
      BY <1>3, SpeakingIsThere DEF Hears
    <2>3. PICK a : Return(a) /\ a = Found(call.latest, Next1.of, Next1.score)
      BY <1>3
    <2>4. a.of = q /\ a.lines \subseteq {q} /\ a.score \in Scores[q]
      BY <1>1, <2>1, <2>3 DEF Found
    <2> QED  BY <2>1, <2>2, <2>3, <2>4, ReturnKeeps
  <1>4. CASE Interrupt("Timeout")
    <2>1. CASE Open
      <3>1. Stopping(engine, "Timeout") /\ DOMAIN engine = EngineFields
        BY <1>4, <2>1 DEF Interrupt, Shaped
      <3> QED  BY <1>1, <2>1, <3>1, StoppingKeeps
    <2>2. CASE ~Open
      BY <1>1, <1>4, <2>2, ThrowKeeps DEF Interrupt
    <2> QED  BY <2>1, <2>2
  <1>5. CASE Throw("EngineError")
    BY <1>1, <1>5, ThrowKeeps
  <1> QED
    BY <1>2, <1>3, <1>4, <1>5 DEF Read

LEMMA MisreadKeeps ==
    ASSUME NEW q, Shaped, Quiet, Asking(q), UNCHANGED task, Misread
    PROVE  Shaped' /\ Quiet' /\ Asking(q)'
  <1>1. /\ call.pc = "read" /\ engine.output # <<>>
        /\ Serves(engine.input, engine.output, engine.search, q)
    BY DEF Misread, Hears, Asking
  <1>2. CASE Open
    <2>1. /\ Stopping(Rest, "EngineError") /\ DOMAIN Rest = EngineFields
          /\ Rest.state = engine.state /\ Serves(Rest.input, Rest.output, Rest.search, q)
      BY <1>1, <1>2, LineRead, RestFacts DEF Misread
    <2> QED  BY <1>1, <1>2, <2>1, StoppingKeeps
  <1>3. CASE ~Open
    BY <1>1, <1>3, ThrowKeeps DEF Misread
  <1> QED
    BY <1>2, <1>3

LEMMA MovelessKeeps ==
    ASSUME NEW q, Shaped, Quiet, Asking(q), UNCHANGED task, Moveless
    PROVE  Shaped' /\ Quiet' /\ Asking(q)'
  BY ThrowKeeps DEF Moveless

LEMMA DrainKeeps ==
    ASSUME NEW q, Shaped, Quiet, Asking(q), UNCHANGED task, Drain
    PROVE  Shaped' /\ Quiet' /\ Asking(q)'
  <1>1. /\ call.pc = "drain" /\ call.latest \subseteq {q}
        /\ Serves(engine.input, engine.output, engine.search, q)
    BY DEF Drain, Asking
  <1>2. CASE Awaits("bestmove")
    <2>1. engine' = [engine EXCEPT !.output = Tail(@)] /\ UNCHANGED call /\ engine.output # <<>>
      BY <1>2 DEF Awaits, Skips
    <2>2. /\ engine'.input = engine.input /\ engine'.output = Tail(engine.output)
          /\ engine'.search = engine.search /\ engine'.state = engine.state
          /\ DOMAIN engine' = EngineFields
      BY <2>1 DEF Shaped, EngineFields
    <2>3. Serves(engine'.input, engine'.output, engine'.search, q)
      BY <1>1, <2>1, <2>2, LineRead
    <2>4. engine.state # "none"
      BY <2>1, SpeakingIsThere
    <2>5. Between("drain", engine'.input, engine'.output, engine'.search)
      BY DEF Between
    <2> QED  BY <1>1, <2>1, <2>2, <2>3, <2>4, <2>5, GoesOn DEF Places, Shaped
  <1>3. CASE Hears("bestmove") /\ Heeded("drained")
    <2>1. /\ engine' = [engine EXCEPT !.output = Tail(@)] /\ Goto("drained")
          /\ engine.output # <<>> /\ Head(engine.output).kind = "bestmove"
      BY <1>3 DEF Hears, Heeded, Next1
    <2>2. /\ engine'.input = engine.input /\ engine'.output = Tail(engine.output)
          /\ engine'.search = engine.search /\ engine'.state = engine.state
          /\ DOMAIN engine' = EngineFields
      BY <2>1 DEF Shaped, EngineFields
    <2>3. Calm(engine'.input, engine'.output, engine'.search)
      BY <1>1, <2>1, <2>2, LineRead
    <2>4. engine.state # "none"
      BY <2>1, SpeakingIsThere
    <2>5. Between("drained", engine'.input, engine'.output, engine'.search)
      BY <2>3 DEF Between
    <2> QED  BY <1>1, <2>1, <2>2, <2>4, <2>5, GotoFacts, GoesOn DEF Places
  <1>4. CASE GivesUp
    BY <1>1, <1>4, RestartKeeps DEF GivesUp
  <1> QED
    BY <1>2, <1>3, <1>4 DEF Drain

LEMMA AfterDrainKeeps ==
    ASSUME NEW q, Shaped, Quiet, Asking(q), UNCHANGED task, AfterDrain
    PROVE  Shaped' /\ Quiet' /\ Asking(q)'
  <1>1. call.pc = "drained" /\ Throw(call.code) /\ Calm(engine.input, engine.output, engine.search)
    BY DEF AfterDrain, Quiet, Between
  <1> QED
    BY <1>1, ThrowKeeps

LEMMA ClientKeeps ==
    ASSUME NEW q, Shaped, Quiet, Asking(q), UNCHANGED task, ClientStep
    PROVE  Shaped' /\ Quiet' /\ Asking(q)'
  BY StartKeeps, WaitUciokKeeps, WaitReadyokKeeps, AfterStartKeeps, AskKeeps, ReadKeeps,
     MisreadKeeps, MovelessKeeps, DrainKeeps, AfterDrainKeeps DEF ClientStep

LEMMA ClientIsBusy == ClientStep => call.pc # "idle"
  BY DEF ClientStep, Start, WaitUciok, WaitReadyok, AfterStart, Ask, Read, Misread, Moveless, Drain,
         AfterDrain

-----------------------------------------------------------------------------
(* The cache.                                                               *)

\* An answer of the question that is put.
LEMMA PutKeeps ==
    ASSUME CacheOK, NEW q, NEW a, a.of = q, a.lines \subseteq {q}, a.score \in Scores[q], Put(q, a)
    PROVE  CacheOK'
  <1>1. CASE q \in DOMAIN cache
    <2>1. cache' = [cache EXCEPT ![q] = a] /\ UNCHANGED order
      BY <1>1 DEF Put
    <2>2. /\ DOMAIN cache' = DOMAIN cache
          /\ \A k \in DOMAIN cache : cache'[k] = IF k = q THEN a ELSE cache[k]
      BY <2>1 DEF CacheOK
    <2>3. \A k \in DOMAIN cache' :
             cache'[k].of = k /\ cache'[k].lines \subseteq {k} /\ cache'[k].score \in Scores[k]
      BY <2>2 DEF CacheOK
    <2>4. cache' = [k \in DOMAIN cache' |-> cache'[k]]
      BY <2>1, <2>2 DEF CacheOK
    <2> QED  BY <2>1, <2>2, <2>3, <2>4 DEF CacheOK
  <1>2. CASE q \notin DOMAIN cache /\ MaxEntries = 0
    BY <1>2 DEF Put, cacheVars, CacheOK
  <1>3. CASE q \notin DOMAIN cache /\ MaxEntries # 0
    <2>1. PICK n \in Nat : n = Len(order)
      BY DEF CacheOK
    <2>2. PICK m \in Nat \ {0} : m = MaxEntries
      BY <1>3, AnalyzerConstants
    <2>3. n <= m /\ DOMAIN order = 1 .. n
      BY <2>1, <2>2 DEF CacheOK
    <2>4. PICK d \in {0, 1} : d <= n /\ n - d + 1 <= m /\ Dropped = SubSeq(order, 1, d)
      <3>1. Dropped = SubSeq(order, 1, n + 1 - m)
        BY <2>1, <2>2 DEF Dropped
      <3>2. CASE n = m
        <4>1. n + 1 - m = 1 /\ 1 <= n /\ n - 1 + 1 <= m
          BY <2>2, <3>2
        <4> QED  BY <3>1, <4>1
      <3>3. CASE n < m
        <4>1. SubSeq(order, 1, n + 1 - m) = <<>>
          BY <2>1, <2>2, <3>3, SubSeqProperties DEF CacheOK
        <4>2. SubSeq(order, 1, 0) = <<>>
          BY SubSeqProperties DEF CacheOK
        <4> QED  BY <2>2, <3>1, <3>3, <4>1, <4>2
      <3> QED  BY <2>3, <3>2, <3>3
    <2>5. /\ Len(Dropped) = d /\ DOMAIN Dropped = 1 .. d
          /\ \A i \in 1 .. d : Dropped[i] = order[i]
      <3>1. \A i \in 1 .. d : i \in 1 .. n /\ order[i] \in DOMAIN cache /\ 1 + i - 1 = i
        BY <2>1, <2>4 DEF CacheOK
      <3>2. /\ SubSeq(order, 1, d) \in Seq(DOMAIN cache)
            /\ Len(SubSeq(order, 1, d)) = IF 1 <= d THEN d - 1 + 1 ELSE 0
            /\ \A i \in 1 .. d - 1 + 1 : SubSeq(order, 1, d)[i] = order[1 + i - 1]
        BY <3>1, SubSeqProperties DEF CacheOK
      <3>3. d - 1 + 1 = d /\ (IF 1 <= d THEN d - 1 + 1 ELSE 0) = d
        OBVIOUS
      <3>4. Len(Dropped) = d /\ Dropped \in Seq(DOMAIN cache)
        BY <2>4, <3>2, <3>3
      <3> QED  BY <2>4, <3>1, <3>2, <3>3, <3>4
    <2>6. PICK rest : rest = SubSeq(order, d + 1, n)
      OBVIOUS
    <2>7. /\ rest \in Seq(DOMAIN cache) /\ Len(rest) = n - d
          /\ \A i \in 1 .. n - d : rest[i] = order[i + d]
      BY <2>1, <2>3, <2>4, <2>6, SubSeqProperties DEF CacheOK
    <2>8. /\ cache' = [k \in (DOMAIN cache \ ToSet(Dropped)) \cup {q} |->
                            IF k = q THEN a ELSE cache[k]]
          /\ order' = Append(rest, q)
      BY <1>3, <2>1, <2>5, <2>6 DEF Put
    <2>9. \A i \in 1 .. n : order[i] \in DOMAIN cache /\ order[i] # q
      BY <1>3, <2>1 DEF CacheOK
    <2>10. \A i \in 1 .. n : order[i] \in ToSet(Dropped) <=> i <= d
      <3> SUFFICES ASSUME NEW i \in 1 .. n PROVE order[i] \in ToSet(Dropped) <=> i <= d
        OBVIOUS
      <3>1. ASSUME i <= d PROVE order[i] \in ToSet(Dropped)
        <4>1. i \in 1 .. d
          BY <3>1
        <4> QED  BY <2>5, <4>1 DEF ToSet
      <3>2. ASSUME order[i] \in ToSet(Dropped) PROVE i <= d
        <4>1. PICK j \in 1 .. d : order[i] = order[j]
          BY <2>5, <3>2 DEF ToSet
        <4>2. j \in 1 .. n
          BY <2>4
        <4>3. i = j
          BY <2>3, <4>1, <4>2 DEF CacheOK, IsInjective
        <4> QED  BY <4>3
      <3> QED  BY <3>1, <3>2
    <2>11. DOMAIN cache' = (DOMAIN cache \ ToSet(Dropped)) \cup {q}
      BY <2>8
    <2>12. \A i \in 1 .. n - d : i + d \in 1 .. n /\ ~(i + d <= d) /\ rest[i] = order[i + d]
      <3>1. ASSUME NEW i \in 1 .. n - d PROVE i + d \in 1 .. n /\ ~(i + d <= d)
        BY <2>4
      <3> QED  BY <2>7, <3>1
    <2>13. \A i \in 1 .. n - d : rest[i] \in DOMAIN cache' /\ rest[i] # q
      BY <2>9, <2>10, <2>11, <2>12
    <2>14. rest \in Seq(DOMAIN cache')
      BY <2>7, <2>13, Narrower
    <2>15. /\ order' \in Seq(DOMAIN cache') /\ Len(order') = n - d + 1
           /\ \A i \in 1 .. n - d : order'[i] = rest[i]
           /\ order'[n - d + 1] = q
      BY <2>7, <2>8, <2>11, <2>14, AppendFacts
    <2>16. DOMAIN order' = 1 .. n - d + 1
      BY <2>15
    <2>17. \A i \in 1 .. n - d + 1 : i \in 1 .. n - d \/ i = n - d + 1
      BY <2>4
    <2>18. IsInjective(order)'
      <3> SUFFICES ASSUME NEW i \in 1 .. n - d + 1, NEW j \in 1 .. n - d + 1, order'[i] = order'[j]
                   PROVE  i = j
        BY <2>16 DEF IsInjective
      <3>1. CASE i \in 1 .. n - d /\ j \in 1 .. n - d
        <4>1. order[i + d] = order[j + d] /\ i + d \in 1 .. n /\ j + d \in 1 .. n
          BY <2>12, <2>15, <3>1
        <4>2. i + d = j + d
          BY <2>3, <4>1 DEF CacheOK, IsInjective
        <4> QED  BY <2>4, <4>2
      <3>2. CASE i = n - d + 1 \/ j = n - d + 1
        BY <2>13, <2>15, <2>17, <3>2
      <3> QED  BY <2>17, <3>1, <3>2
    <2>19. ToSet(order)' = DOMAIN cache'
      <3>1. \A i \in 1 .. n - d + 1 : order'[i] \in DOMAIN cache'
        BY <2>15, <2>16
      <3>2. ASSUME NEW k \in DOMAIN cache' PROVE \E i \in 1 .. n - d + 1 : order'[i] = k
        <4>1. CASE k = q
          <5>1. n - d + 1 \in 1 .. n - d + 1
            BY <2>4
          <5> QED  BY <2>15, <4>1, <5>1
        <4>2. CASE k # q
          <5>1. PICK i \in 1 .. n : order[i] = k
            BY <2>3, <2>11, <3>2, <4>2 DEF CacheOK, ToSet
          <5>2. ~(i <= d)
            BY <2>10, <2>11, <4>2, <5>1
          <5>3. i - d \in 1 .. n - d /\ i - d \in 1 .. n - d + 1 /\ (i - d) + d = i
            BY <2>4, <5>2
          <5> QED  BY <2>12, <2>15, <5>1, <5>3
        <4> QED  BY <4>1, <4>2
      <3>3. ToSet(order)' = {order'[i] : i \in 1 .. n - d + 1}
        BY <2>16 DEF ToSet
      <3> QED  BY <3>1, <3>2, <3>3
    <2>20. Len(order') <= MaxEntries
      BY <2>2, <2>4, <2>15
    <2>21. \A k \in DOMAIN cache' :
              cache'[k].of = k /\ cache'[k].lines \subseteq {k} /\ cache'[k].score \in Scores[k]
      BY <2>8 DEF CacheOK
    <2>22. cache' = [k \in DOMAIN cache' |-> cache'[k]]
      BY <2>8
    <2> QED  BY <2>15, <2>18, <2>19, <2>20, <2>21, <2>22 DEF CacheOK
  <1> QED
    BY <1>1, <1>2, <1>3

-----------------------------------------------------------------------------
(* The analyzer.                                                            *)

LEMMA TaskShape == DOMAIN NoTask = TaskFields /\ NoTask.asking = FALSE
  BY DEF NoTask, TaskFields

LEMMA SessionNext == ASSUME SessionInv, CacheOK, [Next]_vars PROVE SessionInv' /\ CacheOK'
  <1>1. CASE UNCHANGED vars
    BY <1>1 DEF vars, sessionVars, cacheVars, SessionInv, Shaped, Quiet, Pending, Asking, Question, CacheOK
  <1>2. CASE BeginShallow \/ BeginDeep \/ Lookup \/ Cancelled \/ FinishShallow \/ FinishDeep
    <2>1. /\ ~task.asking /\ ~task'.asking /\ DOMAIN task' = TaskFields /\ task'.asking \in BOOLEAN
      <3>1. CASE BeginShallow
        BY <3>1, TaskShape DEF BeginShallow, Task, TaskFields
      <3>2. CASE BeginDeep
        BY <3>2, TaskShape DEF BeginDeep, Task, TaskFields
      <3>3. CASE Lookup
        BY <3>3 DEF Lookup, Busy, SessionInv, Shaped, TaskFields
      <3>4. CASE Cancelled
        BY <3>4, TaskShape DEF Cancelled, Busy
      <3>5. CASE FinishShallow \/ FinishDeep
        <4>1. Answered /\ task' = NoTask
          BY <3>5 DEF FinishShallow, FinishDeep
        <4> QED  BY <4>1, TaskShape DEF Answered, SessionInv, Pending, Shaped
      <3> QED  BY <1>2, <3>1, <3>2, <3>3, <3>4, <3>5
    <2>2. UNCHANGED <<call, engine, cache, order>>
      BY <1>2 DEF BeginShallow, BeginDeep, Lookup, Cancelled, FinishShallow, FinishDeep, sessionVars,
         cacheVars
    <2> QED  BY <2>1, <2>2 DEF SessionInv, Shaped, Quiet, CacheOK
  <1>3. CASE AskEngine
    <2>1. /\ ~task.asking /\ task'.asking = TRUE /\ DOMAIN task' = TaskFields
          /\ task'.got = task.got /\ task'.todo = task.todo /\ Len(task.got) < Len(task.todo)
          /\ Analyze(Question) /\ UNCHANGED <<cache, order>>
      BY <1>3 DEF AskEngine, Busy, SessionInv, Shaped, TaskFields, cacheVars
    <2>2. PICK q : q = Question /\ q = Question'
      BY <2>1 DEF Question
    <2>3. /\ call.pc = "idle" /\ UNCHANGED engine /\ call'.pc = IF Running THEN "ask" ELSE "start"
          /\ call'.asked = {q} /\ call'.latest = {} /\ call'.caller = "call"
          /\ DOMAIN call' = CallFields
      BY <2>1, <2>2 DEF Analyze, Idle, CallFields
    <2>4. Shaped'
      BY <2>1, <2>3 DEF SessionInv, Shaped, Places
    <2>5. Quiet'
      BY <2>3 DEF SessionInv, Quiet, Between, Running
    <2>6. Asking(q)'
      BY <2>3 DEF Asking
    <2>7. Len(task.got) # Len(task.todo)
      <3>1. PICK g : g = Len(task.got)
        OBVIOUS
      <3> QED  BY <2>1
    <2> QED  BY <2>1, <2>2, <2>4, <2>5, <2>6, <2>7 DEF SessionInv, Pending, Asking, CacheOK
  <1>4. CASE Receive
    <2>1. /\ task.asking /\ call.pc = "idle" /\ call.answer.kind = "found" /\ UNCHANGED <<call, engine>>
          /\ Put(Question, call.answer) /\ task'.asking = FALSE /\ DOMAIN task' = TaskFields
      BY <1>4 DEF Receive, SessionInv, Shaped, TaskFields, sessionVars
    <2>2. /\ call.answer.of = Question /\ call.answer.lines \subseteq {Question}
          /\ call.answer.score \in Scores[Question]
      BY <2>1 DEF SessionInv, Pending, Asking
    <2>3. CacheOK'
      BY <2>1, <2>2, PutKeeps
    <2> QED  BY <2>1, <2>3 DEF SessionInv, Shaped, Quiet
  <1>5. CASE Fail
    <2>1. /\ call.pc = "idle" /\ UNCHANGED <<call, cache, order>> /\ task' = NoTask
          /\ engine' = engine \/ engine' = NoProcess
      BY <1>5 DEF Fail, cacheVars
    <2>2. Shaped'
      BY <2>1, TaskShape, NoProcessShape DEF SessionInv, Shaped
    <2>3. Quiet'
      BY <2>1, NothingIsCalm DEF SessionInv, Quiet, Between
    <2> QED  BY <2>1, <2>2, <2>3, TaskShape DEF SessionInv, CacheOK
  <1>6. CASE Client
    <2>1. ClientStep /\ UNCHANGED <<task, cache, order>> /\ call.pc # "idle"
      BY <1>6, ClientIsBusy DEF Client, reviewVars, cacheVars
    <2>2. PICK q : q = Question /\ q = Question'
      BY <2>1 DEF Question
    <2>3. task.asking /\ Asking(q) /\ Len(task.got) # Len(task.todo)
      BY <2>1, <2>2 DEF SessionInv, Pending
    <2>4. Shaped' /\ Quiet' /\ Asking(q)'
      BY <2>1, <2>3, ClientKeeps DEF SessionInv
    <2> QED  BY <2>1, <2>2, <2>3, <2>4 DEF SessionInv, Pending, Asking, CacheOK
  <1>7. CASE Commands \/ Searches \/ Mishaps
    <2>1. ChildMoves /\ UNCHANGED <<task, cache, order>>
      BY <1>7 DEF Commands, Searches, Mishaps, ChildMoves, reviewVars, cacheVars
    <2>2. PICK q : q = Question /\ q = Question'
      BY <2>1 DEF Question
    <2>3. call.pc = "idle" \/ Asking(q)
      BY <2>2 DEF SessionInv, Pending
    <2>4. Shaped' /\ Quiet' /\ UNCHANGED call /\ (Asking(q) => Asking(q)')
      BY <2>1, <2>3, ChildKeeps DEF SessionInv
    <2> QED  BY <2>1, <2>2, <2>4 DEF SessionInv, Pending, Asking, CacheOK
  <1> QED
    BY <1>1, <1>2, <1>3, <1>4, <1>5, <1>6, <1>7 DEF Next, AnalyzerStep

LEMMA SessionInitially == Init => SessionInv /\ CacheOK
  <1> SUFFICES ASSUME Init PROVE SessionInv /\ CacheOK
    OBVIOUS
  <1>1. /\ call.pc = "idle" /\ call.caller = "call" /\ DOMAIN call = CallFields
        /\ engine = NoProcess
    BY DEF Init, SessionInit, Idle, CallFields
  <1>2. task = NoTask /\ cache = <<>> /\ order = <<>>
    BY DEF Init
  <1>3. SessionInv
    BY <1>1, <1>2, TaskShape, NoProcessShape, NothingIsCalm
    DEF SessionInv, Shaped, Places, Quiet, Between
  <1>4. DOMAIN cache = {} /\ Len(order) = 0 /\ DOMAIN order = {} /\ order \in Seq({})
    BY <1>2
  <1>5. cache = [q \in {} |-> cache[q]]
    BY <1>2
  <1> QED
    BY <1>3, <1>4, <1>5, AnalyzerConstants DEF CacheOK, ToSet, IsInjective

\* Whatever is interrupted, restarted, lost or late, an answer of the cache is of its own
\* question, lines and bestmove alike, and the cache keeps its limit.
THEOREM CacheIsExactHolds == Spec => []CacheIsExact
  <1>1. Init => SessionInv /\ CacheOK
    BY SessionInitially
  <1>2. SessionInv /\ CacheOK /\ [Next]_vars => (SessionInv /\ CacheOK)'
    BY SessionNext
  <1>3. CacheOK => CacheIsExact
    BY DEF CacheOK, CacheIsExact
  <1> QED
    BY <1>1, <1>2, <1>3, PTL DEF Spec

-----------------------------------------------------------------------------
(* The sort.                                                                *)

\* Every place has a rank of its own, and the ranks are all the numbers below the number of
\* places: the sort lists every place once, and what precedes another comes first.
LEMMA RanksAre ==
    ASSUME NEW moves, NEW plies, NEW places \in SUBSET Nat, IsFiniteSet(places),
           \A i \in places : moves[plies[i]].loss \in Int
    PROVE  /\ \A i \in places :
                 Rank(moves, plies, places, i) \in Nat
                 /\ Rank(moves, plies, places, i) < Cardinality(places)
           /\ \A i, j \in places : Precedes(moves, plies, i, j) =>
                 Rank(moves, plies, places, i) < Rank(moves, plies, places, j)
           /\ \A i, j \in places : i # j =>
                 Precedes(moves, plies, i, j) \/ Precedes(moves, plies, j, i)
           /\ \A n \in Nat : n < Cardinality(places) =>
                 \E i \in places : Rank(moves, plies, places, i) = n
  <1>1. \A i, j \in places :
           Precedes(moves, plies, i, j) <=>
              \/ moves[plies[i]].loss > moves[plies[j]].loss
              \/ moves[plies[i]].loss = moves[plies[j]].loss /\ i < j
    BY DEF Precedes
  <1>2. /\ \A i \in places : ~Precedes(moves, plies, i, i)
        /\ \A i, j \in places : i # j => Precedes(moves, plies, i, j) \/ Precedes(moves, plies, j, i)
        /\ \A i, j, k \in places :
              Precedes(moves, plies, i, j) /\ Precedes(moves, plies, j, k) => Precedes(moves, plies, i, k)
    <2> DEFINE f == [i \in places |-> moves[plies[i]].loss]
    <2>1. f \in [places -> Int]
      OBVIOUS
    <2>2. \A i, j \in places : Precedes(moves, plies, i, j) <=> (f[i] > f[j] \/ (f[i] = f[j] /\ i < j))
      BY <1>1
    <2> HIDE DEF f
    <2>3. \A i \in places : ~Precedes(moves, plies, i, i)
      BY <2>1, <2>2
    <2>4. \A i, j \in places : i # j => Precedes(moves, plies, i, j) \/ Precedes(moves, plies, j, i)
      BY <2>1, <2>2
    <2>5. ASSUME NEW i \in places, NEW j \in places, NEW k \in places,
                 Precedes(moves, plies, i, j), Precedes(moves, plies, j, k)
          PROVE  Precedes(moves, plies, i, k)
      <3>1. f[i] \in Int /\ f[j] \in Int /\ f[k] \in Int
        BY <2>1
      <3>4. i \in Int /\ j \in Int /\ k \in Int
        OBVIOUS
      <3>2. (f[i] > f[j] \/ (f[i] = f[j] /\ i < j)) /\ (f[j] > f[k] \/ (f[j] = f[k] /\ j < k))
        BY <2>2, <2>5
      <3>3. f[i] > f[k] \/ (f[i] = f[k] /\ i < k)
        BY <3>1, <3>2, <3>4
      <3> QED BY <2>2, <3>3
    <2> QED BY <2>3, <2>4, <2>5
  <1> DEFINE before(i) == {j \in places : Precedes(moves, plies, j, i)}
  <1>3. \A i : Rank(moves, plies, places, i) = Cardinality(before(i))
    BY DEF Rank
  <1>4. /\ Cardinality(places) \in Nat
        /\ \A i \in places : IsFiniteSet(before(i)) /\ Cardinality(before(i)) \in Nat
    <2> SUFFICES ASSUME NEW i \in places PROVE IsFiniteSet(before(i)) /\ Cardinality(before(i)) \in Nat
      BY FS_CardinalityType
    <2>1. before(i) \in SUBSET places
      OBVIOUS
    <2>2. IsFiniteSet(before(i))
      BY <2>1, FS_Subset
    <2> QED  BY <2>2, FS_CardinalityType
  <1>5. \A i, j \in places : Precedes(moves, plies, i, j) => Cardinality(before(i)) < Cardinality(before(j))
    <2> SUFFICES ASSUME NEW i \in places, NEW j \in places, Precedes(moves, plies, i, j)
                 PROVE  Cardinality(before(i)) < Cardinality(before(j))
      OBVIOUS
    <2>1. before(i) \in SUBSET before(j) /\ i \in before(j) /\ i \notin before(i)
      BY <1>2
    <2>2. IsFiniteSet(before(j)) /\ Cardinality(before(i)) \in Nat /\ Cardinality(before(j)) \in Nat
      BY <1>4
    <2> HIDE DEF before
    <2>3. Cardinality(before(i)) <= Cardinality(before(j)) /\ Cardinality(before(i)) # Cardinality(before(j))
      BY <2>1, <2>2, FS_Subset
    <2> QED  BY <2>2, <2>3
  <1>6. \A i \in places : Cardinality(before(i)) < Cardinality(places)
    <2> SUFFICES ASSUME NEW i \in places PROVE Cardinality(before(i)) < Cardinality(places)
      OBVIOUS
    <2>1. before(i) \in SUBSET places /\ i \notin before(i)
      BY <1>2
    <2> HIDE DEF before
    <2>2. Cardinality(before(i)) <= Cardinality(places) /\ Cardinality(before(i)) # Cardinality(places)
      BY <2>1, FS_Subset
    <2> QED  BY <1>4, <2>2
  <1>7. \A n \in Nat : n < Cardinality(places) => \E i \in places : Cardinality(before(i)) = n
    <2> PICK c \in Nat : c = Cardinality(places)
      BY <1>4
    <2> DEFINE f == [i \in places |-> Cardinality(before(i))]
    <2>1. \A i \in places : f[i] = Cardinality(before(i)) /\ f[i] \in 0 .. c - 1
      BY <1>4, <1>6
    <2>2. \A i, j \in places : f[i] = f[j] => i = j
      <3> SUFFICES ASSUME NEW i \in places, NEW j \in places, f[i] = f[j], i # j PROVE FALSE
        OBVIOUS
      <3>1. f[i] < f[j] \/ f[j] < f[i]
        BY <1>2, <1>5, <2>1
      <3>2. f[i] \in Int /\ f[j] \in Int
        BY <2>1
      <3> HIDE DEF f
      <3> QED  BY <3>1, <3>2
    <2>3. f \in [places -> 0 .. c - 1]
      BY <2>1
    <2> HIDE DEF f, before
    <2>4. f \in Injection(places, 0 .. c - 1)
      BY <2>2, <2>3 DEF Injection, IsInjective
    <2>5. IsFiniteSet(0 .. c - 1) /\ Cardinality(0 .. c - 1) = c
      <3>1. c - 1 \in Int /\ 0 \in Int /\ (IF 0 > c - 1 THEN 0 ELSE (c - 1) - 0 + 1) = c
        OBVIOUS
      <3> QED  BY <3>1, FS_Interval
    <2>6. f \in Surjection(places, 0 .. c - 1)
      BY <2>4, <2>5, FS_Injection
    <2>7. \A n \in 0 .. c - 1 : \E i \in places : f[i] = n
      BY <2>6 DEF Surjection
    <2>8. ASSUME NEW n \in Nat, n < Cardinality(places) PROVE n \in 0 .. c - 1
      BY <2>8
    <2> QED  BY <2>1, <2>7, <2>8
  <1>8. \A i \in places :
           Rank(moves, plies, places, i) \in Nat /\ Rank(moves, plies, places, i) < Cardinality(places)
    BY <1>3, <1>4, <1>6
  <1>9. \A i, j \in places : Precedes(moves, plies, i, j) =>
           Rank(moves, plies, places, i) < Rank(moves, plies, places, j)
    BY <1>3, <1>5
  <1>10. \A n \in Nat : n < Cardinality(places) => \E i \in places : Rank(moves, plies, places, i) = n
    BY <1>3, <1>7
  <1> QED
    BY <1>2, <1>8, <1>9, <1>10

LEMMA FirstFacts ==
    ASSUME NEW S, NEW s \in Seq(S), NEW n \in Nat
    PROVE  /\ First(s, n) \in Seq(S) /\ Len(First(s, n)) \in Nat
           /\ Len(First(s, n)) <= n /\ Len(First(s, n)) <= Len(s)
           /\ \A i \in 1 .. Len(First(s, n)) : i \in 1 .. Len(s) /\ First(s, n)[i] = s[i]
  <1>1. PICK m \in Nat : m <= Len(s) /\ m <= n /\ First(s, n) = SubSeq(s, 1, m)
    BY DEF First
  <1>2. /\ SubSeq(s, 1, m) \in Seq(S) /\ Len(SubSeq(s, 1, m)) = m
        /\ \A i \in 1 .. m : i \in 1 .. Len(s) /\ SubSeq(s, 1, m)[i] = s[i]
    <2>1. \A i \in 1 .. m : i \in 1 .. Len(s) /\ s[i] \in S /\ 1 + i - 1 = i
      BY <1>1
    <2>2. /\ SubSeq(s, 1, m) \in Seq(S)
          /\ Len(SubSeq(s, 1, m)) = IF 1 <= m THEN m - 1 + 1 ELSE 0
          /\ \A i \in 1 .. m - 1 + 1 : SubSeq(s, 1, m)[i] = s[1 + i - 1]
      BY <2>1, SubSeqProperties
    <2>3. m - 1 + 1 = m /\ (IF 1 <= m THEN m - 1 + 1 ELSE 0) = m
      OBVIOUS
    <2> QED  BY <2>1, <2>2, <2>3
  <1> QED
    BY <1>1, <1>2

\* The list of the first n by loss: no place twice, and whatever has a greater loss than a
\* listed one is listed before it.
WorstFirst(list, moves, plies, places) ==
    /\ \A i, j \in 1 .. Len(list) : list[i] = list[j] => i = j
    /\ \A i \in 1 .. Len(list) : \E k \in places :
          /\ list[i] = plies[k]
          /\ \A q \in places : moves[plies[q]].loss > moves[plies[k]].loss =>
                \E j \in 1 .. i - 1 : list[j] = plies[q]

LEMMA FirstAreWorst ==
    ASSUME NEW moves, NEW S, NEW plies, NEW places \in SUBSET Nat, IsFiniteSet(places),
           \A i \in places : plies[i] \in S /\ moves[plies[i]].loss \in Int,
           \A i, j \in places : plies[i] = plies[j] => i = j,
           NEW n \in Nat, NEW list, list = First(ByLoss(moves, plies, places), n)
    PROVE  /\ list \in Seq(S) /\ Len(list) <= n
           /\ WorstFirst(list, moves, plies, places)
  <1> PICK c \in Nat : c = Cardinality(places)
    BY FS_CardinalityType
  <1> DEFINE rank(i) == Rank(moves, plies, places, i)
             at(i) == CHOOSE k \in places : rank(k) = i - 1
             sorted == ByLoss(moves, plies, places)
  <1>1. /\ \A i \in places : rank(i) \in Nat /\ rank(i) < c
        /\ \A i, j \in places : Precedes(moves, plies, i, j) => rank(i) < rank(j)
        /\ \A i, j \in places : i # j => Precedes(moves, plies, i, j) \/ Precedes(moves, plies, j, i)
        /\ \A m \in Nat : m < c => \E i \in places : rank(i) = m
    BY RanksAre
  <1>2. \A i \in 1 .. c : at(i) \in places /\ rank(at(i)) = i - 1
    <2> SUFFICES ASSUME NEW i \in 1 .. c PROVE \E k \in places : rank(k) = i - 1
      OBVIOUS
    <2>1. i - 1 \in Nat /\ i - 1 < c
      OBVIOUS
    <2> QED  BY <1>1, <2>1
  <1>3. \A k, l \in places : rank(k) = rank(l) => k = l
    <2> SUFFICES ASSUME NEW k \in places, NEW l \in places, rank(k) = rank(l), k # l PROVE FALSE
      OBVIOUS
    <2>1. rank(k) < rank(l) \/ rank(l) < rank(k)
      BY <1>1
    <2>2. rank(k) \in Nat /\ rank(l) \in Nat
      BY <1>1
    <2> HIDE DEF rank
    <2> QED  BY <2>1, <2>2
  <1>4. sorted = [i \in 1 .. c |-> plies[at(i)]]
    BY DEF ByLoss
  <1> HIDE DEF at, rank
  <1>5. /\ sorted \in Seq(S) /\ Len(sorted) = c
        /\ \A i \in 1 .. c : sorted[i] = plies[at(i)]
    <2>1. \A i \in 1 .. c : plies[at(i)] \in S
      BY <1>2
    <2> HIDE DEF sorted
    <2> QED  BY <1>4, <2>1
  <1>6. PICK m \in Nat : m = Len(list)
    BY <1>5, FirstFacts
  <1>7. /\ list \in Seq(S) /\ m <= n /\ m <= c
        /\ \A i \in 1 .. m : i \in 1 .. c /\ list[i] = plies[at(i)]
    <2> HIDE DEF sorted
    <2>1. list = First(sorted, n)
      BY DEF sorted
    <2> QED  BY <1>5, <1>6, <2>1, FirstFacts
  <1>8. \A i, j \in 1 .. m : list[i] = list[j] => i = j
    <2> SUFFICES ASSUME NEW i \in 1 .. m, NEW j \in 1 .. m, list[i] = list[j] PROVE i = j
      OBVIOUS
    <2>1. at(i) = at(j)
      BY <1>2, <1>7
    <2>2. i - 1 = j - 1
      BY <1>2, <1>7, <2>1
    <2> QED  BY <2>2
  <1>9. ASSUME NEW i \in 1 .. m
        PROVE  \E k \in places :
                  /\ list[i] = plies[k]
                  /\ \A q \in places : moves[plies[q]].loss > moves[plies[k]].loss =>
                        \E j \in 1 .. i - 1 : list[j] = plies[q]
    <2>1. at(i) \in places /\ list[i] = plies[at(i)] /\ rank(at(i)) = i - 1
      BY <1>2, <1>7
    <2>2. ASSUME NEW q \in places, moves[plies[q]].loss > moves[plies[at(i)]].loss
          PROVE  \E j \in 1 .. i - 1 : list[j] = plies[q]
      <3>1. Precedes(moves, plies, q, at(i))
        BY <2>2 DEF Precedes
      <3>2. PICK r \in Nat : r = rank(q) /\ r < i - 1
        BY <1>1, <2>1, <3>1
      <3>3. r + 1 \in 1 .. i - 1 /\ r + 1 \in 1 .. m /\ r + 1 - 1 = r
        BY <3>2
      <3>4. at(r + 1) \in places /\ rank(at(r + 1)) = r
        BY <1>2, <1>7, <3>3
      <3>5. at(r + 1) = q
        BY <1>3, <3>2, <3>4
      <3>6. list[r + 1] = plies[q]
        BY <1>7, <3>3, <3>5
      <3> QED  BY <3>3, <3>6
    <2> QED  BY <2>1, <2>2
  <1> QED
    BY <1>6, <1>7, <1>8, <1>9 DEF WorstFirst

-----------------------------------------------------------------------------
(* A review.                                                                *)

\* The answers got so far are of the questions of the plies, in their order.
Depths == {"shallow", "deep"}
Answers(got, todo) ==
    /\ \E S : got \in Seq(S)
    /\ Len(got) <= Len(todo)
    /\ \A i \in 1 .. Len(got) : got[i].of = todo[i] /\ got[i].score \in Int
TaskIs ==
    task.stage # "none" =>
        /\ task.stage \in Depths
        /\ task.plies \in Seq(1 .. Plies) /\ IsInjective(task.plies)
        /\ task.todo = Questions2(task.plies, task.stage)
        /\ Answers(task.got, task.todo)
        /\ task.stage = "shallow" => task.plies = AllPlies
        /\ task.stage = "deep" => review.state = "provisional"

\* Before the deep look no move is known at full depth.
ReviewIs ==
    /\ review.state = "provisional" => \A p \in 1 .. Plies :
          /\ DOMAIN review.moves[p] = {"loss", "state", "bad", "of"}
          /\ review.moves[p].loss \in Int /\ ~Deep(p)
    /\ MistakesAreWorst
ReviewInv == SessionInv /\ CacheOK /\ TaskIs /\ ReviewIs

LEMMA QuestionsAre ==
    ASSUME NEW plies \in Seq(1 .. Plies), NEW depth \in Depths
    PROVE  /\ Questions2(plies, depth) \in Seq(Questions)
           /\ Len(Questions2(plies, depth)) = 2 * Len(plies)
           /\ \A i \in 1 .. Len(plies) :
                 /\ 2 * i - 1 \in 1 .. 2 * Len(plies) /\ 2 * i \in 1 .. 2 * Len(plies)
                 /\ Questions2(plies, depth)[2 * i - 1] = <<plies[i] - 1, depth>>
                 /\ Questions2(plies, depth)[2 * i] = <<plies[i], depth>>
  <1> PICK n \in Nat : n = Len(plies)
    OBVIOUS
  <1>0. \A i \in 1 .. n : plies[i] \in 1 .. Plies
    BY ElementOfSeq
  <1> DEFINE ask(i) == <<plies[(i + 1) \div 2] - (i % 2), depth>>
  <1>1. ASSUME NEW i \in 1 .. 2 * n PROVE ask(i) \in Questions
    <2>1. (i + 1) \div 2 \in 1 .. n /\ i % 2 \in {0, 1}
      OBVIOUS
    <2>2. PICK k \in 1 .. n : k = (i + 1) \div 2
      BY <2>1
    <2>3. PICK p \in 1 .. Plies : p = plies[k]
      BY <1>0
    <2>4. PICK r \in {0, 1} : r = i % 2
      BY <2>1
    <2>5. p - r \in 0 .. Plies
      BY AnalyzerConstants
    <2>6. ask(i) = <<p - r, depth>>
      BY <2>2, <2>3, <2>4
    <2> QED  BY <2>5, <2>6, AnalyzerConstants DEF Depths
  <1>2. Questions2(plies, depth) = [i \in 1 .. 2 * n |-> ask(i)]
    BY DEF Questions2
  <1>3. 2 * n \in Nat
    OBVIOUS
  <1>4. /\ Questions2(plies, depth) \in Seq(Questions) /\ Len(Questions2(plies, depth)) = 2 * n
        /\ \A i \in 1 .. 2 * n : Questions2(plies, depth)[i] = ask(i)
    <2> HIDE DEF ask
    <2> QED  BY <1>1, <1>2, <1>3
  <1>5. ASSUME NEW i \in 1 .. n
        PROVE  /\ 2 * i - 1 \in 1 .. 2 * n /\ 2 * i \in 1 .. 2 * n
               /\ (2 * i - 1 + 1) \div 2 = i /\ (2 * i - 1) % 2 = 1
               /\ (2 * i + 1) \div 2 = i /\ (2 * i) % 2 = 0
    OBVIOUS
  <1>6. ASSUME NEW i \in 1 .. n
        PROVE  ask(2 * i - 1) = <<plies[i] - 1, depth>> /\ ask(2 * i) = <<plies[i], depth>>
    <2>1. PICK p \in 1 .. Plies : p = plies[i]
      BY <1>0, <1>6
    <2>2. plies[i] - 0 = plies[i]
      BY <2>1, AnalyzerConstants
    <2>3. ask(2 * i - 1) = <<plies[i] - 1, depth>>
      BY <1>5, <1>6
    <2>4. ask(2 * i) = <<plies[i] - 0, depth>>
      BY <1>5, <1>6
    <2> QED  BY <2>2, <2>3, <2>4
  <1> QED
    BY <1>4, <1>5, <1>6

LEMMA AllPliesAre ==
    AllPlies \in Seq(1 .. Plies) /\ IsInjective(AllPlies) /\ Len(AllPlies) = Plies
    /\ \A p \in 1 .. Plies : AllPlies[p] = p
  <1>1. Plies \in Nat
    BY AnalyzerConstants
  <1>2. AllPlies = [p \in 1 .. Plies |-> p]
    BY DEF AllPlies
  <1>3. AllPlies \in Seq(1 .. Plies) /\ Len(AllPlies) = Plies
    BY <1>1, <1>2
  <1> QED  BY <1>2, <1>3 DEF IsInjective

LEMMA GotGrows ==
    ASSUME NEW got, NEW todo \in Seq(Questions), Answers(got, todo), Len(got) < Len(todo), NEW a,
           a.of = todo[Len(got) + 1], a.score \in Scores[todo[Len(got) + 1]]
    PROVE  Answers(Append(got, a), todo)
  <1>1. PICK S : got \in Seq(S)
    BY DEF Answers
  <1>2. PICK n \in Nat : n = Len(got)
    BY <1>1
  <1>3. PICK m \in Nat : m = Len(todo)
    OBVIOUS
  <1>4. n + 1 \in 1 .. m /\ n + 1 <= m
    BY <1>2, <1>3
  <1>5. a.score \in Int
    <2>1. todo[n + 1] \in Questions
      BY <1>3, <1>4, ElementOfSeq
    <2>2. Scores[todo[n + 1]] \in SUBSET Int
      BY <2>1, SessionConstants
    <2> QED  BY <1>2, <2>2
  <1>6. got \in Seq(S \cup {a})
    BY <1>1
  <1>7. /\ Append(got, a) \in Seq(S \cup {a}) /\ Len(Append(got, a)) = n + 1
        /\ \A i \in 1 .. n : Append(got, a)[i] = got[i]
        /\ Append(got, a)[n + 1] = a
    BY <1>2, <1>6, AppendFacts
  <1>8. ASSUME NEW i \in 1 .. n + 1
        PROVE  Append(got, a)[i].of = todo[i] /\ Append(got, a)[i].score \in Int
    <2>1. i \in 1 .. n \/ i = n + 1
      OBVIOUS
    <2>2. CASE i \in 1 .. n
      BY <1>2, <1>7, <2>2 DEF Answers
    <2>3. CASE i = n + 1
      BY <1>2, <1>5, <1>7, <2>3
    <2> QED  BY <2>1, <2>2, <2>3
  <1> QED
    BY <1>3, <1>4, <1>7, <1>8 DEF Answers

\* What a finished task says of the i-th of its plies.
LEMMA AssessedIs ==
    ASSUME TaskIs, Answered, NEW i \in 1 .. Len(task.plies), NEW state
    PROVE  /\ Assessed(i, state).loss \in Int
           /\ DOMAIN Assessed(i, state) = {"loss", "state", "bad", "of"}
           /\ Assessed(i, state).of =
                 << <<task.plies[i] - 1, task.stage>>, <<task.plies[i], task.stage>> >>
  <1>1. /\ task.plies \in Seq(1 .. Plies) /\ task.stage \in Depths
        /\ task.todo = Questions2(task.plies, task.stage)
        /\ Answers(task.got, task.todo) /\ Len(task.got) = Len(task.todo)
    BY DEF TaskIs, Answered
  <1>2. /\ 2 * i - 1 \in 1 .. Len(task.got) /\ 2 * i \in 1 .. Len(task.got)
        /\ task.todo[2 * i - 1] = <<task.plies[i] - 1, task.stage>>
        /\ task.todo[2 * i] = <<task.plies[i], task.stage>>
    <2>1. PICK plies \in Seq(1 .. Plies) : plies = task.plies
      BY <1>1
    <2>2. PICK stage \in Depths : stage = task.stage
      BY <1>1
    <2>3. i \in 1 .. Len(plies) /\ task.todo = Questions2(plies, stage)
      BY <1>1, <2>1, <2>2
    <2>4. /\ Len(task.got) = 2 * Len(plies)
          /\ 2 * i - 1 \in 1 .. 2 * Len(plies) /\ 2 * i \in 1 .. 2 * Len(plies)
          /\ task.todo[2 * i - 1] = <<plies[i] - 1, stage>>
          /\ task.todo[2 * i] = <<plies[i], stage>>
      BY <1>1, <2>3, QuestionsAre
    <2> QED  BY <2>1, <2>2, <2>4
  <1>3. PICK x : x = task.got[2 * i - 1]
    OBVIOUS
  <1>4. PICK y : y = task.got[2 * i]
    OBVIOUS
  <1>5. x.of = task.todo[2 * i - 1] /\ x.score \in Int /\ y.of = task.todo[2 * i] /\ y.score \in Int
    BY <1>1, <1>2, <1>3, <1>4 DEF Answers
  <1>6. Assessed(i, state) = [loss |-> Loss(x, y), state |-> state,
                               bad |-> <<x.score, y.score>> \in Inaccurate, of |-> <<x.of, y.of>>]
    BY <1>3, <1>4 DEF Assessed, Move
  <1>7. Loss(x, y) \in Int
    BY <1>5 DEF Loss, Positive
  <1> QED
    BY <1>2, <1>5, <1>6, <1>7

LEMMA TaskBegins ==
    ASSUME NEW stage \in Depths, NEW plies \in Seq(1 .. Plies), IsInjective(plies),
           task' = Task(stage, plies, stage), stage = "shallow" => plies = AllPlies,
           stage = "deep" => review'.state = "provisional"
    PROVE  TaskIs'
  <1>1. task' = [stage |-> stage, plies |-> plies, todo |-> Questions2(plies, stage), got |-> <<>>,
                 asking |-> FALSE]
    BY DEF Task, NoTask
  <1>2. Answers(<<>>, Questions2(plies, stage))
    <2>1. Questions2(plies, stage) \in Seq(Questions)
      BY QuestionsAre
    <2>2. <<>> \in Seq({}) /\ Len(<<>>) = 0 /\ Len(<<>>) <= Len(Questions2(plies, stage))
      BY <2>1
    <2> QED  BY <2>2 DEF Answers
  <1> QED
    BY <1>1, <1>2 DEF TaskIs

LEMMA TaskGone == ASSUME task' = NoTask PROVE TaskIs'
  BY DEF TaskIs, NoTask

LEMMA TaskAnswered ==
    ASSUME SessionInv, TaskIs, task.stage # "none", Len(task.got) < Len(task.todo), NEW a,
           a.of = Question, a.score \in Scores[Question],
           task' = [task EXCEPT !.got = Append(@, a)]
             \/ task' = [task EXCEPT !.got = Append(@, a), !.asking = FALSE],
           UNCHANGED review
    PROVE  TaskIs'
  <1>1. /\ task'.stage = task.stage /\ task'.plies = task.plies /\ task'.todo = task.todo
        /\ task'.got = Append(task.got, a)
    BY DEF SessionInv, Shaped, TaskFields
  <1>2. Answers(Append(task.got, a), task.todo)
    <2>1. task.todo \in Seq(Questions) /\ Answers(task.got, task.todo)
      BY QuestionsAre DEF TaskIs
    <2> QED  BY <2>1, GotGrows DEF Question
  <1> QED
    BY <1>1, <1>2 DEF TaskIs

LEMMA ScanFinishes ==
    ASSUME ReviewInv, FinishShallow
    PROVE  ReviewIs'
  <1>1. /\ TaskIs /\ Answered /\ task.stage = "shallow" /\ task.plies = AllPlies
        /\ review' = [state |-> "provisional", mistakes |-> <<>>,
                      moves |-> [p \in 1 .. Plies |-> Assessed(p, "provisional")]]
    BY DEF ReviewInv, FinishShallow, TaskIs
  <1>2. ASSUME NEW p \in 1 .. Plies
        PROVE  /\ DOMAIN review'.moves[p] = {"loss", "state", "bad", "of"}
               /\ review'.moves[p].loss \in Int /\ ~Deep(p)'
    <2>1. p \in 1 .. Len(task.plies) /\ task.plies[p] = p
      BY <1>1, AllPliesAre
    <2>2. /\ Assessed(p, "provisional").loss \in Int
          /\ DOMAIN Assessed(p, "provisional") = {"loss", "state", "bad", "of"}
          /\ Assessed(p, "provisional").of = << <<p - 1, "shallow">>, <<p, "shallow">> >>
      BY <1>1, <2>1, AssessedIs
    <2>3. review'.moves[p] = Assessed(p, "provisional")
      BY <1>1
    <2>4. << <<p - 1, "shallow">>, <<p, "shallow">> >> # << <<p - 1, "deep">>, <<p, "deep">> >>
      OBVIOUS
    <2> QED  BY <2>2, <2>3, <2>4 DEF Deep
  <1> QED
    BY <1>1, <1>2 DEF ReviewIs, MistakesAreWorst

LEMMA VerifiedAre ==
    ASSUME ReviewInv, Answered, task.stage = "deep", NEW v, v = Verified, NEW p \in 1 .. Plies
    PROVE  /\ v[p].loss \in Int
           /\ v[p].of = << <<p - 1, "deep">>, <<p, "deep">> >> <=>
                 \E i \in 1 .. Len(task.plies) : task.plies[i] = p
  <1>1. /\ TaskIs /\ task.plies \in Seq(1 .. Plies) /\ review.state = "provisional"
    BY DEF ReviewInv, TaskIs
  <1>2. DOMAIN task.plies = 1 .. Len(task.plies)
    BY <1>1
  <1>3. v[p] = IF \E i \in 1 .. Len(task.plies) : task.plies[i] = p
               THEN Assessed(CHOOSE i \in 1 .. Len(task.plies) : task.plies[i] = p, "final")
               ELSE [review.moves[p] EXCEPT !.state = "final"]
    BY <1>2 DEF Verified
  <1>4. CASE \E i \in 1 .. Len(task.plies) : task.plies[i] = p
    <2>1. PICK i \in 1 .. Len(task.plies) : task.plies[i] = p /\ v[p] = Assessed(i, "final")
      BY <1>3, <1>4
    <2> QED  BY <1>1, <1>4, <2>1, AssessedIs
  <1>5. CASE ~\E i \in 1 .. Len(task.plies) : task.plies[i] = p
    <2>1. /\ DOMAIN review.moves[p] = {"loss", "state", "bad", "of"} /\ review.moves[p].loss \in Int
          /\ ~Deep(p)
      BY <1>1 DEF ReviewInv, ReviewIs
    <2>2. v[p].loss = review.moves[p].loss /\ v[p].of = review.moves[p].of
      BY <1>3, <1>5, <2>1
    <2> QED  BY <1>5, <2>1, <2>2 DEF Deep
  <1> QED
    BY <1>4, <1>5

LEMMA DeepFinishes ==
    ASSUME ReviewInv, FinishDeep
    PROVE  ReviewIs'
  <1>1. /\ Answered /\ task.stage = "deep"
        /\ task.plies \in Seq(1 .. Plies) /\ IsInjective(task.plies)
    BY DEF ReviewInv, FinishDeep, TaskIs
  <1>2. PICK v : v = Verified
    OBVIOUS
  <1>3. review' = [state |-> "final", moves |-> v, mistakes |-> Mistakes(v)]
    BY <1>2 DEF FinishDeep
  <1>4. PICK list : list = Mistakes(v)
    OBVIOUS
  <1>5. PICK plies : plies = task.plies
    OBVIOUS
  <1>6. DOMAIN plies = 1 .. Len(plies) /\ Len(plies) \in Nat /\ (\A i \in 1 .. Len(plies) : plies[i] \in 1 .. Plies)
        /\ \A i, j \in 1 .. Len(plies) : plies[i] = plies[j] => i = j
    <2>4. plies \in Seq(1 .. Plies)
      BY <1>1, <1>5
    <2>1. DOMAIN plies = 1 .. Len(plies) /\ Len(plies) \in Nat
      BY <2>4
    <2>2. \A i \in 1 .. Len(plies) : plies[i] \in 1 .. Plies
      BY <2>4, ElementOfSeq
    <2>3. \A i, j \in DOMAIN plies : plies[i] = plies[j] => i = j
      BY <1>1, <1>5 DEF IsInjective
    <2> QED  BY <2>1, <2>2, <2>3
  <1>7. \A p \in 1 .. Plies :
           /\ v[p].loss \in Int
           /\ v[p].of = << <<p - 1, "deep">>, <<p, "deep">> >> <=>
                 \E i \in 1 .. Len(plies) : plies[i] = p
    BY <1>1, <1>2, <1>5, VerifiedAre
  <1>8. PICK places : places = {i \in 1 .. Len(plies) : v[plies[i]].bad}
    OBVIOUS
  <1>9. /\ places \in SUBSET Nat /\ IsFiniteSet(places)
        /\ \A i \in places : plies[i] \in 1 .. Plies /\ v[plies[i]].loss \in Int
        /\ \A i, j \in places : plies[i] = plies[j] => i = j
    <2>1. IsFiniteSet(1 .. Len(plies))
      BY <1>6, FS_Interval
    <2>2. places \in SUBSET (1 .. Len(plies))
      BY <1>8
    <2>6. IsFiniteSet(places)
      BY <2>1, <2>2, FS_Subset
    <2>3. places \in SUBSET Nat /\ IsFiniteSet(places)
      BY <1>6, <2>2, <2>6
    <2>4. \A i \in places : plies[i] \in 1 .. Plies /\ v[plies[i]].loss \in Int
      BY <1>6, <1>7, <2>2
    <2>5. \A i, j \in places : plies[i] = plies[j] => i = j
      BY <1>6, <2>2
    <2> QED  BY <2>3, <2>4, <2>5
  <1>10. list = First(ByLoss(v, plies, places), Top) /\ Top \in Nat
    BY <1>4, <1>5, <1>6, <1>8, AnalyzerConstants DEF Mistakes, Errors
  <1>14. PICK S : S = 1 .. Plies
    OBVIOUS
  <1>11. /\ list \in Seq(1 .. Plies) /\ Len(list) <= Top /\ IsInjective(list)
         /\ WorstFirst(list, v, plies, places)
    <2>1. \A i \in places : plies[i] \in S /\ v[plies[i]].loss \in Int
      BY <1>9, <1>14
    <2>2. /\ list \in Seq(S) /\ Len(list) <= Top /\ IsInjective(list)
          /\ WorstFirst(list, v, plies, places)
      <3>1. places \in SUBSET Nat /\ IsFiniteSet(places) /\ Top \in Nat
        BY <1>9, <1>10
      <3>2. \A i, j \in places : plies[i] = plies[j] => i = j
        BY <1>9
      <3>3. list = First(ByLoss(v, plies, places), Top)
        BY <1>10
      <3> HIDE <1>9, <1>10
      <3>4. list \in Seq(S)
        BY <2>1, <3>1, <3>2, <3>3, FirstAreWorst
      <3>5. Len(list) <= Top
        BY <2>1, <3>1, <3>2, <3>3, FirstAreWorst
      <3>6. WorstFirst(list, v, plies, places)
        BY <2>1, <3>1, <3>2, <3>3, FirstAreWorst
      <3>7. IsInjective(list)
        BY <3>4, <3>6 DEF WorstFirst, IsInjective
      <3> QED  BY <3>4, <3>5, <3>6, <3>7
    <2> QED  BY <1>14, <2>2
  <1>12. ASSUME NEW i \in 1 .. Len(list)
         PROVE  /\ v[list[i]].of = << <<list[i] - 1, "deep">>, <<list[i], "deep">> >>
                /\ v[list[i]].bad
                /\ \A q \in 1 .. Plies :
                      /\ v[q].of = << <<q - 1, "deep">>, <<q, "deep">> >> /\ v[q].bad
                      /\ v[q].loss > v[list[i]].loss
                      => \E j \in 1 .. i - 1 : list[j] = q
    <2>1. PICK k \in places :
             /\ list[i] = plies[k]
             /\ \A q \in places : v[plies[q]].loss > v[plies[k]].loss =>
                   \E j \in 1 .. i - 1 : list[j] = plies[q]
      BY <1>11, <1>12 DEF WorstFirst
    <2>2. /\ k \in 1 .. Len(plies) /\ plies[k] \in 1 .. Plies
          /\ v[list[i]].bad
      BY <1>6, <1>8, <2>1
    <2>3. v[list[i]].of = << <<list[i] - 1, "deep">>, <<list[i], "deep">> >>
      BY <1>7, <2>1, <2>2
    <2>4. ASSUME NEW q \in 1 .. Plies, v[q].of = << <<q - 1, "deep">>, <<q, "deep">> >>,
                 v[q].bad, v[q].loss > v[list[i]].loss
          PROVE  \E j \in 1 .. i - 1 : list[j] = q
      <3>1. PICK l \in 1 .. Len(plies) : plies[l] = q
        BY <1>7, <2>4
      <3>3. l \in places
        BY <1>8, <2>4, <3>1
      <3> QED  BY <2>1, <2>4, <3>1, <3>3
    <2> QED  BY <2>2, <2>3, <2>4
  <1>13. DOMAIN list = 1 .. Len(list)
    BY <1>11
  <1>15. /\ review'.state = "final" /\ review'.moves = v /\ review'.mistakes = list
    BY <1>3, <1>4
  <1>16. MistakesAreWorst'
    BY <1>11, <1>12, <1>13, <1>15 DEF MistakesAreWorst, Deep
  <1> QED
    BY <1>15, <1>16 DEF ReviewIs

\* The plies that deserve a look, of one quality.
LEMMA DeservingAre ==
    ASSUME NEW moves, \A p \in 1 .. Plies : moves[p].loss \in Int, NEW bad,
           NEW list, list = ByLoss(moves, AllPlies, Deserving(moves, bad))
    PROVE  /\ list \in Seq(1 .. Plies) /\ Len(list) \in Nat
           /\ \A i, j \in 1 .. Len(list) : list[i] = list[j] => i = j
           /\ \A i \in 1 .. Len(list) : moves[list[i]].bad = bad
  <1>1. PICK places : places = Deserving(moves, bad)
    OBVIOUS
  <1>2. /\ places \in SUBSET Nat /\ IsFiniteSet(places)
        /\ \A i \in places : AllPlies[i] \in 1 .. Plies /\ moves[AllPlies[i]].loss \in Int
        /\ \A i, j \in places : AllPlies[i] = AllPlies[j] => i = j
        /\ \A i \in places : moves[AllPlies[i]].bad = bad
    <2>1. IsFiniteSet(1 .. Plies) /\ 1 .. Plies \in SUBSET Nat
      <3>1. Plies \in Int /\ 1 \in Int
        BY AnalyzerConstants
      <3> QED  BY <3>1, FS_Interval
    <2>2. places \in SUBSET (1 .. Plies) /\ \A i \in places : moves[i].bad = bad
      BY <1>1 DEF Deserving
    <2>3. places \in SUBSET Nat /\ IsFiniteSet(places)
      BY <2>1, <2>2, FS_Subset
    <2>4. \A i \in places : i \in 1 .. Plies /\ AllPlies[i] = i
      BY <2>2, AllPliesAre
    <2> QED  BY <2>2, <2>3, <2>4
  <1>3. PICK n \in Nat : n = Cardinality(places)
    BY <1>2, FS_CardinalityType
  <1>4. list = First(list, n)
    <2> DEFINE at(i) == AllPlies[CHOOSE k \in places : Rank(moves, AllPlies, places, k) = i - 1]
    <2>1. list = [i \in 1 .. n |-> at(i)]
      BY <1>1, <1>3 DEF ByLoss
    <2> HIDE DEF at
    <2>2. list \in Seq({at(i) : i \in 1 .. n}) /\ Len(list) = n
      BY <2>1
    <2>3. SubSeq(list, 1, n) = list
      BY <2>2, SubSeqFull
    <2> QED  BY <2>2, <2>3 DEF First
  <1>5. PICK S : S = 1 .. Plies
    OBVIOUS
  <1>6. list = First(ByLoss(moves, AllPlies, places), n)
    BY <1>1, <1>4
  <1>7. list \in Seq(S) /\ WorstFirst(list, moves, AllPlies, places)
    <2>1. \A i \in places : AllPlies[i] \in S /\ moves[AllPlies[i]].loss \in Int
      BY <1>2, <1>5
    <2>2. \A i, j \in places : AllPlies[i] = AllPlies[j] => i = j
      BY <1>2
    <2>3. list \in Seq(S)
      BY <1>2, <1>6, <2>1, <2>2, FirstAreWorst
    <2>4. WorstFirst(list, moves, AllPlies, places)
      BY <1>2, <1>6, <2>1, <2>2, FirstAreWorst
    <2> QED  BY <2>3, <2>4
  <1>8. ASSUME NEW i \in 1 .. Len(list) PROVE moves[list[i]].bad = bad
    BY <1>2, <1>7 DEF WorstFirst
  <1> QED
    BY <1>5, <1>7, <1>8 DEF WorstFirst

LEMMA CandidatesAre ==
    ASSUME NEW moves, \A p \in 1 .. Plies : moves[p].loss \in Int
    PROVE  Candidates(moves) \in Seq(1 .. Plies) /\ IsInjective(Candidates(moves))
  <1>1. PICK one : one = ByLoss(moves, AllPlies, Deserving(moves, TRUE))
    OBVIOUS
  <1>2. PICK two : two = ByLoss(moves, AllPlies, Deserving(moves, FALSE))
    OBVIOUS
  <1>3. PICK S : S = 1 .. Plies
    OBVIOUS
  <1>4. /\ one \in Seq(S) /\ Len(one) \in Nat
        /\ \A i, j \in 1 .. Len(one) : one[i] = one[j] => i = j
        /\ \A i \in 1 .. Len(one) : moves[one[i]].bad = TRUE
    <2>1. PICK yes : yes = TRUE
      OBVIOUS
    <2>2. one = ByLoss(moves, AllPlies, Deserving(moves, yes))
      BY <1>1, <2>1
    <2>3. one \in Seq(1 .. Plies) /\ Len(one) \in Nat
      BY <2>2, DeservingAre
    <2>4. \A i, j \in 1 .. Len(one) : one[i] = one[j] => i = j
      BY <2>2, DeservingAre
    <2>5. \A i \in 1 .. Len(one) : moves[one[i]].bad = yes
      BY <2>2, DeservingAre
    <2> QED  BY <1>3, <2>1, <2>3, <2>4, <2>5
  <1>5. /\ two \in Seq(S) /\ Len(two) \in Nat
        /\ \A i, j \in 1 .. Len(two) : two[i] = two[j] => i = j
        /\ \A i \in 1 .. Len(two) : moves[two[i]].bad = FALSE
    <2>1. PICK no : no = FALSE
      OBVIOUS
    <2>2. two = ByLoss(moves, AllPlies, Deserving(moves, no))
      BY <1>2, <2>1
    <2>3. two \in Seq(1 .. Plies) /\ Len(two) \in Nat
      BY <2>2, DeservingAre
    <2>4. \A i, j \in 1 .. Len(two) : two[i] = two[j] => i = j
      BY <2>2, DeservingAre
    <2>5. \A i \in 1 .. Len(two) : moves[two[i]].bad = no
      BY <2>2, DeservingAre
    <2> QED  BY <1>3, <2>1, <2>3, <2>4, <2>5
  <1>6. PICK m \in Nat : m = Len(one)
    BY <1>4
  <1>7. PICK n \in Nat : n = Len(two)
    BY <1>5
  <1>8. PICK both : both = one \o two
    OBVIOUS
  <1>9. /\ both \in Seq(S) /\ Len(both) = m + n
        /\ \A i \in 1 .. m + n : both[i] = IF i <= m THEN one[i] ELSE two[i - m]
    BY <1>4, <1>5, <1>6, <1>7, <1>8, ConcatProperties
  <1>10. ASSUME NEW i \in 1 .. m + n, NEW j \in 1 .. m + n, both[i] = both[j] PROVE i = j
    <2>1. /\ i <= m => i \in 1 .. m
          /\ ~(i <= m) => i - m \in 1 .. n
          /\ j <= m => j \in 1 .. m
          /\ ~(j <= m) => j - m \in 1 .. n
      OBVIOUS
    <2>2. CASE i <= m /\ j <= m
      BY <1>4, <1>6, <1>9, <1>10, <2>1, <2>2
    <2>3. CASE ~(i <= m) /\ ~(j <= m)
      <3>1. i - m = j - m
        BY <1>5, <1>7, <1>9, <1>10, <2>1, <2>3
      <3> QED  BY <3>1
    <2>4. CASE i <= m /\ ~(j <= m)
      <3>1. both[i] = one[i] /\ both[j] = two[j - m]
        BY <1>9, <2>4
      <3>2. moves[both[i]].bad = TRUE /\ moves[both[j]].bad = FALSE
        BY <1>4, <1>5, <1>6, <1>7, <2>1, <2>4, <3>1
      <3> QED  BY <1>10, <3>2
    <2>5. CASE ~(i <= m) /\ j <= m
      <3>1. both[i] = two[i - m] /\ both[j] = one[j]
        BY <1>9, <2>5
      <3>2. moves[both[i]].bad = FALSE /\ moves[both[j]].bad = TRUE
        BY <1>4, <1>5, <1>6, <1>7, <2>1, <2>5, <3>1
      <3> QED  BY <1>10, <3>2
    <2> QED  BY <2>2, <2>3, <2>4, <2>5
  <1>11. PICK list : list = First(both, MaxDeep)
    OBVIOUS
  <1>12. /\ list \in Seq(S) /\ Len(list) \in Nat /\ Len(list) <= Len(both)
         /\ \A i \in 1 .. Len(list) : i \in 1 .. Len(both) /\ list[i] = both[i]
    BY <1>9, <1>11, AnalyzerConstants, FirstFacts
  <1>13. IsInjective(list)
    <2>1. DOMAIN list = 1 .. Len(list)
      BY <1>12
    <2> QED  BY <1>9, <1>10, <1>12, <2>1 DEF IsInjective
  <1> QED
    BY <1>1, <1>2, <1>3, <1>8, <1>11, <1>12, <1>13 DEF Candidates

LEMMA ReviewNext == ASSUME ReviewInv, [Next]_vars PROVE ReviewInv'
  <1>1. SessionInv' /\ CacheOK'
    BY SessionNext DEF ReviewInv
  <1>2. CASE \/ UNCHANGED vars \/ Client \/ Commands \/ Searches \/ Mishaps
    <2>1. UNCHANGED <<task, review>>
      BY <1>2 DEF vars, Client, Commands, Searches, Mishaps, reviewVars
    <2> QED  BY <1>1, <2>1 DEF ReviewInv, TaskIs, ReviewIs, MistakesAreWorst, Deep
  <1>3. ASSUME UNCHANGED review PROVE ReviewIs'
    BY <1>3 DEF ReviewInv, ReviewIs, MistakesAreWorst, Deep
  <1>4. CASE BeginShallow
    <2>1. task' = Task("shallow", AllPlies, "shallow") /\ UNCHANGED review
      BY <1>4 DEF BeginShallow
    <2>2. TaskIs'
      BY <2>1, AllPliesAre, TaskBegins DEF Depths
    <2> QED  BY <1>1, <1>3, <2>1, <2>2 DEF ReviewInv
  <1>5. CASE BeginDeep
    <2>1. /\ task' = Task("deep", Candidates(review.moves), "deep") /\ UNCHANGED review
          /\ review.state = "provisional"
      BY <1>5 DEF BeginDeep
    <2>2. \A p \in 1 .. Plies : review.moves[p].loss \in Int
      BY <2>1 DEF ReviewInv, ReviewIs
    <2>3. /\ Candidates(review.moves) \in Seq(1 .. Plies)
          /\ IsInjective(Candidates(review.moves))
      BY <2>2, CandidatesAre
    <2>4. TaskIs'
      BY <2>1, <2>3, TaskBegins DEF Depths
    <2> QED  BY <1>1, <1>3, <2>1, <2>4 DEF ReviewInv
  <1>6. CASE Lookup
    <2>1. /\ task.stage # "none" /\ Len(task.got) < Len(task.todo) /\ Question \in DOMAIN cache
          /\ task' = [task EXCEPT !.got = Append(@, cache[Question])] /\ UNCHANGED review
      BY <1>6 DEF Lookup, Busy
    <2>2. cache[Question].of = Question /\ cache[Question].score \in Scores[Question]
      BY <2>1 DEF ReviewInv, CacheOK
    <2>3. TaskIs'
      BY <2>1, <2>2, TaskAnswered DEF ReviewInv
    <2> QED  BY <1>1, <1>3, <2>1, <2>3 DEF ReviewInv
  <1>7. CASE AskEngine
    <2>1. /\ task'.stage = task.stage /\ task'.plies = task.plies /\ task'.todo = task.todo
          /\ task'.got = task.got /\ UNCHANGED review
      BY <1>7 DEF AskEngine, ReviewInv, SessionInv, Shaped, TaskFields
    <2>2. TaskIs'
      BY <2>1 DEF ReviewInv, TaskIs
    <2> QED  BY <1>1, <1>3, <2>1, <2>2 DEF ReviewInv
  <1>8. CASE Receive
    <2>1. /\ task.asking /\ call.pc = "idle" /\ call.answer.kind = "found" /\ UNCHANGED review
          /\ task' = [task EXCEPT !.got = Append(@, call.answer), !.asking = FALSE]
      BY <1>8 DEF Receive
    <2>2. CASE task.stage = "none"
      <3>1. task'.stage = "none"
        BY <2>1, <2>2 DEF ReviewInv, SessionInv, Shaped, TaskFields
      <3> QED  BY <1>1, <1>3, <2>1, <3>1 DEF ReviewInv, TaskIs
    <2>3. CASE task.stage # "none"
      <3>1. /\ call.answer.of = Question /\ call.answer.score \in Scores[Question]
            /\ Len(task.got) # Len(task.todo)
        BY <2>1 DEF ReviewInv, SessionInv, Pending, Asking
      <3>2. Len(task.got) < Len(task.todo)
        <4>1. /\ \E S : task.got \in Seq(S)
              /\ task.todo \in Seq(Questions)
              /\ Len(task.got) <= Len(task.todo)
          BY <2>3, QuestionsAre DEF ReviewInv, TaskIs, Answers
        <4>2. PICK n \in Nat : n = Len(task.got)
          BY <4>1
        <4>3. PICK m \in Nat : m = Len(task.todo)
          BY <4>1
        <4> QED  BY <3>1, <4>1, <4>2, <4>3
      <3>3. TaskIs'
        BY <2>1, <2>3, <3>1, <3>2, TaskAnswered DEF ReviewInv
      <3> QED  BY <1>1, <1>3, <2>1, <3>3 DEF ReviewInv
    <2> QED  BY <2>2, <2>3
  <1>9. CASE Fail \/ Cancelled
    <2>1. task' = NoTask /\ UNCHANGED review
      BY <1>9 DEF Fail, Cancelled
    <2> QED  BY <1>1, <1>3, <2>1, TaskGone DEF ReviewInv
  <1>10. CASE FinishShallow
    BY <1>1, <1>10, ScanFinishes, TaskGone DEF ReviewInv, FinishShallow
  <1>11. CASE FinishDeep
    BY <1>1, <1>11, DeepFinishes, TaskGone DEF ReviewInv, FinishDeep
  <1> QED
    BY <1>2, <1>4, <1>5, <1>6, <1>7, <1>8, <1>9, <1>10, <1>11 DEF Next, AnalyzerStep

\* A finished review lists the worst mistakes, each seen at full depth, for any game, scores,
\* limits and interruptions.
THEOREM MistakesAreWorstHolds == Spec => []MistakesAreWorst
  <1>1. Init => ReviewInv
    <2> SUFFICES ASSUME Init PROVE ReviewInv
      OBVIOUS
    <2>1. task = NoTask /\ review = NoReview
      BY DEF Init
    <2> QED
      BY <2>1, SessionInitially DEF ReviewInv, TaskIs, ReviewIs, MistakesAreWorst, NoTask, NoReview
  <1>2. ReviewInv /\ [Next]_vars => ReviewInv'
    BY ReviewNext
  <1>3. ReviewInv => MistakesAreWorst
    BY DEF ReviewInv, ReviewIs
  <1> QED
    BY <1>1, <1>2, <1>3, PTL DEF Spec

=============================================================================
