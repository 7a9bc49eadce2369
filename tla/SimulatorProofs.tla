--------------------------- MODULE SimulatorProofs ---------------------------
(***************************************************************************)
(* Theorems about Simulator, for any number of callers, levels and         *)
(* continuations, and any limit.                                           *)
(***************************************************************************)
EXTENDS Simulator, TLAPS

(* A stack and its caller's step.  Levels grow by one from frame to frame, *)
(* so that a stack is no longer than levels are high; a frame whose loop   *)
(* has begun is not too deep, and accounts for all that was asked.         *)
Accounted(f) ==
  /\ ~TooDeep(f.level)
  /\ f.asked = f.recorded + f.dropped + f.todo
  /\ MaxPerResponse > 0 => f.recorded + f.todo <= MaxPerResponse
  /\ f.dropped > 0 => f.recorded + f.todo = MaxPerResponse

Untouched(f) == /\ f.todo = 0 /\ f.recorded = 0 /\ f.dropped = 0
                /\ f.due = 0 /\ f.executed = 0

(* The last continuation is due, and is about to be executed.              *)
Owed(l, i) == IF i = 1 /\ l = "execute" THEN 1 ELSE 0

StackOK(l, s) ==
  /\ l \in Labels
  /\ s \in Seq(Frames)
  /\ l = "idle" <=> s = << >>
  /\ \A i \in 1..Len(s) :
       /\ s[i].level >= Len(s) - i
       /\ s[i].due <= s[i].recorded
       /\ s[i].due = s[i].executed + Owed(l, i)
       /\ i > 1 \/ l \in {"loop", "execute"} => Accounted(s[i])
  /\ l \in {"sent", "handle"} => Untouched(s[1])

SimulatorInv ==
  /\ mode \in Modes
  /\ continuations \subseteq 0..MaxContinuationLevel
  /\ \A level \in continuations : ~TooDeep(level)
  /\ pc \in [Callers -> Labels]
  /\ stack \in [Callers -> Seq(Frames)]
  /\ \A c \in Callers : StackOK(pc[c], stack[c])

LEMMA FreshFrame ==
  ASSUME NEW level \in 0..MaxContinuationLevel
  PROVE  /\ Frame(level) \in Frames
         /\ Frame(level).level = level
         /\ Untouched(Frame(level))
BY ConstantsOK DEF Frame, Frames, Untouched

(* A step of c, in terms of its own step and stack.                        *)
LEMMA StepKeeps ==
  ASSUME SimulatorInv, NEW c \in Callers, NEW l, NEW s,
         pc' = [pc EXCEPT ![c] = l], stack' = [stack EXCEPT ![c] = s],
         StackOK(l, s), UNCHANGED mode,
         continuations' \subseteq 0..MaxContinuationLevel,
         \A level \in continuations' : ~TooDeep(level)
  PROVE  SimulatorInv'
<1>1. l \in Labels /\ s \in Seq(Frames)
  BY DEF StackOK
<1>2. pc' \in [Callers -> Labels] /\ stack' \in [Callers -> Seq(Frames)]
  BY <1>1 DEF SimulatorInv
<1>3. \A d \in Callers : StackOK(pc'[d], stack'[d])
  BY DEF SimulatorInv
<1>4. \A d \in Callers : StackOK(pc[d], stack[d])'
  BY <1>3 DEF StackOK
<1>5. \A level \in continuations' : ~TooDeep(level)'
  BY DEF TooDeep
<1> QED BY <1>2, <1>4, <1>5 DEF SimulatorInv

LEMMA TailFacts ==
  ASSUME NEW s \in Seq(Frames), s # << >>
  PROVE  /\ Tail(s) \in Seq(Frames) /\ Len(Tail(s)) = Len(s) - 1
         /\ \A i \in 1..(Len(s) - 1) : Tail(s)[i] = s[i + 1]
         /\ Len(s) \in Nat \ {0} /\ Head(s) = s[1] /\ s[1] \in Frames
OBVIOUS

LEMMA PushFacts ==
  ASSUME NEW s \in Seq(Frames), NEW f \in Frames
  PROVE  /\ <<f>> \o s \in Seq(Frames) /\ Len(<<f>> \o s) = Len(s) + 1
         /\ (<<f>> \o s)[1] = f
         /\ \A i \in 2..(Len(s) + 1) : (<<f>> \o s)[i] = s[i - 1]
         /\ <<f>> \o s # << >>
OBVIOUS

LEMMA UpdateFacts ==
  ASSUME NEW s \in Seq(Frames), s # << >>, NEW f \in Frames
  PROVE  /\ <<f>> \o Tail(s) \in Seq(Frames)
         /\ Len(<<f>> \o Tail(s)) = Len(s)
         /\ (<<f>> \o Tail(s))[1] = f
         /\ \A i \in 2..Len(s) : (<<f>> \o Tail(s))[i] = s[i]
         /\ <<f>> \o Tail(s) # << >>
<1>1. Tail(s) \in Seq(Frames) /\ Len(Tail(s)) = Len(s) - 1 /\ Len(s) \in Nat \ {0}
      /\ \A i \in 1..(Len(s) - 1) : Tail(s)[i] = s[i + 1]
  BY TailFacts
<1>2. \A i \in 2..Len(s) : (<<f>> \o Tail(s))[i] = Tail(s)[i - 1]
  BY <1>1, PushFacts
<1> QED BY <1>1, <1>2, PushFacts

(* What the top frame may become when its caller goes to l.                *)
LEMMA UpdateKeeps ==
  ASSUME NEW k, NEW l \in Labels \ {"idle"}, NEW s, StackOK(k, s), s # << >>,
         NEW f \in Frames, f.level = s[1].level, f.due <= f.recorded,
         f.due = f.executed + Owed(l, 1),
         l \in {"loop", "execute"} => Accounted(f),
         l \in {"sent", "handle"} => Untouched(f)
  PROVE  StackOK(l, <<f>> \o Tail(s))
<1> DEFINE u == <<f>> \o Tail(s)
<1>1. s \in Seq(Frames) /\ Len(s) \in Nat \ {0}
  BY DEF StackOK
<1>2. /\ u \in Seq(Frames) /\ Len(u) = Len(s) /\ u # << >>
      /\ u[1] = f /\ \A i \in 2..Len(s) : u[i] = s[i]
  BY <1>1, UpdateFacts
<1> HIDE DEF u
<1>3. ASSUME NEW i \in 1..Len(u)
      PROVE  /\ u[i].level >= Len(u) - i /\ u[i].due <= u[i].recorded
             /\ u[i].due = u[i].executed + Owed(l, i)
             /\ i > 1 \/ l \in {"loop", "execute"} => Accounted(u[i])
  <2>1. CASE i = 1
    BY <1>1, <1>2, <2>1 DEF StackOK
  <2>2. CASE i # 1
    <3>1. i \in 2..Len(s) /\ u[i] = s[i] /\ i > 1
      BY <1>1, <1>2, <2>2
    <3> QED BY <1>1, <1>2, <3>1 DEF StackOK, Owed
  <2> QED BY <2>1, <2>2
<1>4. StackOK(l, u)
  BY <1>2, <1>3 DEF StackOK
<1> QED BY <1>4 DEF u

(* A frame is pushed: the one below it is in its loop, and owes nothing.   *)
LEMMA PushKeeps ==
  ASSUME NEW s, s = << >> \/ StackOK("loop", s),
         NEW level \in 0..MaxContinuationLevel, s # << >> => level = s[1].level + 1
  PROVE  StackOK("sent", <<Frame(level)>> \o s)
<1> DEFINE f == Frame(level)
           u == <<f>> \o s
<1>1. s \in Seq(Frames) /\ Len(s) \in Nat
  <2>1. CASE s = << >>
    BY <2>1
  <2>2. CASE StackOK("loop", s)
    <3>1. s \in Seq(Frames)
      BY <2>2 DEF StackOK
    <3> QED BY <3>1
  <2> QED BY <2>1, <2>2
<1>2. /\ f \in Frames /\ f.level = level /\ Untouched(f)
  BY FreshFrame
<1> HIDE DEF f
<1>3. /\ u \in Seq(Frames) /\ Len(u) = Len(s) + 1 /\ u # << >>
      /\ u[1] = f /\ \A i \in 2..(Len(s) + 1) : u[i] = s[i - 1]
  BY <1>1, <1>2, PushFacts
<1> HIDE DEF u
<1>4. ASSUME NEW i \in 1..Len(u)
      PROVE  /\ u[i].level >= Len(u) - i /\ u[i].due <= u[i].recorded
             /\ u[i].due = u[i].executed + Owed("sent", i)
             /\ i > 1 \/ "sent" \in {"loop", "execute"} => Accounted(u[i])
  <2>1. CASE i = 1
    <3>1. level >= Len(s)
      <4>1. CASE s = << >>
        BY <4>1
      <4>2. CASE s # << >>
        <5>1. 1 \in 1..Len(s) /\ s[1] \in Frames
          BY <1>1, <4>2
        <5>2. s[1].level >= Len(s) - 1 /\ s[1].level \in Nat
          BY <4>2, <5>1 DEF StackOK, Frames
        <5> QED BY <1>1, <4>2, <5>2
      <4> QED BY <4>1, <4>2
    <3> QED BY <1>1, <1>2, <1>3, <2>1, <3>1 DEF Untouched, Owed
  <2>2. CASE i # 1
    <3>1. i \in 2..(Len(s) + 1) /\ i - 1 \in 1..Len(s) /\ s # << >>
      BY <1>1, <1>3, <2>2
    <3> DEFINE j == i - 1
    <3>2. /\ s[j].level >= Len(s) - j /\ s[j].due <= s[j].recorded
          /\ s[j].due = s[j].executed + Owed("loop", j)
          /\ Accounted(s[j])
      BY <3>1 DEF StackOK
    <3>3. u[i] = s[j] /\ Len(u) - i = Len(s) - j
      BY <1>1, <1>3, <3>1
    <3> QED BY <3>2, <3>3 DEF Owed
  <2> QED BY <2>1, <2>2
<1>5. "sent" \in Labels
  BY DEF Labels
<1>6. StackOK("sent", u)
  BY <1>2, <1>3, <1>4, <1>5 DEF StackOK
<1> QED BY <1>6 DEF u, f

(* The top frame is popped.                                                *)
LEMMA PopKeeps ==
  ASSUME NEW k, NEW s, StackOK(k, s), s # << >>
  PROVE  StackOK(IF Len(s) = 1 THEN "idle" ELSE "loop", Tail(s))
<1> DEFINE u == Tail(s)
           l == IF Len(s) = 1 THEN "idle" ELSE "loop"
<1>1. s \in Seq(Frames)
  BY DEF StackOK
<1>2. /\ u \in Seq(Frames) /\ Len(u) = Len(s) - 1 /\ Len(s) \in Nat \ {0}
      /\ \A i \in 1..(Len(s) - 1) : u[i] = s[i + 1]
  BY <1>1, TailFacts
<1> HIDE DEF u
<1>3. ASSUME NEW i \in 1..Len(u)
      PROVE  /\ u[i].level >= Len(u) - i /\ u[i].due <= u[i].recorded
             /\ u[i].due = u[i].executed + Owed(l, i)
             /\ Accounted(u[i])
  <2> DEFINE j == i + 1
  <2>1. j \in 1..Len(s) /\ j > 1 /\ u[i] = s[j] /\ Len(u) - i = Len(s) - j
    BY <1>2
  <2>2. /\ s[j].level >= Len(s) - j /\ s[j].due <= s[j].recorded
        /\ s[j].due = s[j].executed + Owed(k, j)
        /\ Accounted(s[j])
    BY <2>1 DEF StackOK
  <2>3. Owed(k, j) = 0 /\ Owed(l, i) = 0
    BY <2>1 DEF Owed
  <2> QED BY <2>1, <2>2, <2>3
<1>4. l \in Labels /\ l \notin {"sent", "handle"} /\ (l = "idle" <=> u = << >>)
  BY <1>2 DEF Labels
<1> HIDE DEF l
<1>5. StackOK(l, u)
  BY <1>2, <1>3, <1>4 DEF StackOK
<1> QED BY <1>5 DEF u, l

-----------------------------------------------------------------------------
(* What a step of c starts from.                                           *)
LEMMA AtStep ==
  ASSUME SimulatorInv, NEW c \in Callers
  PROVE  /\ pc[c] \in Labels /\ stack[c] \in Seq(Frames)
         /\ StackOK(pc[c], stack[c])
         /\ pc[c] # "idle" =>
              /\ stack[c] # << >> /\ Top(c) = stack[c][1] /\ Top(c) \in Frames
              /\ 1 \in 1..Len(stack[c])
<1>1. stack[c] \in Seq(Frames) /\ StackOK(pc[c], stack[c]) /\ pc[c] \in Labels
  BY DEF SimulatorInv
<1>2. ASSUME stack[c] # << >>
      PROVE  /\ Head(stack[c]) = stack[c][1] /\ stack[c][1] \in Frames
             /\ 1 \in 1..Len(stack[c])
  BY <1>1, <1>2, TailFacts
<1> QED BY <1>1, <1>2 DEF StackOK, Top

LEMMA ReturnKeeps ==
  ASSUME SimulatorInv, NEW c \in Callers, pc[c] # "idle", Return(c),
         UNCHANGED <<mode, continuations>>
  PROVE  SimulatorInv'
<1> DEFINE l == IF Len(stack[c]) = 1 THEN "idle" ELSE "loop"
           s == Tail(stack[c])
<1>1. StackOK(l, s)
  BY AtStep, PopKeeps
<1>2. stack' = [stack EXCEPT ![c] = s] /\ pc' = [pc EXCEPT ![c] = l]
  BY DEF Return, Goto
<1>3. \A level \in continuations : ~TooDeep(level)
  BY DEF SimulatorInv
<1>4. continuations \subseteq 0..MaxContinuationLevel
  BY DEF SimulatorInv
<1> HIDE DEF l, s
<1> QED BY <1>1, <1>2, <1>3, <1>4, StepKeeps

LEMMA UpdateStepKeeps ==
  ASSUME SimulatorInv, NEW c \in Callers, pc[c] # "idle",
         NEW l \in Labels \ {"idle"}, NEW f \in Frames, Update(c, f), Goto(c, l),
         f.level = Top(c).level, f.due <= f.recorded,
         f.due = f.executed + Owed(l, 1),
         l \in {"loop", "execute"} => Accounted(f),
         l \in {"sent", "handle"} => Untouched(f),
         UNCHANGED mode, continuations' \subseteq 0..MaxContinuationLevel,
         \A level \in continuations' : ~TooDeep(level)
  PROVE  SimulatorInv'
<1> DEFINE s == <<f>> \o Tail(stack[c])
<1>1. f.level = stack[c][1].level /\ stack[c] # << >> /\ StackOK(pc[c], stack[c])
  BY AtStep
<1>2. StackOK(l, s)
  BY <1>1, UpdateKeeps
<1>3. stack' = [stack EXCEPT ![c] = s] /\ pc' = [pc EXCEPT ![c] = l]
  BY DEF Update, Goto
<1> HIDE DEF s
<1> QED BY <1>2, <1>3, StepKeeps

LEMMA PushStepKeeps ==
  ASSUME SimulatorInv, NEW c \in Callers, pc[c] = "idle",
         NEW level \in 0..MaxContinuationLevel, Push(c, Frame(level)),
         Goto(c, "sent"), UNCHANGED <<mode, continuations>>
  PROVE  SimulatorInv'
<1> DEFINE s == <<Frame(level)>> \o << >>
<1>1. stack[c] = << >>
  BY AtStep DEF StackOK
<1>2. StackOK("sent", s)
  BY PushKeeps
<1>3. stack' = [stack EXCEPT ![c] = s] /\ pc' = [pc EXCEPT ![c] = "sent"]
  BY <1>1 DEF Push, Goto
<1>4. /\ \A k \in continuations : ~TooDeep(k)
      /\ continuations \subseteq 0..MaxContinuationLevel
  BY DEF SimulatorInv
<1> HIDE DEF s
<1> QED BY <1>2, <1>3, <1>4, StepKeeps

LEMMA Records ==
  ASSUME SimulatorInv
  PROVE  /\ continuations \subseteq 0..MaxContinuationLevel
         /\ \A level \in continuations : ~TooDeep(level)
BY DEF SimulatorInv

(* A frame's fields, one by one.                                           *)
LEMMA Fields ==
  ASSUME NEW f \in Frames
  PROVE  /\ f.level \in 0..MaxContinuationLevel /\ f.asked \in 0..MaxAsked
         /\ f.todo \in 0..MaxAsked /\ f.recorded \in 0..MaxAsked
         /\ f.dropped \in 0..MaxAsked /\ f.due \in 0..MaxAsked
         /\ f.executed \in 0..MaxAsked
BY DEF Frames

LEMMA AnswerKeeps ==
  ASSUME SimulatorInv, NEW c \in Callers, NEW asked \in 0..MaxAsked,
         Answer(c, asked)
  PROVE  SimulatorInv'
<1>1. pc[c] = "sent" /\ pc[c] # "idle" /\ UNCHANGED <<mode, continuations>>
  BY DEF Answer
<1>2. CASE asked = 0
  BY <1>1, <1>2, ReturnKeeps DEF Answer
<1>3. CASE asked # 0
  <2> DEFINE f == [Top(c) EXCEPT !.asked = asked]
  <2>1. Top(c) \in Frames /\ Untouched(Top(c))
    BY <1>1, AtStep DEF StackOK
  <2>2. f \in Frames /\ f.level = Top(c).level /\ Untouched(f)
    BY <2>1 DEF Frames, Untouched
  <2>3. Update(c, f) /\ Goto(c, "handle")
    BY <1>3 DEF Answer
  <2>4. f.due = 0 /\ f.recorded = 0 /\ f.executed = 0
    BY <2>2 DEF Untouched
  <2>5. Owed("handle", 1) = 0 /\ "handle" \in Labels
    BY DEF Owed, Labels
  <2> HIDE DEF f
  <2> QED BY <1>1, <2>2, <2>3, <2>4, <2>5, Records, UpdateStepKeeps
<1> QED BY <1>2, <1>3

LEMMA TruncateKeeps ==
  ASSUME SimulatorInv, NEW c \in Callers, Truncate(c)
  PROVE  SimulatorInv'
<1> DEFINE t == Top(c)
           f == [t EXCEPT !.todo = MaxPerResponse,
                          !.dropped = t.asked - MaxPerResponse]
<1>1. /\ pc[c] = "handle" /\ ~TooDeep(t.level) /\ TooMany(t.asked)
      /\ Update(c, f) /\ Goto(c, "loop") /\ UNCHANGED <<mode, continuations>>
  BY DEF Truncate
<1>2. t \in Frames /\ Untouched(t)
  BY <1>1, AtStep DEF StackOK
<1>3. MaxPerResponse \in 0..MaxAsked /\ t.asked - MaxPerResponse \in 0..MaxAsked
  BY <1>1, <1>2, Fields, ConstantsOK DEF TooMany
<1> HIDE DEF t
<1>4. /\ f \in Frames /\ f.level = t.level /\ f.todo = MaxPerResponse
      /\ f.dropped = t.asked - MaxPerResponse /\ f.asked = t.asked
      /\ f.recorded = 0 /\ f.due = 0 /\ f.executed = 0
  BY <1>2, <1>3 DEF Frames, Untouched
<1>5. f \in Frames /\ f.level = Top(c).level /\ Owed("loop", 1) = 0
  BY <1>4 DEF t, Owed
<1> HIDE DEF f
<1>6. Accounted(f)
  BY <1>1, <1>2, <1>4, Fields, ConstantsOK DEF Accounted
<1> QED BY <1>1, <1>4, <1>5, <1>6, Records, UpdateStepKeeps DEF Labels

LEMMA AcceptKeeps ==
  ASSUME SimulatorInv, NEW c \in Callers, Accept(c)
  PROVE  SimulatorInv'
<1> DEFINE t == Top(c)
           f == [t EXCEPT !.todo = t.asked]
<1>1. /\ pc[c] = "handle" /\ ~TooDeep(t.level) /\ ~TooMany(t.asked)
      /\ Update(c, f) /\ Goto(c, "loop") /\ UNCHANGED <<mode, continuations>>
  BY DEF Accept
<1>2. t \in Frames /\ Untouched(t)
  BY <1>1, AtStep DEF StackOK
<1> HIDE DEF t
<1>3. /\ f \in Frames /\ f.level = t.level /\ f.todo = t.asked
      /\ f.dropped = 0 /\ f.asked = t.asked
      /\ f.recorded = 0 /\ f.due = 0 /\ f.executed = 0
  BY <1>2, Fields DEF Frames, Untouched
<1>4. f.level = Top(c).level /\ Owed("loop", 1) = 0
  BY <1>3 DEF t, Owed
<1> HIDE DEF f
<1>5. Accounted(f)
  BY <1>1, <1>2, <1>3, Fields, ConstantsOK DEF Accounted, TooMany
<1> QED BY <1>1, <1>3, <1>4, <1>5, Records, UpdateStepKeeps DEF Labels

LEMMA RecordKeeps ==
  ASSUME SimulatorInv, NEW c \in Callers, Record(c)
  PROVE  SimulatorInv'
<1> DEFINE t == Top(c)
           more == IF mode = "immediate" THEN 1 ELSE 0
           l == IF mode = "immediate" THEN "execute" ELSE "loop"
           f == [t EXCEPT !.todo = @ - 1, !.recorded = @ + 1, !.due = @ + more]
<1>1. /\ pc[c] = "loop" /\ t.todo > 0 /\ Update(c, f) /\ Goto(c, l)
      /\ continuations' = continuations \cup {t.level} /\ UNCHANGED mode
  BY DEF Record, Appended
<1>2. /\ t \in Frames /\ Accounted(t) /\ t.due <= t.recorded
      /\ t.due = t.executed
  <2>1. Owed("loop", 1) = 0
    BY DEF Owed
  <2>2. t \in Frames /\ t = stack[c][1] /\ StackOK("loop", stack[c])
        /\ 1 \in 1..Len(stack[c])
    BY <1>1, AtStep
  <2>3. Accounted(t) /\ t.due <= t.recorded /\ t.due = t.executed + Owed("loop", 1)
    BY <2>2 DEF StackOK
  <2> QED BY <2>1, <2>2, <2>3, Fields
<1>3. more \in {0, 1} /\ Owed(l, 1) = more /\ l \in {"loop", "execute"}
  BY DEF Owed
<1> HIDE DEF t, more
<1>4. /\ t.todo - 1 \in 0..MaxAsked /\ t.recorded + 1 \in 0..MaxAsked
      /\ t.due + more \in 0..MaxAsked
  BY <1>1, <1>2, <1>3, Fields, ConstantsOK DEF Accounted
<1>5. /\ f \in Frames /\ f.level = t.level /\ f.todo = t.todo - 1
      /\ f.dropped = t.dropped /\ f.asked = t.asked
      /\ f.recorded = t.recorded + 1 /\ f.due = t.due + more
      /\ f.executed = t.executed
  BY <1>2, <1>4 DEF Frames
<1>6. f.level = Top(c).level
  BY <1>5 DEF t
<1> HIDE DEF f, l
<1>7. Accounted(f) /\ f.due <= f.recorded /\ f.due = f.executed + Owed(l, 1)
  BY <1>2, <1>3, <1>5, Fields, ConstantsOK DEF Accounted
<1>8. /\ continuations' \subseteq 0..MaxContinuationLevel
      /\ \A level \in continuations' : ~TooDeep(level)
  BY <1>1, <1>2, Records, Fields DEF Accounted
<1> QED BY <1>1, <1>3, <1>5, <1>6, <1>7, <1>8, UpdateStepKeeps DEF Labels

LEMMA ExecuteKeeps ==
  ASSUME SimulatorInv, NEW c \in Callers, Execute(c)
  PROVE  SimulatorInv'
<1> DEFINE t == Top(c)
           f == [t EXCEPT !.executed = @ + 1]
           g == Frame(t.level + 1)
           rest == Tail(stack[c])
           s == <<f>> \o rest
           u == <<g>> \o s
<1>1. /\ pc[c] = "execute" /\ ~TooDeep(t.level) /\ Goto(c, "sent")
      /\ stack' = [stack EXCEPT ![c] = <<g, f>> \o rest]
      /\ UNCHANGED <<mode, continuations>>
  BY DEF Execute
<1>2. /\ t \in Frames /\ Accounted(t) /\ t.due <= t.recorded
      /\ t.due = t.executed + 1 /\ t = stack[c][1] /\ stack[c] # << >>
      /\ StackOK("execute", stack[c]) /\ stack[c] \in Seq(Frames)
  <2>1. Owed("execute", 1) = 1
    BY DEF Owed
  <2> QED BY <1>1, <2>1, AtStep DEF StackOK
<1> HIDE DEF t
<1>3. t.executed + 1 \in 0..MaxAsked
  BY <1>2, Fields
<1>4. /\ f \in Frames /\ f.level = t.level /\ f.todo = t.todo
      /\ f.dropped = t.dropped /\ f.asked = t.asked
      /\ f.recorded = t.recorded /\ f.due = t.due
      /\ f.executed = t.executed + 1
  BY <1>2, <1>3 DEF Frames
<1> HIDE DEF f
<1>5. Accounted(f) /\ f.due <= f.recorded /\ f.due = f.executed + Owed("loop", 1)
  BY <1>2, <1>4, Fields, ConstantsOK DEF Accounted, Owed
<1>6. StackOK("loop", s) /\ s # << >> /\ s[1] = f
  <2>1. s # << >> /\ s[1] = f
    BY <1>2, <1>4, UpdateFacts
  <2>2. StackOK("loop", s)
    BY <1>2, <1>4, <1>5, UpdateKeeps DEF Labels
  <2> QED BY <2>1, <2>2
<1>7. rest \in Seq(Frames)
  BY <1>2, TailFacts
<1> HIDE DEF s, rest
<1>8. t.level + 1 \in 0..MaxContinuationLevel
  BY <1>1, <1>2, Fields, ConstantsOK DEF TooDeep
<1>9. StackOK("sent", u)
  BY <1>4, <1>6, <1>8, PushKeeps
<1>10. g \in Frames
  BY <1>8, FreshFrame
<1> HIDE DEF g
<1>11. <<g, f>> \o rest = u
  BY <1>4, <1>7, <1>10 DEF s
<1> HIDE DEF u
<1>12. stack' = [stack EXCEPT ![c] = u] /\ pc' = [pc EXCEPT ![c] = "sent"]
  BY <1>1, <1>11 DEF Goto
<1> QED BY <1>1, <1>9, <1>12, Records, StepKeeps

(* The invariant is that of the specification.                             *)
THEOREM SimulatorInvCorrect == Spec => []SimulatorInv
<1>1. Init => SimulatorInv
  <2> SUFFICES ASSUME Init PROVE SimulatorInv
    OBVIOUS
  <2>1. StackOK("idle", << >>)
    BY DEF StackOK, Labels
  <2> QED BY <2>1 DEF Init, SimulatorInv, Modes, Labels
<1>2. SimulatorInv /\ [Next]_vars => SimulatorInv'
  <2> SUFFICES ASSUME SimulatorInv, [Next]_vars PROVE SimulatorInv'
    OBVIOUS
  <2>1. ASSUME NEW c \in Callers, Progress(c) PROVE SimulatorInv'
    <3>1. ASSUME NEW asked \in 0..MaxAsked, Answer(c, asked) PROVE SimulatorInv'
      BY <3>1, AnswerKeeps
    <3>2. CASE SendFails(c)
      BY <3>2, ReturnKeeps DEF SendFails
    <3>3. CASE Refuse(c)
      BY <3>3, ReturnKeeps DEF Refuse
    <3>4. CASE Truncate(c)
      BY <3>4, TruncateKeeps
    <3>5. CASE Accept(c)
      BY <3>5, AcceptKeeps
    <3>6. CASE Record(c)
      BY <3>6, RecordKeeps
    <3>7. CASE Execute(c)
      BY <3>7, ExecuteKeeps
    <3>8. CASE Finish(c)
      BY <3>8, ReturnKeeps DEF Finish
    <3> QED BY <2>1, <3>1, <3>2, <3>3, <3>4, <3>5, <3>6, <3>7, <3>8 DEF Progress
  <2>2. ASSUME NEW c \in Callers, SendMessage(c) PROVE SimulatorInv'
    <3>1. 0 \in 0..MaxContinuationLevel
      BY ConstantsOK
    <3> QED BY <2>2, <3>1, PushStepKeeps DEF SendMessage
  <2>3. ASSUME NEW c \in Callers, NEW level \in 0..MaxContinuationLevel,
               ExecuteRecord(c, level)
        PROVE SimulatorInv'
    <3>1. level + 1 \in 0..MaxContinuationLevel
      BY <2>3, ConstantsOK DEF ExecuteRecord
    <3> QED BY <2>3, <3>1, PushStepKeeps DEF ExecuteRecord
  <2>4. ASSUME NEW m \in Modes, SetContinuationMode(m) PROVE SimulatorInv'
    <3>1. mode' \in Modes /\ UNCHANGED <<continuations, pc, stack>>
      BY <2>4 DEF SetContinuationMode
    <3> QED BY <3>1 DEF SimulatorInv, StackOK, TooDeep
  <2>5. CASE ResetContinuations
    <3>1. continuations' = {} /\ UNCHANGED <<mode, pc, stack>>
      BY <2>5 DEF ResetContinuations
    <3> QED BY <3>1 DEF SimulatorInv, StackOK
  <2>6. CASE UNCHANGED vars
    BY <2>6 DEF vars, SimulatorInv, StackOK, TooDeep
  <2> QED BY <2>1, <2>2, <2>3, <2>4, <2>5, <2>6 DEF Next
<1> QED BY <1>1, <1>2, PTL DEF Spec

(* The variables are of their types, and the recursion is bounded by the   *)
(* levels: every frame is a level above the one it was called from.        *)
THEOREM TypeCorrect == Spec => []TypeOK
<1>1. SimulatorInv => TypeOK
  <2> SUFFICES ASSUME SimulatorInv PROVE TypeOK
    OBVIOUS
  <2>1. ASSUME NEW c \in Callers
        PROVE  /\ Len(stack[c]) <= MaxContinuationLevel + 1
               /\ pc[c] = "idle" <=> stack[c] = << >>
    <3> DEFINE s == stack[c]
    <3>1. s \in Seq(Frames) /\ StackOK(pc[c], s)
      BY AtStep
    <3>2. CASE s = << >>
      BY <3>1, <3>2, ConstantsOK DEF StackOK
    <3>3. CASE s # << >>
      <4>1. s[1] \in Frames /\ Len(s) \in Nat \ {0}
        BY <3>1, <3>3, TailFacts
      <4>2. s[1].level >= Len(s) - 1
        BY <3>1, <4>1 DEF StackOK
      <4> QED BY <3>1, <4>1, <4>2, Fields, ConstantsOK DEF StackOK
    <3> QED BY <3>2, <3>3
  <2> QED BY <2>1 DEF SimulatorInv, TypeOK
<1> QED BY <1>1, SimulatorInvCorrect, PTL

(* What is recorded and what is about to be executed pass the check of     *)
(* ExecuteContinuation.                                                    *)
THEOREM RecordsCanRunCorrect == Spec => []RecordsCanRun
<1>1. SimulatorInv => RecordsCanRun
  <2> SUFFICES ASSUME SimulatorInv PROVE RecordsCanRun
    OBVIOUS
  <2>1. \A level \in continuations : level + 1 <= MaxContinuationLevel
    BY Records, ConstantsOK DEF TooDeep
  <2>2. ASSUME NEW c \in Callers, pc[c] = "execute"
        PROVE  Top(c).level + 1 <= MaxContinuationLevel
    <3>1. Accounted(Top(c)) /\ Top(c) \in Frames
      BY <2>2, AtStep DEF StackOK
    <3> QED BY <3>1, Fields, ConstantsOK DEF Accounted, TooDeep
  <2> QED BY <2>1, <2>2 DEF RecordsCanRun
<1> QED BY <1>1, SimulatorInvCorrect, PTL

(* Every continuation asked for is recorded, dropped or yet to come to.    *)
THEOREM NothingLostCorrect == Spec => []NothingLost
<1>1. SimulatorInv => NothingLost
  <2> SUFFICES ASSUME SimulatorInv, NEW c \in Callers, NEW i \in DOMAIN stack[c],
                      Looping(c, i)
               PROVE  LET f == stack[c][i] IN
                        /\ f.asked = f.recorded + f.dropped + f.todo
                        /\ MaxPerResponse > 0 => f.recorded <= MaxPerResponse
                        /\ f.dropped > 0 => f.recorded + f.todo = MaxPerResponse
    BY DEF NothingLost
  <2> DEFINE f == stack[c][i]
  <2>1. stack[c] \in Seq(Frames) /\ StackOK(pc[c], stack[c]) /\ i \in 1..Len(stack[c])
    BY AtStep
  <2>2. f \in Frames
    BY <2>1
  <2>3. Accounted(f)
    BY <2>1 DEF StackOK, Looping
  <2> HIDE DEF f
  <2>4. /\ f.asked = f.recorded + f.dropped + f.todo
        /\ MaxPerResponse > 0 => f.recorded <= MaxPerResponse
        /\ f.dropped > 0 => f.recorded + f.todo = MaxPerResponse
    BY <2>2, <2>3, Fields, ConstantsOK DEF Accounted
  <2> QED BY <2>4 DEF f
<1> QED BY <1>1, SimulatorInvCorrect, PTL

(* What is due was executed, but for the one about to be.                  *)
THEOREM ExecutedAsDueCorrect == Spec => []ExecutedAsDue
<1>1. SimulatorInv => ExecutedAsDue
  <2> SUFFICES ASSUME SimulatorInv, NEW c \in Callers, NEW i \in DOMAIN stack[c]
               PROVE  stack[c][i].due = stack[c][i].executed +
                        IF i = 1 /\ pc[c] = "execute" THEN 1 ELSE 0
    BY DEF ExecutedAsDue
  <2>1. stack[c] \in Seq(Frames) /\ StackOK(pc[c], stack[c]) /\ i \in 1..Len(stack[c])
    BY AtStep
  <2> QED BY <2>1 DEF StackOK, Owed
<1> QED BY <1>1, SimulatorInvCorrect, PTL
-----------------------------------------------------------------------------
(* What CallsReturn relies on: how much the d-th message of a call, from   *)
(* the first one sent, has left to do.                                     *)
RankOf(l, s, d) ==
  IF d = Len(s) /\ l = "sent" THEN 2 * MaxAsked + 3
  ELSE IF d = Len(s) /\ l = "handle" THEN 2 * MaxAsked + 2
  ELSE 2 * s[Len(s) - d + 1].todo + IF d = Len(s) /\ l = "execute" THEN 1 ELSE 0

(* A caller at k with stack u is closer to its end than at l with s: some  *)
(* message has less left to do, or was handled, and nothing changes for    *)
(* those before it.  In this order of sequences as long as the recursion   *)
(* can be deep, of numbers that are bounded, nothing descends for ever.    *)
Closer(l, s, k, u) ==
  \E d \in 1..Len(s) :
    /\ \A e \in 1..(d - 1) : e <= Len(u) /\ RankOf(k, u, e) = RankOf(l, s, e)
    /\ d <= Len(u) => RankOf(k, u, d) < RankOf(l, s, d)

RanksBounded ==
  \A c \in Callers : \A d \in 1..Len(stack[c]) :
    RankOf(pc[c], stack[c], d) \in 0..(2 * MaxAsked + 3)

(* Whatever the extension asks for, whoever changes the mode or resets the *)
(* records meanwhile, a step that changes a call in progress brings it     *)
(* closer to its end.                                                      *)
RunsOut ==
  [][\A c \in Callers : pc[c] # "idle" =>
       \/ UNCHANGED <<pc[c], stack[c]>>
       \/ Closer(pc[c], stack[c], pc'[c], stack'[c])]_vars

(* Below the top, a frame ranks the same wherever its caller is.           *)
LEMMA PopCloser ==
  ASSUME NEW l, NEW s \in Seq(Frames), s # << >>
  PROVE  Closer(l, s, IF Len(s) = 1 THEN "idle" ELSE "loop", Tail(s))
<1> DEFINE u == Tail(s)
           k == IF Len(s) = 1 THEN "idle" ELSE "loop"
<1>1. /\ Len(u) = Len(s) - 1 /\ Len(s) \in Nat \ {0}
      /\ \A i \in 1..(Len(s) - 1) : u[i] = s[i + 1]
  BY TailFacts
<1>2. k \in {"idle", "loop"}
  OBVIOUS
<1> HIDE DEF u, k
<1>3. ASSUME NEW e \in 1..(Len(s) - 1)
      PROVE  e <= Len(u) /\ RankOf(k, u, e) = RankOf(l, s, e)
  <2>1. /\ Len(u) - e + 1 \in 1..(Len(s) - 1)
        /\ (Len(u) - e + 1) + 1 = Len(s) - e + 1
        /\ e # Len(s)
    BY <1>1
  <2>2. u[Len(u) - e + 1] = s[Len(s) - e + 1]
    BY <1>1, <2>1
  <2> QED BY <1>1, <1>2, <2>1, <2>2 DEF RankOf
<1>4. Len(s) \in 1..Len(s) /\ ~(Len(s) <= Len(u))
  BY <1>1
<1>5. Closer(l, s, k, u)
  BY <1>3, <1>4 DEF Closer
<1> QED BY <1>5 DEF u, k

LEMMA UpdateCloser ==
  ASSUME NEW l, NEW k, NEW s \in Seq(Frames), s # << >>, NEW f \in Frames,
         RankOf(k, <<f>> \o Tail(s), Len(s)) < RankOf(l, s, Len(s))
  PROVE  Closer(l, s, k, <<f>> \o Tail(s))
<1> DEFINE u == <<f>> \o Tail(s)
<1>1. /\ Len(u) = Len(s) /\ Len(s) \in Nat \ {0}
      /\ \A i \in 2..Len(s) : u[i] = s[i]
  BY UpdateFacts, TailFacts
<1>2. RankOf(k, u, Len(s)) < RankOf(l, s, Len(s))
  OBVIOUS
<1> HIDE DEF u
<1>3. ASSUME NEW e \in 1..(Len(s) - 1)
      PROVE  e <= Len(u) /\ RankOf(k, u, e) = RankOf(l, s, e)
  <2>1. Len(s) - e + 1 \in 2..Len(s) /\ e # Len(s)
    BY <1>1
  <2> QED BY <1>1, <2>1 DEF RankOf
<1>4. Len(s) \in 1..Len(s)
  BY <1>1
<1>5. Closer(l, s, k, u)
  BY <1>2, <1>3, <1>4 DEF Closer
<1> QED BY <1>5 DEF u

(* The rank of the message at the top.                                     *)
LEMMA TopRank ==
  ASSUME NEW s \in Seq(Frames), s # << >>
  PROVE  /\ RankOf("sent", s, Len(s)) = 2 * MaxAsked + 3
         /\ RankOf("handle", s, Len(s)) = 2 * MaxAsked + 2
         /\ RankOf("execute", s, Len(s)) = 2 * s[1].todo + 1
         /\ RankOf("loop", s, Len(s)) = 2 * s[1].todo
<1>1. Len(s) \in Nat /\ Len(s) - Len(s) + 1 = 1 /\ s[1] \in Frames
  BY TailFacts
<1>2. s[1].todo \in Nat
  BY <1>1, Fields, ConstantsOK
<1> QED BY <1>1, <1>2 DEF RankOf

LEMMA ExecuteCloser ==
  ASSUME NEW s \in Seq(Frames), s # << >>, NEW f \in Frames, NEW g \in Frames,
         f.todo = s[1].todo
  PROVE  Closer("execute", s, "sent", <<g, f>> \o Tail(s))
<1> DEFINE v == <<f>> \o Tail(s)
           u == <<g>> \o v
<1>1. /\ v \in Seq(Frames) /\ Len(v) = Len(s) /\ v[1] = f
      /\ \A i \in 2..Len(s) : v[i] = s[i]
      /\ Len(s) \in Nat \ {0} /\ s[1] \in Frames
      /\ Tail(s) \in Seq(Frames)
  BY UpdateFacts, TailFacts
<1>2. <<g, f>> \o Tail(s) = u
  BY <1>1
<1> HIDE DEF v
<1>3. /\ Len(u) = Len(s) + 1
      /\ \A i \in 2..(Len(s) + 1) : u[i] = v[i - 1]
  BY <1>1, PushFacts
<1> HIDE DEF u
<1>4. ASSUME NEW e \in 1..Len(s)
      PROVE  e <= Len(u) /\ RankOf("sent", u, e) = 2 * s[Len(s) - e + 1].todo
  <2>1. /\ Len(u) - e + 1 \in 2..(Len(s) + 1) /\ e # Len(u)
        /\ (Len(u) - e + 1) - 1 = Len(s) - e + 1
        /\ Len(s) - e + 1 \in 1..Len(s)
    BY <1>1, <1>3
  <2>2. u[Len(u) - e + 1] = v[Len(s) - e + 1]
    BY <1>3, <2>1
  <2>3. v[Len(s) - e + 1].todo = s[Len(s) - e + 1].todo
    <3>1. CASE Len(s) - e + 1 = 1
      BY <1>1, <3>1
    <3>2. CASE Len(s) - e + 1 # 1
      BY <1>1, <2>1, <3>2
    <3> QED BY <3>1, <3>2
  <2>4. s[Len(s) - e + 1].todo \in Nat
    BY <2>1, Fields, ConstantsOK
  <2> QED BY <1>1, <1>3, <2>1, <2>2, <2>3, <2>4 DEF RankOf
<1>5. ASSUME NEW e \in 1..(Len(s) - 1)
      PROVE  RankOf("execute", s, e) = 2 * s[Len(s) - e + 1].todo
  <2>1. Len(s) - e + 1 \in 1..Len(s) /\ e # Len(s)
    BY <1>1
  <2>2. s[Len(s) - e + 1].todo \in Nat
    BY <2>1, Fields, ConstantsOK
  <2> QED BY <1>1, <2>1, <2>2 DEF RankOf
<1>6. RankOf("sent", u, Len(s)) < RankOf("execute", s, Len(s))
  <2>1. Len(s) \in 1..Len(s) /\ Len(s) - Len(s) + 1 = 1 /\ s[1].todo \in Nat
    BY <1>1, Fields, ConstantsOK
  <2> QED BY <1>4, <2>1, TopRank
<1>7. Len(s) \in 1..Len(s) /\ \A e \in 1..(Len(s) - 1) : e \in 1..Len(s)
  BY <1>1
<1>8. Closer("execute", s, "sent", u)
  BY <1>4, <1>5, <1>6, <1>7 DEF Closer
<1> QED BY <1>2, <1>8

LEMMA ReturnCloser ==
  ASSUME SimulatorInv, NEW c \in Callers, pc[c] # "idle", Return(c)
  PROVE  Closer(pc[c], stack[c], pc'[c], stack'[c])
<1>1. /\ stack'[c] = Tail(stack[c])
      /\ pc'[c] = IF Len(stack[c]) = 1 THEN "idle" ELSE "loop"
  BY DEF Return, Goto, SimulatorInv
<1> QED BY <1>1, AtStep, PopCloser

(* The top frame's todo is all that its rank depends on.                   *)
LEMMA UpdateStepCloser ==
  ASSUME SimulatorInv, NEW c \in Callers, pc[c] # "idle",
         NEW k \in {"handle", "loop", "execute"}, NEW f \in Frames,
         Update(c, f), Goto(c, k),
         \/ pc[c] = "sent"
         \/ pc[c] = "handle" /\ k = "loop"
         \/ pc[c] = "loop" /\ k # "handle" /\ f.todo < Top(c).todo
  PROVE  Closer(pc[c], stack[c], pc'[c], stack'[c])
<1> DEFINE s == stack[c]
           u == <<f>> \o Tail(s)
<1>1. stack'[c] = u /\ pc'[c] = k
  BY DEF Update, Goto, SimulatorInv
<1>2. s \in Seq(Frames) /\ s # << >> /\ Top(c) = s[1] /\ s[1] \in Frames
  BY AtStep
<1>3. u \in Seq(Frames) /\ Len(u) = Len(s) /\ u[1] = f /\ u # << >>
  BY <1>2, UpdateFacts
<1>4. f.todo \in 0..MaxAsked /\ s[1].todo \in 0..MaxAsked
  BY <1>2, Fields
<1>5. RankOf(k, u, Len(s)) < RankOf(pc[c], s, Len(s))
  <2> HIDE DEF s, u
  <2>1. /\ RankOf("handle", u, Len(s)) = 2 * MaxAsked + 2
        /\ RankOf("execute", u, Len(s)) = 2 * f.todo + 1
        /\ RankOf("loop", u, Len(s)) = 2 * f.todo
    BY <1>3, TopRank
  <2>2. /\ RankOf("sent", s, Len(s)) = 2 * MaxAsked + 3
        /\ RankOf("handle", s, Len(s)) = 2 * MaxAsked + 2
        /\ RankOf("loop", s, Len(s)) = 2 * s[1].todo
    BY <1>2, TopRank
  <2>3. CASE pc[c] = "sent"
    BY <1>4, <2>1, <2>2, <2>3, ConstantsOK
  <2>4. CASE pc[c] = "handle" /\ k = "loop"
    BY <1>4, <2>1, <2>2, <2>4, ConstantsOK
  <2>5. CASE pc[c] = "loop" /\ k # "handle" /\ f.todo < Top(c).todo
    BY <1>2, <1>4, <2>1, <2>2, <2>5, ConstantsOK
  <2> QED BY <2>3, <2>4, <2>5
<1> QED BY <1>1, <1>2, <1>5, UpdateCloser

LEMMA ProgressCloser ==
  ASSUME SimulatorInv, NEW c \in Callers, Progress(c)
  PROVE  Closer(pc[c], stack[c], pc'[c], stack'[c])
<1> DEFINE t == Top(c)
<1>1. pc[c] # "idle"
  BY DEF Progress, Answer, SendFails, Refuse, Truncate, Accept, Record,
     Appended, Execute, Finish
<1>2. t \in Frames /\ stack[c] \in Seq(Frames) /\ stack[c] # << >> /\ t = stack[c][1]
  BY <1>1, AtStep
<1>3. CASE Return(c)
  BY <1>1, <1>3, ReturnCloser
<1>4. ASSUME NEW asked \in 0..MaxAsked, Answer(c, asked), ~Return(c)
      PROVE  Closer(pc[c], stack[c], pc'[c], stack'[c])
  <2>1. [t EXCEPT !.asked = asked] \in Frames
    BY <1>2 DEF Frames
  <2> QED BY <1>1, <1>4, <2>1, UpdateStepCloser DEF Answer
<1>5. CASE Truncate(c)
  <2> DEFINE f == [t EXCEPT !.todo = MaxPerResponse,
                            !.dropped = t.asked - MaxPerResponse]
  <2>1. MaxPerResponse \in 0..MaxAsked /\ t.asked - MaxPerResponse \in 0..MaxAsked
    BY <1>2, <1>5, Fields, ConstantsOK DEF Truncate, TooMany
  <2>2. f \in Frames
    BY <1>2, <2>1 DEF Frames
  <2> QED BY <1>1, <1>5, <2>2, UpdateStepCloser DEF Truncate
<1>6. CASE Accept(c)
  <2>1. [t EXCEPT !.todo = t.asked] \in Frames
    BY <1>2, Fields DEF Frames
  <2> QED BY <1>1, <1>6, <2>1, UpdateStepCloser DEF Accept
<1>7. CASE Record(c)
  <2> DEFINE more == IF mode = "immediate" THEN 1 ELSE 0
             f == [t EXCEPT !.todo = @ - 1, !.recorded = @ + 1, !.due = @ + more]
             k == IF mode = "immediate" THEN "execute" ELSE "loop"
  <2>1. pc[c] = "loop" /\ t.todo > 0 /\ Update(c, f) /\ Goto(c, k)
    BY <1>7 DEF Record, Appended
  <2>2. Accounted(t) /\ t.due <= t.recorded
    <3>1. StackOK("loop", stack[c]) /\ 1 \in 1..Len(stack[c])
      BY <1>1, <2>1, AtStep
    <3> QED BY <1>2, <3>1 DEF StackOK
  <2>3. more \in {0, 1} /\ k \in {"loop", "execute"}
    OBVIOUS
  <2> HIDE DEF t, more, k
  <2>4. /\ t.todo - 1 \in 0..MaxAsked /\ t.recorded + 1 \in 0..MaxAsked
        /\ t.due + more \in 0..MaxAsked
    <3>1. /\ t.asked \in 0..MaxAsked /\ t.todo \in 0..MaxAsked
          /\ t.recorded \in 0..MaxAsked /\ t.dropped \in 0..MaxAsked
          /\ t.due \in 0..MaxAsked
      BY <1>2, Fields
    <3>2. t.todo > 0 /\ t.asked = t.recorded + t.dropped + t.todo /\ t.due <= t.recorded
      BY <2>1, <2>2 DEF Accounted
    <3> QED BY <2>3, <3>1, <3>2, ConstantsOK
  <2>5. f \in Frames /\ f.todo = t.todo - 1
    BY <1>2, <2>4 DEF Frames
  <2>6. f.todo < t.todo
    BY <1>2, <2>5, Fields
  <2> HIDE DEF f
  <2> QED BY <1>1, <2>1, <2>3, <2>5, <2>6, UpdateStepCloser DEF t
<1>8. CASE Execute(c)
  <2> DEFINE f == [t EXCEPT !.executed = @ + 1]
             g == Frame(t.level + 1)
  <2>1. /\ pc[c] = "execute" /\ ~TooDeep(t.level) /\ pc'[c] = "sent"
        /\ stack'[c] = <<g, f>> \o Tail(stack[c])
    BY <1>8 DEF Execute, Goto, SimulatorInv
  <2>2. t.due <= t.recorded /\ t.due = t.executed + 1
    <3>1. StackOK("execute", stack[c]) /\ 1 \in 1..Len(stack[c])
          /\ Owed("execute", 1) = 1
      BY <1>1, <2>1, AtStep DEF Owed
    <3> QED BY <1>2, <3>1 DEF StackOK
  <2> HIDE DEF t
  <2>3. t.executed + 1 \in 0..MaxAsked /\ t.level + 1 \in 0..MaxContinuationLevel
    BY <1>2, <2>1, <2>2, Fields, ConstantsOK DEF TooDeep
  <2>4. f \in Frames /\ f.todo = t.todo
    BY <1>2, <2>3 DEF Frames
  <2>5. g \in Frames
    BY <2>3, FreshFrame
  <2> HIDE DEF f, g
  <2> QED BY <1>2, <2>1, <2>4, <2>5, ExecuteCloser
<1> QED BY <1>3, <1>4, <1>5, <1>6, <1>7, <1>8 DEF Progress, SendFails, Refuse,
        Finish

(* A call ends although the extension may ask for continuations for ever:  *)
(* all of CallsReturn but that its steps are taken, which is fairness.     *)
THEOREM RunsOutCorrect == Spec => []RanksBounded /\ RunsOut
<1> DEFINE A == \A c \in Callers : pc[c] # "idle" =>
                  \/ UNCHANGED <<pc[c], stack[c]>>
                  \/ Closer(pc[c], stack[c], pc'[c], stack'[c])
<1>1. SimulatorInv => RanksBounded
  <2> SUFFICES ASSUME SimulatorInv, NEW c \in Callers, NEW d \in 1..Len(stack[c])
               PROVE  RankOf(pc[c], stack[c], d) \in 0..(2 * MaxAsked + 3)
    BY DEF RanksBounded
  <2> DEFINE i == Len(stack[c]) - d + 1
  <2>1. stack[c] \in Seq(Frames)
    BY AtStep
  <2>2. i \in 1..Len(stack[c])
    BY <2>1
  <2>3. stack[c][i].todo \in 0..MaxAsked
    BY <2>1, <2>2, Fields
  <2> DEFINE todo == stack[c][i].todo
  <2>4. RankOf(pc[c], stack[c], d) \in
          {2 * MaxAsked + 3, 2 * MaxAsked + 2, 2 * todo + 1, 2 * todo + 0}
    BY DEF RankOf
  <2> HIDE DEF i, todo
  <2>5. /\ 2 * MaxAsked + 3 \in 0..(2 * MaxAsked + 3)
        /\ 2 * MaxAsked + 2 \in 0..(2 * MaxAsked + 3)
        /\ 2 * todo + 1 \in 0..(2 * MaxAsked + 3)
        /\ 2 * todo + 0 \in 0..(2 * MaxAsked + 3)
    <3>1. todo \in 0..MaxAsked
      BY <2>3 DEF todo
    <3> QED BY <3>1, ConstantsOK
  <2> QED BY <2>4, <2>5
<1>2. SimulatorInv /\ [Next]_vars => [A]_vars
  <2> SUFFICES ASSUME SimulatorInv, Next, NEW c \in Callers, pc[c] # "idle"
               PROVE  \/ UNCHANGED <<pc[c], stack[c]>>
                      \/ Closer(pc[c], stack[c], pc'[c], stack'[c])
    OBVIOUS
  <2>1. CASE Progress(c)
    BY <2>1, ProgressCloser
  <2>2. ASSUME NEW d \in Callers, d # c,
               \/ Progress(d) \/ SendMessage(d)
               \/ \E level \in 0..MaxContinuationLevel : ExecuteRecord(d, level)
        PROVE  UNCHANGED <<pc[c], stack[c]>>
    <3>1. /\ \E k : pc' = [pc EXCEPT ![d] = k]
          /\ \E u : stack' = [stack EXCEPT ![d] = u]
      BY <2>2 DEF Progress, Answer, SendFails, Refuse, Truncate, Accept, Record,
         Appended, Execute, Finish, SendMessage, ExecuteRecord, Return, Update,
         Push, Goto
    <3> QED BY <2>2, <3>1 DEF SimulatorInv
  <2>3. ~SendMessage(c) /\ \A level : ~ExecuteRecord(c, level)
    BY DEF SendMessage, ExecuteRecord
  <2>4. (\E m \in Modes : SetContinuationMode(m)) \/ ResetContinuations =>
          UNCHANGED <<pc[c], stack[c]>>
    BY DEF SetContinuationMode, ResetContinuations
  <2> QED BY <2>1, <2>2, <2>3, <2>4 DEF Next
<1>3. Spec => []RanksBounded /\ [][A]_vars
  BY <1>1, <1>2, SimulatorInvCorrect, PTL DEF Spec
<1> QED BY <1>3 DEF RunsOut
=============================================================================
