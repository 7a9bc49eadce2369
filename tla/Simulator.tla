----------------------------- MODULE Simulator -----------------------------
(***************************************************************************)
(* simulator/simulator.go: the backend that tests of an extension run      *)
(* against.  It sends messages and handles what the responses ask for:     *)
(* continuations are recorded, and in immediate mode executed on the spot, *)
(* by a recursion from handleContinuations to ExecuteContinuation to       *)
(* processResponse and back.                                               *)
(*                                                                         *)
(* Callers are goroutines of the test.  Each has a stack, of one frame for *)
(* each message whose response it waits for or handles, the last one at    *)
(* the head.  Between two sections that hold s.mu, and while a message is  *)
(* under way, other callers run, and may change the mode or reset what was *)
(* recorded.  The lists of errors and metrics are appended to and not      *)
(* read, and left out; what handleContinuations drops is in the history of *)
(* a frame.                                                                *)
(*                                                                         *)
(* External: the extension, which may answer anything, an error included,  *)
(* and ask for up to MaxAsked continuations, each time.  Messages whose    *)
(* responses are not processed (heartbeats, schemas, validations, error    *)
(* reports) change nothing here.                                           *)
(***************************************************************************)
EXTENDS Naturals, Sequences

CONSTANTS
  Callers,               \* goroutines of the test
  MaxContinuationLevel,
  MaxPerResponse,        \* getMaxContinuationsPerResponse: 0 for no limit
  MaxAsked               \* bound on the continuations of a response

ASSUME ConstantsOK ==
  /\ MaxContinuationLevel \in Nat
  /\ MaxPerResponse \in Nat
  /\ MaxAsked \in Nat

VARIABLES
  mode,           \* continuationMode
  continuations,  \* the levels at which there is a record of a continuation
  pc, stack       \* the callers

vars == <<mode, continuations, pc, stack>>

Modes == {"record", "immediate"}

Labels == {"idle", "sent", "handle", "loop", "execute"}

(* asked: the continuations in the response; todo: those that the loop of  *)
(* handleContinuations has yet to come to.  The rest is history: how many  *)
(* were recorded, were dropped with an error, were recorded in immediate   *)
(* mode, and were executed.                                                *)
Frame(level) == [level |-> level, asked |-> 0, todo |-> 0,
                 recorded |-> 0, dropped |-> 0, due |-> 0, executed |-> 0]
Frames == [level : 0..MaxContinuationLevel, asked : 0..MaxAsked, todo : 0..MaxAsked,
           recorded : 0..MaxAsked, dropped : 0..MaxAsked, due : 0..MaxAsked,
           executed : 0..MaxAsked]

Init ==
  /\ mode = "record"
  /\ continuations = {}
  /\ pc = [c \in Callers |-> "idle"]
  /\ stack = [c \in Callers |-> << >>]

-----------------------------------------------------------------------------
Goto(c, label) == pc' = [pc EXCEPT ![c] = label]

Top(c) == Head(stack[c])

Push(c, frame) == stack' = [stack EXCEPT ![c] = <<frame>> \o @]

Update(c, frame) == stack' = [stack EXCEPT ![c] = <<frame>> \o Tail(@)]

(* Mutant: the error of a continuation ends it all.                        *)
ReturnToTest(c) ==
  /\ stack' = [stack EXCEPT ![c] = Tail(@)]
  /\ Goto(c, "idle")

(* The message is handled: its caller, or the loop it comes from, goes on. *)
Return(c) ==
  /\ stack' = [stack EXCEPT ![c] = Tail(@)]
  /\ Goto(c, IF Len(stack[c]) = 1 THEN "idle" ELSE "loop")

-----------------------------------------------------------------------------
(* The test.                                                               *)

(* SendRequestFull, SendEventFull.                                         *)
SendMessage(c) ==
  /\ pc[c] = "idle"
  /\ Push(c, Frame(0))
  /\ Goto(c, "sent")
  /\ UNCHANGED <<mode, continuations>>

(* ExecuteContinuation with a record of the given level, whose own level   *)
(* check never fails on one of handleContinuations' records.               *)
ExecuteRecord(c, level) ==
  /\ pc[c] = "idle"
  /\ level \in continuations
  /\ level + 1 <= MaxContinuationLevel
  /\ Push(c, Frame(level + 1))
  /\ Goto(c, "sent")
  /\ UNCHANGED <<mode, continuations>>

SetContinuationMode(m) ==
  /\ mode # m
  /\ mode' = m
  /\ UNCHANGED <<continuations, pc, stack>>

ResetContinuations ==
  /\ continuations # {}
  /\ continuations' = {}
  /\ UNCHANGED <<mode, pc, stack>>

-----------------------------------------------------------------------------
(* sendAndParse, and processResponse, which records errors and metrics.    *)

(* A body that is empty asks for nothing.                                  *)
Answer(c, asked) ==
  /\ pc[c] = "sent"
  /\ IF asked = 0 THEN Return(c)
                  ELSE Update(c, [Top(c) EXCEPT !.asked = asked])
                       /\ Goto(c, "handle")
  /\ UNCHANGED <<mode, continuations>>

(* Mutant: a continuation that fails is executed again.                    *)
SendFailsAgain(c) ==
  /\ pc[c] = "sent"
  /\ IF Len(stack[c]) = 1
       THEN Return(c)
       ELSE /\ stack' = [stack EXCEPT ![c] =
                 <<[stack[c][2] EXCEPT !.executed = @ - 1]>> \o Tail(Tail(@))]
            /\ Goto(c, "execute")
  /\ UNCHANGED <<mode, continuations>>

(* No connection, as after Close, or a body that does not parse: the error *)
(* is returned to the test, or recorded by the loop, which goes on.        *)
SendFails(c) ==
  /\ pc[c] = "sent"
  /\ Return(c)
  /\ UNCHANGED <<mode, continuations>>

-----------------------------------------------------------------------------
(* handleContinuations.                                                    *)

(* Mutant: the level of the response is compared, not the next one.        *)
TooDeepLate(level) == level > MaxContinuationLevel

TooDeep(level) == level + 1 > MaxContinuationLevel

TooMany(n) == MaxPerResponse > 0 /\ n > MaxPerResponse

(* Mutant: the number that is left does not enter the loop.                *)
TruncateLoosely(c) ==
  /\ pc[c] = "handle"
  /\ ~TooDeep(Top(c).level)
  /\ TooMany(Top(c).asked)
  /\ Update(c, [Top(c) EXCEPT !.todo = Top(c).asked,
                              !.dropped = Top(c).asked - MaxPerResponse])
  /\ Goto(c, "loop")
  /\ UNCHANGED <<mode, continuations>>

Refuse(c) ==
  /\ pc[c] = "handle"
  /\ TooDeep(Top(c).level)
  /\ Return(c)
  /\ UNCHANGED <<mode, continuations>>

Truncate(c) ==
  /\ pc[c] = "handle"
  /\ ~TooDeep(Top(c).level)
  /\ TooMany(Top(c).asked)
  /\ Update(c, [Top(c) EXCEPT !.todo = MaxPerResponse,
                              !.dropped = Top(c).asked - MaxPerResponse])
  /\ Goto(c, "loop")
  /\ UNCHANGED <<mode, continuations>>

Accept(c) ==
  /\ pc[c] = "handle"
  /\ ~TooDeep(Top(c).level)
  /\ ~TooMany(Top(c).asked)
  /\ Update(c, [Top(c) EXCEPT !.todo = Top(c).asked])
  /\ Goto(c, "loop")
  /\ UNCHANGED <<mode, continuations>>

Appended(c) ==
  /\ pc[c] = "loop" /\ Top(c).todo > 0
  /\ continuations' = continuations \cup {Top(c).level}
  /\ Update(c, [Top(c) EXCEPT !.todo = @ - 1, !.recorded = @ + 1,
                              !.due = @ + IF mode = "immediate" THEN 1 ELSE 0])
  /\ UNCHANGED mode

(* Mutant: the mode was read earlier.                                      *)
RecordStale(c) == Appended(c) /\ (Goto(c, "execute") \/ Goto(c, "loop"))

(* The record is appended and the mode read while s.mu is held.  A delay   *)
(* over MaxContinuationDelay is reported as clamped, and is recorded.      *)
Record(c) ==
  /\ Appended(c)
  /\ Goto(c, IF mode = "immediate" THEN "execute" ELSE "loop")

(* ExecuteContinuation, which checks the level again.                      *)
Execute(c) ==
  /\ pc[c] = "execute"
  /\ ~TooDeep(Top(c).level)
  /\ stack' = [stack EXCEPT ![c] =
       <<Frame(Top(c).level + 1), [Top(c) EXCEPT !.executed = @ + 1]>> \o Tail(@)]
  /\ Goto(c, "sent")
  /\ UNCHANGED <<mode, continuations>>

Finish(c) ==
  /\ pc[c] = "loop" /\ Top(c).todo = 0
  /\ Return(c)
  /\ UNCHANGED <<mode, continuations>>

-----------------------------------------------------------------------------
Progress(c) ==
  \/ \E asked \in 0..MaxAsked : Answer(c, asked)
  \/ SendFails(c)
  \/ Refuse(c) \/ Truncate(c) \/ Accept(c)
  \/ Record(c) \/ Execute(c) \/ Finish(c)

Next ==
  \/ \E c \in Callers : \/ Progress(c) \/ SendMessage(c)
                        \/ \E level \in 0..MaxContinuationLevel :
                             ExecuteRecord(c, level)
  \/ \E m \in Modes : SetContinuationMode(m)
  \/ ResetContinuations

(* The extension answers, or the connection fails, and goroutines go on.   *)
Spec == Init /\ [][Next]_vars /\ \A c \in Callers : WF_vars(Progress(c))

-----------------------------------------------------------------------------
(* Every variable holds a value of its type, and the recursion is no       *)
(* deeper than the levels are.                                             *)
TypeOK ==
  /\ mode \in Modes
  /\ continuations \subseteq 0..MaxContinuationLevel
  /\ pc \in [Callers -> Labels]
  /\ stack \in [Callers -> Seq(Frames)]
  /\ \A c \in Callers :
       /\ Len(stack[c]) <= MaxContinuationLevel + 1
       /\ pc[c] = "idle" <=> stack[c] = << >>

(* What is recorded, and what is about to be executed, may be executed: the *)
(* limit that handleContinuations checks is the one ExecuteContinuation    *)
(* checks again, so that a test can run every record it gets.              *)
RecordsCanRun ==
  /\ \A level \in continuations : level + 1 <= MaxContinuationLevel
  /\ \A c \in Callers :
       pc[c] = "execute" => Top(c).level + 1 <= MaxContinuationLevel

(* c is in, or below, the loop of its i-th message's response.             *)
Looping(c, i) == i > 1 \/ pc[c] \in {"loop", "execute"}

(* Every continuation of a response that is not too deep is recorded, or   *)
(* is one of those over the limit, however callers interleave: at most the *)
(* limit are recorded, and all that are not are dropped.                   *)
NothingLost ==
  \A c \in Callers : \A i \in DOMAIN stack[c] : Looping(c, i) =>
    LET f == stack[c][i] IN
      /\ f.asked = f.recorded + f.dropped + f.todo
      /\ MaxPerResponse > 0 => f.recorded <= MaxPerResponse
      /\ f.dropped > 0 => f.recorded + f.todo = MaxPerResponse

(* A continuation is executed, once, if the mode was immediate when it was *)
(* recorded, and is not if it was not, even if the mode changes while a    *)
(* chain is executed.                                                      *)
ExecutedAsDue ==
  \A c \in Callers : \A i \in DOMAIN stack[c] :
    stack[c][i].due =
      stack[c][i].executed + IF i = 1 /\ pc[c] = "execute" THEN 1 ELSE 0

(* A call returns, although the extension may ask for continuations for    *)
(* ever.                                                                   *)
CallsReturn == \A c \in Callers : pc[c] # "idle" ~> pc[c] = "idle"
=============================================================================
