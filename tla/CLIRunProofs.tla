---------------------------- MODULE CLIRunProofs ----------------------------
(***************************************************************************)
(* Theorems about AdapterClients and CLIRun, for any number of callers,    *)
(* organizations, senders, messages and failures.                          *)
(***************************************************************************)
EXTENDS CLIRun, TLAPS

(* Neither of AdapterClients' two properties is inductive.  Closing a      *)
(* sender is safe because it belongs to the caller that closes it: what is *)
(* about to be registered is open, is not kept for any organization and    *)
(* is nobody else's.                                                       *)
KeptIsOpen == \A o \in Orgs : whClients[o] # NoClient => whClients[o] \in open

OwnsClient(c) ==
  /\ client[c] \in open
  /\ \A o \in Orgs : whClients[o] # client[c]
  /\ \A d \in Callers : at[d] = "register" /\ client[d] = client[c] => d = c

ClientsInv ==
  /\ ClientsTypeOK
  /\ KeptIsOpen
  /\ \A c \in Callers : at[c] = "register" => OwnsClient(c)
  /\ SendsThroughKept
  /\ NoLeakedClient

LEMMA LookupKeeps ==
  ASSUME ClientsInv, NEW c \in Callers, Lookup(c)
  PROVE  ClientsInv'
<1> USE DEF ClientsInv
<1>1. /\ at[c] = "lookup" /\ UNCHANGED <<whClients, open, oid>>
      /\ \A d \in Callers \ {c} : at'[d] = at[d] /\ client'[d] = client[d]
      /\ oid[c] \in Orgs
      /\ \/ /\ at'[c] = "send" /\ client'[c] = whClients[oid[c]]
            /\ whClients[oid[c]] # NoClient
         \/ at'[c] = "make"
  BY DEF Lookup, MoveTo, ClientsTypeOK
<1>2. ClientsTypeOK'
  BY <1>1 DEF Lookup, MoveTo, ClientsTypeOK, Steps
<1>3. KeptIsOpen'
  BY <1>1 DEF KeptIsOpen
<1>4. ASSUME NEW d \in Callers, at'[d] = "register"
      PROVE  OwnsClient(d)'
  BY <1>1, <1>4 DEF OwnsClient
<1>5. SendsThroughKept'
  BY <1>1 DEF SendsThroughKept, KeptIsOpen
<1>6. NoLeakedClient'
  BY <1>1 DEF NoLeakedClient
<1> QED BY <1>2, <1>3, <1>4, <1>5, <1>6

LEMMA MakeKeeps ==
  ASSUME ClientsInv, NEW c \in Callers, Make(c)
  PROVE  ClientsInv'
<1> USE DEF ClientsInv
<1>1. PICK new \in Unused : client' = [client EXCEPT ![c] = new]
                            /\ open' = open \cup {new}
  BY DEF Make
<1>2. /\ new \in Clients \ open
      /\ \A d \in Callers : client[d] # new
      /\ \A o \in Orgs : whClients[o] # new
  BY <1>1 DEF Unused
<1>3. /\ at[c] = "make" /\ at'[c] = "register" /\ client'[c] = new
      /\ UNCHANGED <<whClients, oid>>
      /\ \A d \in Callers \ {c} : at'[d] = at[d] /\ client'[d] = client[d]
  BY <1>1 DEF Make, MoveTo, ClientsTypeOK
<1>4. ClientsTypeOK'
  BY <1>1, <1>2 DEF Make, MoveTo, ClientsTypeOK, Steps
<1>5. KeptIsOpen'
  BY <1>1, <1>3 DEF KeptIsOpen
<1>6. ASSUME NEW d \in Callers, at'[d] = "register"
      PROVE  OwnsClient(d)'
  BY <1>1, <1>2, <1>3, <1>6 DEF OwnsClient
<1>7. SendsThroughKept'
  BY <1>1, <1>3 DEF SendsThroughKept
<1>8. NoLeakedClient'
  BY <1>1, <1>3 DEF NoLeakedClient
<1> QED BY <1>4, <1>5, <1>6, <1>7, <1>8

LEMMA LeaveKeeps ==
  ASSUME ClientsInv, NEW c \in Callers, MakeFails(c) \/ SendData(c)
  PROVE  ClientsInv'
<1> USE DEF ClientsInv
<1>1. /\ at[c] \in {"make", "send"} /\ at'[c] = "out"
      /\ UNCHANGED <<whClients, open, oid>>
      /\ \A d \in Callers \ {c} : at'[d] = at[d] /\ client'[d] = client[d]
  BY DEF MakeFails, SendData, Leave, MoveTo, ClientsTypeOK
<1>2. ClientsTypeOK'
  BY <1>1 DEF MakeFails, SendData, Leave, MoveTo, ClientsTypeOK, Steps
<1>3. KeptIsOpen'
  BY <1>1 DEF KeptIsOpen
<1>4. ASSUME NEW d \in Callers, at'[d] = "register"
      PROVE  OwnsClient(d)'
  BY <1>1, <1>4 DEF OwnsClient
<1>5. SendsThroughKept'
  BY <1>1 DEF SendsThroughKept
<1>6. NoLeakedClient'
  BY <1>1 DEF NoLeakedClient
<1> QED BY <1>2, <1>3, <1>4, <1>5, <1>6

LEMMA RegisterKeeps ==
  ASSUME ClientsInv, NEW c \in Callers, Register(c)
  PROVE  ClientsInv'
<1> USE DEF ClientsInv
<1> DEFINE k == client[c]
           o == oid[c]
<1>1. /\ at[c] = "register" /\ at'[c] = "send" /\ UNCHANGED oid
      /\ \A d \in Callers \ {c} : at'[d] = at[d] /\ client'[d] = client[d]
      /\ o \in Orgs /\ k \in Clients /\ OwnsClient(c)
  BY DEF Register, MoveTo, ClientsTypeOK
<1>2. ClientsTypeOK'
  <2>1. at' \in [Callers -> Steps] /\ oid' \in [Callers -> Orgs]
    BY DEF Register, MoveTo, ClientsTypeOK, Steps
  <2>2. /\ whClients' \in [Orgs -> Clients \cup {NoClient}]
        /\ open' \subseteq Clients
        /\ client' \in [Callers -> Clients \cup {NoClient}]
        /\ client'[c] \in Clients
    BY <1>1 DEF Register, ClientsTypeOK
  <2> QED BY <1>1, <2>1, <2>2 DEF ClientsTypeOK
<1>3. CASE whClients[o] = NoClient
  <2>1. /\ whClients' = [whClients EXCEPT ![o] = k]
        /\ UNCHANGED <<open, client>>
    BY <1>3 DEF Register
  <2>2. /\ whClients'[o] = k
        /\ \A x \in Orgs \ {o} : whClients'[x] = whClients[x]
    BY <1>1, <2>1 DEF ClientsTypeOK
  <2>3. KeptIsOpen'
    BY <1>1, <2>1, <2>2 DEF KeptIsOpen, OwnsClient
  <2>4. ASSUME NEW d \in Callers, at'[d] = "register"
        PROVE  OwnsClient(d)'
    <3>1. d # c /\ OwnsClient(d) /\ at[d] = "register" /\ client[d] # k
      BY <1>1, <2>4 DEF OwnsClient
    <3> QED BY <1>1, <2>1, <2>2, <3>1 DEF OwnsClient
  <2>5. SendsThroughKept'
    <3> SUFFICES ASSUME NEW d \in Callers, at'[d] = "send"
                 PROVE  client'[d] = whClients'[oid'[d]] /\ client'[d] \in open'
      BY DEF SendsThroughKept
    <3>1. CASE d = c
      BY <1>1, <2>1, <2>2, <3>1 DEF OwnsClient
    <3>2. CASE d # c
      <4>1. /\ at[d] = "send" /\ client[d] = whClients[oid[d]]
            /\ client[d] \in open /\ client[d] # NoClient /\ oid[d] \in Orgs
        BY <1>1, <3>2, ClientsOK DEF SendsThroughKept, ClientsTypeOK
      <4> QED BY <1>1, <1>3, <2>1, <2>2, <3>2, <4>1
    <3> QED BY <3>1, <3>2
  <2>6. NoLeakedClient'
    <3> SUFFICES ASSUME NEW j \in open
                 PROVE  \/ \E x \in Orgs : whClients'[x] = j
                        \/ \E d \in Callers : at'[d] = "register" /\ client'[d] = j
      BY <2>1 DEF NoLeakedClient
    <3>1. CASE j = k
      BY <1>1, <2>2, <3>1
    <3>2. CASE j # k /\ \E x \in Orgs : whClients[x] = j
      BY <1>3, <2>2, <3>2, ClientsOK DEF ClientsTypeOK
    <3>3. CASE j # k /\ \E d \in Callers : at[d] = "register" /\ client[d] = j
      BY <1>1, <2>1, <3>3
    <3> QED BY <3>1, <3>2, <3>3 DEF NoLeakedClient
  <2> QED BY <1>2, <2>3, <2>4, <2>5, <2>6
<1>4. CASE whClients[o] # NoClient
  <2>1. /\ open' = open \ {k}
        /\ client'[c] = whClients[o]
        /\ UNCHANGED whClients
    BY <1>4 DEF Register, ClientsTypeOK
  <2>2. KeptIsOpen'
    BY <1>1, <2>1 DEF KeptIsOpen, OwnsClient
  <2>3. ASSUME NEW d \in Callers, at'[d] = "register"
        PROVE  OwnsClient(d)'
    <3>1. d # c /\ OwnsClient(d) /\ at[d] = "register" /\ client[d] # k
      BY <1>1, <2>3 DEF OwnsClient
    <3> QED BY <1>1, <2>1, <3>1 DEF OwnsClient
  <2>4. SendsThroughKept'
    BY <1>1, <1>4, <2>1 DEF SendsThroughKept, KeptIsOpen, OwnsClient,
       ClientsTypeOK
  <2>5. NoLeakedClient'
    BY <1>1, <2>1 DEF NoLeakedClient
  <2> QED BY <1>2, <2>2, <2>3, <2>4, <2>5
<1> QED BY <1>3, <1>4

LEMMA CallKeeps ==
  ASSUME ClientsInv, NEW c \in Callers, NEW o \in Orgs, CallAdapter(c, o)
  PROVE  ClientsInv'
<1> USE DEF ClientsInv
<1>1. /\ at[c] = "out" /\ at'[c] = "lookup"
      /\ UNCHANGED <<whClients, open, client>>
      /\ \A d \in Callers \ {c} : at'[d] = at[d] /\ oid'[d] = oid[d]
  BY DEF CallAdapter, MoveTo, ClientsTypeOK
<1>2. ClientsTypeOK'
  BY <1>1 DEF CallAdapter, MoveTo, ClientsTypeOK, Steps
<1>3. KeptIsOpen'
  BY <1>1 DEF KeptIsOpen
<1>4. ASSUME NEW d \in Callers, at'[d] = "register"
      PROVE  OwnsClient(d)'
  BY <1>1, <1>4 DEF OwnsClient
<1>5. SendsThroughKept'
  BY <1>1 DEF SendsThroughKept
<1>6. NoLeakedClient'
  BY <1>1 DEF NoLeakedClient
<1> QED BY <1>2, <1>3, <1>4, <1>5, <1>6

LEMMA ForgetKeeps == ClientsInv /\ ForgetClients => ClientsInv'
BY DEF ForgetClients, ClientsInv, ClientsTypeOK, Steps, KeptIsOpen, OwnsClient,
   SendsThroughKept, NoLeakedClient

LEMMA ClientsInvCorrect == ClientsSpec => []ClientsInv
<1>1. ClientsInit => ClientsInv
  BY ClientsOK DEF ClientsInit, ClientsInv, ClientsTypeOK, Steps, KeptIsOpen,
     OwnsClient, SendsThroughKept, NoLeakedClient
<1>2. ClientsInv /\ [ClientsNext]_clients => ClientsInv'
  <2> SUFFICES ASSUME ClientsInv, [ClientsNext]_clients PROVE ClientsInv'
    OBVIOUS
  <2>1. CASE UNCHANGED clients
    BY <2>1 DEF clients, ClientsInv, ClientsTypeOK, KeptIsOpen, OwnsClient,
       SendsThroughKept, NoLeakedClient
  <2>2. CASE ClientsNext
    BY <2>2, LookupKeeps, MakeKeeps, LeaveKeeps, RegisterKeeps, CallKeeps,
       ForgetKeeps DEF ClientsNext, ClientStep
  <2> QED BY <2>1, <2>2
<1> QED BY <1>1, <1>2, PTL DEF ClientsSpec
-----------------------------------------------------------------------------
(* In CLIRun, the senders go through steps of AdapterClients: its process  *)
(* adds nothing that touches them but its own end.                         *)
LEMMA ClientSteps == [Next]_vars => [ClientsNext]_clients
<1> SUFFICES ASSUME Next PROVE [ClientsNext]_clients
  BY DEF vars
<1>1. ASSUME NEW h \in Callers, \/ Progress(h) \/ FailForNow(h) \/ Panic(h)
                                \/ StopFails(h) \/ LoseConnection(h)
      PROVE  [ClientsNext]_clients
  BY <1>1 DEF Progress, FailForNow, Panic, Refuse, Succeed, Fail, Executed,
     Log, Stop, HandleEvent, Reply, StopFails, LoseConnection, ClientsNext
<1>2. ASSUME \/ \E m \in Messages : Post(m) \/ \E h \in Callers : Deliver(h, m)
             \/ ListenFails \/ ListenFailsUnheard \/ PlatformStops \/ Crash
             \/ ReceiveSignal \/ Exit \/ GraceExpires \/ StartProcess
      PROVE  [ClientsNext]_clients
  BY <1>2 DEF Post, Deliver, ListenFails, ListenFailsUnheard, PlatformStops, Crash, ReceiveSignal,
     Exit, GraceExpires, StartProcess, ClientsNext
<1> QED BY <1>1, <1>2 DEF Next

(* CLIRun implements AdapterClients: what is proved of the senders holds   *)
(* of a process that commands, signals and crashes end at any step.        *)
THEOREM ClientsImplemented == Spec => ClientsSpec
<1>1. Init => ClientsInit
  BY DEF Init
<1> QED BY <1>1, ClientSteps, PTL DEF Spec, ClientsSpec

(* Nobody sends through a closed sender, or through one that is not the    *)
(* organization's, whatever the process does.                              *)
THEOREM SendsThroughKeptCorrect == Spec => []SendsThroughKept
<1>1. ClientsInv => SendsThroughKept
  BY DEF ClientsInv
<1> QED BY <1>1, ClientsImplemented, ClientsInvCorrect, PTL

(* No sender stays open that is neither kept nor about to be.              *)
THEOREM NoLeakedClientCorrect == Spec => []NoLeakedClient
<1>1. ClientsInv => NoLeakedClient
  BY DEF ClientsInv
<1> QED BY <1>1, ClientsImplemented, ClientsInvCorrect, PTL

-----------------------------------------------------------------------------
(* The process.                                                            *)

(* TypeOK without the part that ClientsInv has.                            *)
HandlerOK(h) ==
  /\ pc[h] = "free" <=> job[h] = None
  /\ h \in lost => pc[h] # "free"
  /\ pc[h] \in {"log", "stop"} => job[h] \in Commands
  /\ at[h] # "out" => pc[h] = "log"

ServerTypes ==
  /\ process \in {"serving", "draining", "gone"}
  /\ listener \in {"open", "failed", "deaf", "closed"}
  /\ signal \in BOOLEAN /\ told \in BOOLEAN
  /\ pc \in [Callers -> Labels]
  /\ job \in [Callers -> Messages \cup {None}]
  /\ answer \in [Callers -> Answers]
  /\ status \in [Messages -> {"new", "posted", "taken", "settled"}]
  /\ lost \subseteq Callers
  /\ stoppers \subseteq Callers /\ unsent \subseteq Callers
  /\ faults \in 0..MaxFaults
  /\ \A h \in Callers : HandlerOK(h)
  /\ process = "gone" => \A h \in Callers : pc[h] = "free"

(* While a process lives, those that sent it a signal are about to answer; *)
(* once it drains, or has a signal to receive, there is one of those, or   *)
(* something else told it to.                                              *)
ProcessInv ==
  /\ ServerTypes
  /\ process # "gone" => \A h \in stoppers : pc[h] = "reply"
  /\ process = "draining" \/ (signal /\ process = "serving") =>
       told \/ stoppers # {}

LEMMA FaultTypes == ServerTypes /\ Fault => faults' \in 0..MaxFaults
BY ConstantsOK DEF ServerTypes, Fault

(* A handler's step from a label that is not "reply", not the last one.    *)
LEMMA HandlerKeeps ==
  ASSUME ProcessInv, NEW h \in Callers, NEW l \in Labels \ {"free"},
         pc[h] \notin {"free", "reply"}, Goto(h, l), HandlerOK(h)',
         answer' \in [Callers -> Answers], faults' \in 0..MaxFaults,
         \A g \in Callers \ {h} : at'[g] = at[g],
         UNCHANGED <<process, listener, told, job, lost, status>>,
         unsent' \subseteq Callers,
         \/ UNCHANGED <<signal, stoppers>>
         \/ l = "reply" /\ signal' = TRUE /\ stoppers' = stoppers \cup {h}
  PROVE  ProcessInv'
<1>1. /\ pc' \in [Callers -> Labels] /\ pc'[h] = l
      /\ \A g \in Callers \ {h} : pc'[g] = pc[g]
      /\ process # "gone"
  BY DEF ProcessInv, ServerTypes, Goto
<1>2. \A g \in Callers : HandlerOK(g)'
  BY <1>1 DEF ProcessInv, ServerTypes, HandlerOK
<1>3. ServerTypes'
  BY <1>1, <1>2 DEF ProcessInv, ServerTypes
<1>4. CASE UNCHANGED <<signal, stoppers>>
  BY <1>1, <1>3, <1>4 DEF ProcessInv, ServerTypes
<1>5. CASE l = "reply" /\ signal' = TRUE /\ stoppers' = stoppers \cup {h}
  <2>1. stoppers' # {}
    BY <1>5
  <2> QED BY <1>1, <1>3, <1>5, <2>1 DEF ProcessInv, ServerTypes
<1> QED BY <1>4, <1>5

(* Whoever is interrupted is free.                                         *)
LEMMA CutTypes ==
  ASSUME ServerTypes, Cut(Busy)
  PROVE  /\ pc' = [h \in Callers |-> "free"]
         /\ job' = [h \in Callers |-> None]
         /\ answer' \in [Callers -> Answers]
         /\ lost' = {}
         /\ status' \in [Messages -> {"new", "posted", "taken", "settled"}]
<1>1. \A h \in Callers : h \in Busy \/ (pc[h] = "free" /\ job[h] = None)
  BY DEF Busy, ServerTypes, HandlerOK
<1>2. lost' = {}
  BY DEF Cut, Busy, ServerTypes, HandlerOK
<1>3. pc' = [h \in Callers |-> "free"] /\ job' = [h \in Callers |-> None]
  BY <1>1 DEF Cut
<1>4. answer' \in [Callers -> Answers]
  BY DEF Cut, ServerTypes, Answers
<1>5. status' \in [Messages -> {"new", "posted", "taken", "settled"}]
  BY DEF Cut, ServerTypes
<1> QED BY <1>2, <1>3, <1>4, <1>5

LEMMA ProgressKeeps ==
  ASSUME ProcessInv, ClientsTypeOK, NEW h \in Callers,
         \/ Progress(h) \/ FailForNow(h) \/ Panic(h)
         \/ StopFails(h) \/ LoseConnection(h)
  PROVE  ProcessInv'
<1> USE DEF Labels
<1>1. ServerTypes /\ HandlerOK(h)
  BY DEF ProcessInv, ServerTypes
<1>2. CASE Refuse(h) \/ Panic(h)
  <2>1. answer' \in [Callers -> Answers]
    BY <1>1, <1>2 DEF Refuse, Panic, ServerTypes, Answers
  <2>2. faults' \in 0..MaxFaults
    BY <1>1, <1>2, FaultTypes DEF Refuse, Panic, ServerTypes
  <2>3. /\ pc[h] = "exec" /\ Goto(h, "stop") /\ pc'[h] = "stop"
        /\ UNCHANGED <<server, job, lost, status, stoppers, unsent, at>> /\ job[h] \in Commands
    BY <1>1, <1>2 DEF Refuse, Panic, clients, history, Goto, ServerTypes
  <2>4. HandlerOK(h)'
    BY <1>1, <2>3 DEF HandlerOK
  <2> QED BY <1>1, <2>1, <2>2, <2>3, <2>4, HandlerKeeps DEF server, ServerTypes
<1>3. CASE Succeed(h) \/ Fail(h) \/ FailForNow(h)
  <2>1. PICK a \in Answers, o \in Orgs :
          /\ pc[h] = "exec" /\ job[h] \in Commands
          /\ Goto(h, "log")
          /\ answer' = [answer EXCEPT ![h] = a]
          /\ CallAdapter(h, o)
          /\ UNCHANGED <<server, job, lost, status, stoppers, unsent>>
    BY <1>3 DEF Succeed, Fail, FailForNow, Executed, AnswerTo, Answers, history
  <2>2. faults' \in 0..MaxFaults
    BY <1>1, <1>3, FaultTypes DEF Succeed, Fail, FailForNow, ServerTypes
  <2>3. answer' \in [Callers -> Answers]
    BY <1>1, <2>1 DEF ServerTypes
  <2>4. \A g \in Callers \ {h} : at'[g] = at[g]
    BY <2>1 DEF CallAdapter, MoveTo, ClientsTypeOK
  <2>5. pc'[h] = "log" /\ job'[h] = job[h]
    BY <1>1, <2>1 DEF Goto, ServerTypes
  <2>6. HandlerOK(h)'
    BY <1>1, <2>1, <2>5 DEF HandlerOK
  <2> QED BY <1>1, <2>1, <2>2, <2>3, <2>4, <2>6, HandlerKeeps DEF server, ServerTypes
<1>4. CASE Log(h)
  <2> DEFINE l == IF at'[h] = "out" THEN "stop" ELSE "log"
  <2>1. /\ pc[h] = "log" /\ Goto(h, l) /\ l \in Labels \ {"free"}
        /\ UNCHANGED <<server, job, answer, lost, status, stoppers, unsent, faults>>
    BY <1>4 DEF Log, history
  <2>2. \A g \in Callers \ {h} : at'[g] = at[g]
    BY <1>4 DEF Log, ClientStep, Lookup, Make, MakeFails, Register, SendData,
       Leave, MoveTo, ClientsTypeOK
  <2>3. pc'[h] = l /\ job'[h] = job[h]
    BY <1>1, <2>1 DEF Goto, ServerTypes
  <2>4. HandlerOK(h)'
    BY <1>1, <2>1, <2>3 DEF HandlerOK
  <2> HIDE DEF l
  <2> QED BY <1>1, <2>1, <2>2, <2>4, HandlerKeeps DEF server, ServerTypes
<1>5. CASE Stop(h)
  <2>1. HandlerOK(h)'
    BY <1>1, <1>5 DEF Stop, Goto, HandlerOK, ServerTypes, clients
  <2> QED BY <1>1, <1>5, <2>1, HandlerKeeps DEF Stop, Notify, ServerTypes, clients
<1>6. CASE HandleEvent(h)
  <2>1. HandlerOK(h)'
    BY <1>1, <1>6 DEF HandleEvent, Goto, HandlerOK, ServerTypes, clients
  <2>2. answer' \in [Callers -> Answers] /\ faults' \in 0..MaxFaults
    BY <1>1, <1>6, FaultTypes DEF HandleEvent, ServerTypes, Answers
  <2> QED BY <1>1, <1>6, <2>1, <2>2, HandlerKeeps
          DEF HandleEvent, server, history, clients, ServerTypes
<1>7. CASE Reply(h)
  <2>1. /\ pc[h] = "reply" /\ pc'[h] = "free" /\ job'[h] = None
        /\ \A g \in Callers \ {h} : pc'[g] = pc[g] /\ job'[g] = job[g]
        /\ told' = (told \/ h \in stoppers) /\ stoppers' = stoppers \ {h}
        /\ lost' = lost \ {h} /\ unsent' = unsent \ {h}
        /\ UNCHANGED <<process, listener, signal, faults, at>>
    BY <1>1, <1>7 DEF Reply, Goto, ServerTypes, clients
  <2>2. /\ pc' \in [Callers -> Labels]
        /\ job' \in [Callers -> Messages \cup {None}]
        /\ answer' \in [Callers -> Answers]
        /\ status' \in [Messages -> {"new", "posted", "taken", "settled"}]
    BY <1>1, <1>7 DEF Reply, Goto, ServerTypes, Answers
  <2>3. \A g \in Callers : HandlerOK(g)'
    BY <1>1, <2>1 DEF ServerTypes, HandlerOK
  <2> QED BY <2>1, <2>2, <2>3 DEF ProcessInv, ServerTypes
<1>8. CASE StopFails(h)
  <2>1. HandlerOK(h)' /\ faults' \in 0..MaxFaults
    BY <1>1, <1>8, FaultTypes DEF StopFails, Goto, HandlerOK, ServerTypes, clients
  <2> QED BY <1>1, <1>8, <2>1, HandlerKeeps DEF StopFails, server, ServerTypes, clients
<1>9. CASE LoseConnection(h)
  <2>1. /\ pc[h] # "free" /\ lost' = lost \cup {h} /\ faults' \in 0..MaxFaults
        /\ UNCHANGED <<server, pc, job, answer, history, at>>
    BY <1>1, <1>9, FaultTypes DEF LoseConnection, clients
  <2>2. status' \in [Messages -> {"new", "posted", "taken", "settled"}]
    BY <1>1, <1>9 DEF LoseConnection, ServerTypes
  <2>3. \A g \in Callers : HandlerOK(g)'
    BY <1>1, <2>1 DEF ServerTypes, HandlerOK
  <2> QED BY <2>1, <2>2, <2>3 DEF ProcessInv, ServerTypes, server, history
<1> QED BY <1>2, <1>3, <1>4, <1>5, <1>6, <1>7, <1>8, <1>9 DEF Progress

LEMMA BackendKeeps ==
  ASSUME ProcessInv, NEW m \in Messages,
         Post(m) \/ \E h \in Callers : Deliver(h, m)
  PROVE  ProcessInv'
<1>1. CASE Post(m)
  BY <1>1 DEF Post, ProcessInv, ServerTypes, HandlerOK, server, handlers, history,
     clients
<1>2. ASSUME NEW h \in Callers, Deliver(h, m)
      PROVE  ProcessInv'
  <2>1. /\ pc[h] = "free" /\ pc'[h] = "exec" /\ job'[h] = m
        /\ \A g \in Callers \ {h} : pc'[g] = pc[g] /\ job'[g] = job[g]
        /\ UNCHANGED <<server, answer, lost, stoppers, unsent, faults, at>>
        /\ process = "serving"
    BY <1>2 DEF Deliver, Goto, ProcessInv, ServerTypes, history, clients
  <2>2. /\ pc' \in [Callers -> Labels]
        /\ job' \in [Callers -> Messages \cup {None}]
        /\ status' \in [Messages -> {"new", "posted", "taken", "settled"}]
    BY <1>2 DEF Deliver, Goto, ProcessInv, ServerTypes, Labels
  <2>3. \A g \in Callers : HandlerOK(g)'
    BY <2>1, ConstantsOK DEF ProcessInv, ServerTypes, HandlerOK
  <2> QED BY <2>1, <2>2, <2>3 DEF ProcessInv, ServerTypes, server
<1> QED BY <1>1, <1>2

LEMMA ServerKeeps ==
  ASSUME ProcessInv,
         \/ ListenFails \/ ListenFailsUnheard \/ PlatformStops \/ Crash
         \/ ReceiveSignal \/ Exit \/ GraceExpires \/ StartProcess
  PROVE  ProcessInv'
<1>1. CASE ListenFails \/ ListenFailsUnheard \/ PlatformStops
  <2>1. faults' \in 0..MaxFaults
    BY <1>1, FaultTypes DEF ListenFails, ListenFailsUnheard, PlatformStops, ProcessInv
  <2>2. /\ UNCHANGED <<process, handlers, status, history, at>>
        /\ listener' \in {"open", "failed", "deaf", "closed"}
    BY <1>1 DEF ListenFails, ListenFailsUnheard, PlatformStops, ProcessInv,
       ServerTypes, clients
  <2>3. (signal' = TRUE /\ told' = TRUE) \/ UNCHANGED <<signal, told>>
    BY <1>1 DEF ListenFails, ListenFailsUnheard, PlatformStops, Notify
  <2>4. signal' \in BOOLEAN /\ told' \in BOOLEAN
    BY <2>3 DEF ProcessInv, ServerTypes
  <2>5. \A h \in Callers : HandlerOK(h)'
    BY <2>2 DEF ProcessInv, ServerTypes, HandlerOK, handlers
  <2> QED BY <2>1, <2>2, <2>3, <2>4, <2>5 DEF ProcessInv, ServerTypes, handlers,
          history
<1>2. CASE ReceiveSignal
  BY <1>2 DEF ReceiveSignal, ProcessInv, ServerTypes, HandlerOK, handlers,
     history, clients
<1>3. CASE Exit
  BY <1>3 DEF Exit, ForgetClients, Busy, ProcessInv, ServerTypes, HandlerOK,
     handlers, history
<1>4. CASE Crash \/ GraceExpires
  <2>1. /\ Cut(Busy) /\ process' = "gone" /\ at' = [c \in Callers |-> "out"]
        /\ told' \in BOOLEAN /\ UNCHANGED <<listener, signal, stoppers, unsent>>
    BY <1>4 DEF Crash, GraceExpires, ForgetClients, ProcessInv, ServerTypes, history
  <2>2. faults' \in 0..MaxFaults
    BY <1>4, FaultTypes DEF Crash, GraceExpires, ProcessInv, ServerTypes
  <2>3. \A h \in Callers : HandlerOK(h)'
    BY <2>1, CutTypes DEF ProcessInv, HandlerOK
  <2>4. /\ pc' \in [Callers -> Labels]
        /\ job' \in [Callers -> Messages \cup {None}]
    BY <2>1, CutTypes DEF ProcessInv, Labels
  <2> QED BY <2>1, <2>2, <2>3, <2>4, CutTypes DEF ProcessInv, ServerTypes
<1>5. CASE StartProcess
  BY <1>5 DEF StartProcess, ProcessInv, ServerTypes, HandlerOK, handlers, clients
<1> QED BY <1>1, <1>2, <1>3, <1>4, <1>5

LEMMA ProcessInvCorrect == Spec => []ProcessInv
<1>1. Init => ProcessInv
  <2> SUFFICES ASSUME Init PROVE ProcessInv
    OBVIOUS
  <2>1. \A h \in Callers : HandlerOK(h)
    BY DEF Init, ClientsInit, HandlerOK
  <2>2. /\ pc \in [Callers -> Labels]
        /\ job \in [Callers -> Messages \cup {None}]
        /\ answer \in [Callers -> Answers]
        /\ status \in [Messages -> {"new", "posted", "taken", "settled"}]
    BY DEF Init, Labels, Answers
  <2>3. faults \in 0..MaxFaults
    BY ConstantsOK DEF Init
  <2>4. ServerTypes
    BY <2>1, <2>2, <2>3 DEF Init, ServerTypes
  <2> QED BY <2>4 DEF Init, ProcessInv
<1>2. ProcessInv /\ ClientsInv /\ [Next]_vars => ProcessInv'
  <2> SUFFICES ASSUME ProcessInv, ClientsInv, [Next]_vars PROVE ProcessInv'
    OBVIOUS
  <2>1. CASE UNCHANGED vars
    BY <2>1 DEF vars, server, handlers, history, clients, ProcessInv, ServerTypes,
       HandlerOK
  <2>2. CASE Next
    BY <2>2, ProgressKeeps, BackendKeeps, ServerKeeps DEF Next, ClientsInv
  <2> QED BY <2>1, <2>2
<1> QED BY <1>1, <1>2, ClientsImplemented, ClientsInvCorrect, PTL DEF Spec

(* Type correctness: nothing is in progress in a process that is gone, and *)
(* only a handler that logs is inside the adapter's client.                *)
THEOREM TypeCorrect == Spec => []TypeOK
<1>1. ProcessInv /\ ClientsInv => TypeOK
  BY DEF ProcessInv, ServerTypes, HandlerOK, ClientsInv, TypeOK
<1> QED BY <1>1, ProcessInvCorrect, ClientsImplemented, ClientsInvCorrect, PTL

(* No command is cut off by the stop that it requested itself, for any     *)
(* number of handlers in one process.                                      *)
THEOREM CutOnlyByOthersCorrect == Spec => CutOnlyByOthers
<1> DEFINE A == \A h \in Callers :
                  pc[h] # "free" /\ process' = "gone" /\ process # "gone" =>
                    told' \/ stoppers \ {h} # {}
<1>1. ProcessInv /\ [Next]_vars => A
  <2> SUFFICES ASSUME ProcessInv, [Next]_vars, NEW h \in Callers,
                      pc[h] # "free", process' = "gone", process # "gone"
               PROVE  told' \/ stoppers \ {h} # {}
    OBVIOUS
  <2>1. Crash \/ Exit \/ GraceExpires
    BY DEF Next, vars, server, Progress, FailForNow, Panic, Refuse, Succeed,
       Fail, Executed, Log, Stop, HandleEvent, Reply, StopFails,
       LoseConnection, Post, Deliver,
       ListenFails, ListenFailsUnheard, PlatformStops, ReceiveSignal, StartProcess
  <2>2. ~Exit
    BY DEF Exit, Busy
  <2>3. CASE Crash
    BY <2>3 DEF Crash
  <2>4. CASE GraceExpires
    BY <2>4 DEF GraceExpires, ProcessInv
  <2> QED BY <2>1, <2>2, <2>3, <2>4
<1>2. ProcessInv /\ [Next]_vars => [A]_vars
  BY <1>1
<1>3. Spec => [][A]_vars
  BY <1>2, ProcessInvCorrect, PTL DEF Spec
<1> QED BY <1>3 DEF CutOnlyByOthers

-----------------------------------------------------------------------------
(* What the liveness of CLIRun rests on: no request to stop is lost.       *)

(* The channel holds one signal, and a second one is dropped: whoever has  *)
(* asked the process to stop, a handler that has yet to answer for its     *)
(* command included, it has a signal to receive, or has received one; only *)
(* a signal that could not be sent is missing.                             *)
NoStopIsLost ==
  process = "serving"
  /\ \/ told \/ stoppers # {} \/ listener = "failed"
     \/ \E h \in Callers : pc[h] = "reply" /\ job[h] \in Commands /\ h \notin unsent
  => signal

(* Inductive: every command's handler has asked when it gets to answer.    *)
StopsInv ==
  /\ process = "serving" /\ (told \/ stoppers # {} \/ listener = "failed") => signal
  /\ \A h \in Callers : pc[h] = "reply" /\ job[h] \in Commands =>
       h \in stoppers \cup unsent

LEMMA HandlersStop ==
  ASSUME ServerTypes, StopsInv, NEW h \in Callers,
         \/ Progress(h) \/ FailForNow(h) \/ Panic(h)
         \/ StopFails(h) \/ LoseConnection(h)
  PROVE  StopsInv'
<1>0. /\ pc \in [Callers -> Labels] /\ job \in [Callers -> Messages \cup {None}]
      /\ signal \in BOOLEAN
  BY DEF ServerTypes
<1>1. CASE Stop(h)
  <2>1. /\ signal' /\ stoppers' = stoppers \cup {h} /\ UNCHANGED <<job, unsent>>
        /\ \A g \in Callers \ {h} : pc'[g] = pc[g]
    BY <1>0, <1>1 DEF Stop, Notify, Goto
  <2> QED BY <2>1 DEF StopsInv
<1>2. CASE Reply(h)
  <2>1. /\ pc'[h] = "free" /\ \A g \in Callers \ {h} : pc'[g] = pc[g] /\ job'[g] = job[g]
        /\ told' = (told \/ h \in stoppers) /\ stoppers' = stoppers \ {h}
        /\ unsent' = unsent \ {h} /\ UNCHANGED <<process, listener, signal>>
    BY <1>0, <1>2 DEF Reply, Goto
  <2> QED BY <2>1 DEF StopsInv
<1>3. CASE StopFails(h)
  <2>1. /\ UNCHANGED <<server, job, stoppers>> /\ unsent' = unsent \cup {h}
        /\ \A g \in Callers \ {h} : pc'[g] = pc[g]
    BY <1>0, <1>3 DEF StopFails, Goto
  <2> QED BY <2>1 DEF StopsInv, server
<1>4. CASE LoseConnection(h)
  BY <1>4 DEF LoseConnection, StopsInv, server, history
<1>5. CASE /\ ~Stop(h) /\ ~Reply(h)
           /\ Progress(h) \/ FailForNow(h) \/ Panic(h)
  <2>1. /\ UNCHANGED <<server, job, stoppers, unsent>>
        /\ \A g \in Callers \ {h} : pc'[g] = pc[g]
        /\ pc'[h] = "reply" => job[h] \in Events
    BY <1>0, <1>5 DEF Progress, FailForNow, Panic, Refuse, Succeed, Fail,
       Executed, Log, HandleEvent, Goto, history
  <2>2. pc'[h] = "reply" => job[h] \notin Commands
    BY <2>1, ConstantsOK
  <2> QED BY <2>1, <2>2 DEF StopsInv, server
<1> QED BY <1>1, <1>2, <1>3, <1>4, <1>5

LEMMA OthersStop ==
  ASSUME ServerTypes, StopsInv,
         \/ \E m \in Messages : Post(m) \/ \E h \in Callers : Deliver(h, m)
         \/ ListenFails \/ ListenFailsUnheard \/ PlatformStops \/ Crash
         \/ ReceiveSignal \/ Exit \/ GraceExpires \/ StartProcess
  PROVE  StopsInv'
<1>0. /\ pc \in [Callers -> Labels] /\ job \in [Callers -> Messages \cup {None}]
  BY DEF ServerTypes
<1>1. CASE \E m \in Messages : Post(m)
  BY <1>1 DEF Post, server, handlers, history, StopsInv
<1>2. ASSUME NEW m \in Messages, NEW h \in Callers, Deliver(h, m)
      PROVE  StopsInv'
  <2>1. /\ pc'[h] = "exec" /\ \A g \in Callers \ {h} : pc'[g] = pc[g] /\ job'[g] = job[g]
        /\ UNCHANGED <<server, stoppers, unsent>>
    BY <1>0, <1>2 DEF Deliver, Goto, history
  <2> QED BY <2>1 DEF StopsInv, server
<1>3. CASE ListenFails \/ ListenFailsUnheard \/ PlatformStops
  BY <1>3 DEF ListenFails, ListenFailsUnheard, PlatformStops, Notify, handlers,
     history, StopsInv
<1>4. CASE Crash \/ GraceExpires
  <2>1. process' = "gone" /\ \A h \in Callers : pc'[h] = "free"
    BY <1>4, CutTypes DEF Crash, GraceExpires
  <2> QED BY <2>1 DEF StopsInv
<1>5. CASE ReceiveSignal \/ Exit
  BY <1>5 DEF ReceiveSignal, Exit, handlers, history, StopsInv
<1>6. CASE StartProcess
  BY <1>6 DEF StartProcess, handlers, StopsInv, ServerTypes
<1> QED BY <1>1, <1>2, <1>3, <1>4, <1>5, <1>6

(* Every request to stop reaches the process: of any number of commands    *)
(* that end beside each other, of a failed listener and of Cloud Run, none *)
(* whose signal was sent is lost for the one already in the channel.  With *)
(* the fairness of ReceiveSignal, this is why such a process ends.         *)
THEOREM NoStopIsLostCorrect == Spec => []NoStopIsLost
<1>1. Init => StopsInv
  BY DEF Init, StopsInv
<1>2. ProcessInv /\ StopsInv /\ [Next]_vars => StopsInv'
  <2> SUFFICES ASSUME ProcessInv, StopsInv, [Next]_vars PROVE StopsInv'
    OBVIOUS
  <2>1. CASE UNCHANGED vars
    BY <2>1 DEF vars, server, handlers, history, StopsInv
  <2>2. CASE Next
    BY <2>2, HandlersStop, OthersStop DEF Next, ProcessInv
  <2> QED BY <2>1, <2>2
<1>3. StopsInv => NoStopIsLost
  BY DEF StopsInv, NoStopIsLost
<1> QED BY <1>1, <1>2, <1>3, ProcessInvCorrect, PTL DEF Spec
=============================================================================
