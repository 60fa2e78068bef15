------------------------------ MODULE OmxProofs ------------------------------
(***************************************************************************)
(* Safety of the OMX component for every number of buffers and commands:   *)
(* no buffer is lost or handed over twice, a flush gives every buffer      *)
(* back, and no assertion fails for a careful client.                      *)
(***************************************************************************)
EXTENDS OmxComponent, FiniteSetTheorems, FunctionTheorems, SequenceTheorems, TLAPS

\* The fields of tasks, and when two are the same.
LEMMA TaskIs ==
  /\ \A c, a : Command(c, a).cmd = c /\ Command(c, a).arg = a
  /\ \A n : FenceTask(n).cmd = "fence" /\ FenceTask(n).fence = n
  /\ \A c, a, d, e : Command(c, a) = Command(d, e) <=> c = d /\ a = e
  BY DEF Command, FenceTask

\* What a task of each kind is.
LEMMA KindsOfTasks ==
  /\ NoCommand.cmd = "none" /\ Quit.cmd = "quit" /\ FromDecoder.cmd = "SetState"
  /\ FromDecoder.arg = "Invalid" /\ FromDecoder \notin ClientOrders
  /\ \A t \in ClientOrders : t.cmd \in {"SetState", "Flush", "DisablePort", "EnablePort"}
  /\ \A t \in ClientOrders : t.cmd = "SetState" => t.arg \in States \ {"Invalid"}
  /\ \A t \in ClientOrders : t.cmd # "SetState" => t.arg \in Ports
  /\ \A S : \A t \in BufferTasks(S) :
        t.cmd = "Buffer" /\ t.arg \in S /\ t = Command("Buffer", t.arg)
  /\ \A S : \A b \in S : Command("Buffer", b) \in BufferTasks(S)
  /\ \A t \in Fences : t.cmd = "fence"
  /\ \A t \in ClientOrders : t = Command(t.cmd, t.arg)
  BY TaskIs DEF NoCommand, Quit, FromDecoder, ClientOrders, BufferTasks, Fences, States

\* The head and the rest of a queue.
LEMMA QueueHead ==
  ASSUME NEW S, NEW q \in Seq(S), q # <<>>
  PROVE  /\ Len(q) \in Nat /\ Len(q) > 0 /\ DOMAIN q = 1 .. Len(q)
         /\ Head(q) = q[1] /\ Head(q) \in S
         /\ Tail(q) \in Seq(S) /\ Len(Tail(q)) = Len(q) - 1
         /\ DOMAIN Tail(q) = 1 .. Len(q) - 1
         /\ \A i \in 1 .. Len(q) - 1 : Tail(q)[i] = q[i + 1]
  BY HeadTailProperties, EmptySeq, LenProperties

\* A queue with one more element at its end.
LEMMA QueueEnd ==
  ASSUME NEW S, NEW q \in Seq(S), NEW x \in S
  PROVE  /\ Len(q) \in Nat /\ DOMAIN q = 1 .. Len(q)
         /\ Append(q, x) \in Seq(S) /\ DOMAIN Append(q, x) = 1 .. Len(q) + 1
         /\ Len(Append(q, x)) = Len(q) + 1
         /\ \A i \in 1 .. Len(q) : Append(q, x)[i] = q[i]
         /\ Append(q, x)[Len(q) + 1] = x
  BY AppendProperties, LenProperties

\* The two ports and their buffers.
LEMMA PortsAre ==
  /\ Ports = {"in", "out"} /\ OfPort("in") = InBuffers /\ OfPort("out") = OutBuffers
  /\ InBuffers \cap OutBuffers = {} /\ Buffers = InBuffers \cup OutBuffers
  /\ None \notin Buffers
  /\ \A b \in Buffers : PortOf(b) \in Ports /\ b \in OfPort(PortOf(b))
  /\ \A p \in Ports : OfPort(p) \subseteq Buffers /\ \A b \in OfPort(p) : PortOf(b) = p
  BY OmxAssumption DEF Ports, OfPort, PortOf, Buffers

\* The steps of the component, by actor.
ClientActs == Commands \/ Data \/ Allocation
WorkerActs == \E p \in Ports : Worker(p)

\* Every step is one of an actor, or the component stands still.
LEMMA NextCases == Next => (Running /\ (ClientActs \/ Decoder \/ Main \/ WorkerActs)) \/ UNCHANGED vars
  BY DEF Next, ClientActs, WorkerActs, Ended

\* The client changes the queue of commands and its own state; it opens, fills and empties ports.
LEMMA ClientFrame ==
  ASSUME ClientActs
  PROVE  UNCHANGED <<state, pause, main, worker, mod, crash>>
  <1>1. CASE Commands
    BY <1>1 DEF Commands, SendState, SendFlush, SendDisable, SendEnable, Send
  <1>2. CASE Data
    BY <1>2 DEF Data, GiveBuffer
  <1>3. CASE Allocation
    BY <1>3 DEF Allocation, AllocateBuffer, FreeBuffer
  <1> QED BY <1>1, <1>2, <1>3 DEF ClientActs

\* The decoder gives buffers back, or fails.
LEMMA DecoderFrame ==
  ASSUME Decoder
  PROVE  UNCHANGED <<state, transientState, port, pause, main, worker>>
  BY DEF Decoder, Consume, Display, EndOfStream, DecoderFails

\* A worker takes and treats the tasks of its queue.
LEMMA WorkerFrame ==
  ASSUME WorkerActs
  PROVE  UNCHANGED <<state, transientState, port, pause, mainQ, main, faults>>
  BY DEF WorkerActs, Worker, TakeTask, TreatBuffer, PassFence

\* The state of the component changes at the end of a command only.
LEMMA MainFrame ==
  ASSUME Main
  PROVE  /\ state' = state \/ Complete \/ BecomeInvalid
         /\ mainQ' = mainQ \/ Forward \/ StartCommand
         /\ UNCHANGED pause \/ StartCommand \/ Complete \/ FlushComplete
         /\ UNCHANGED worker \/ Forward \/ StartCommand \/ JoinFill \/ JoinEmpty
               \/ Complete \/ FlushComplete
         /\ UNCHANGED mod \/ CreateModule \/ DestroyModule \/ RunModule \/ StopModule
               \/ StopInvalid \/ FlushModule
         /\ UNCHANGED crash \/ DestroyModule \/ Complete \/ FlushComplete
  BY DEF Main, Forward, StartCommand, JoinFill, JoinEmpty, RefuseTransition, StartPopulating,
         Populate, CreateModule, DestroyModule, Unpopulate, RunModule, StopModule,
         OtherTransition, Complete, StopInvalid, BecomeInvalid, FlushModule, FlushComplete,
         DisablePort, EnablePort

\* The type of the queues of a port, after one more or one less task.
LEMMA WorkerTyped ==
  ASSUME NEW p \in Ports, TaskTypes,
         NEW w, w \in [queue : Seq(Tasks), delete : BOOLEAN, busy : Tasks, ended : BOOLEAN],
         w.queue \in Seq(BufferTasks(OfPort(p)) \cup Fences \cup {Quit}),
         w.busy \in BufferTasks(OfPort(p)) \cup Fences \cup {NoCommand},
         worker' = [worker EXCEPT ![p] = w]
  PROVE  /\ worker' \in [Ports -> [queue : Seq(Tasks), delete : BOOLEAN, busy : Tasks, ended : BOOLEAN]]
         /\ \A r \in Ports :
              /\ worker'[r].queue \in Seq(BufferTasks(OfPort(r)) \cup Fences \cup {Quit})
              /\ worker'[r].busy \in BufferTasks(OfPort(r)) \cup Fences \cup {NoCommand}
  BY DEF TaskTypes
Types == TypeOK /\ TaskTypes

PortTypes ==
  port \in [Ports -> [enable : BOOLEAN, playable : BOOLEAN, error : BOOLEAN,
                      toEnable : BOOLEAN, toDisable : BOOLEAN, buffers : SUBSET Buffers]]
ClientTypes ==
  client \in [held : SUBSET Buffers, pending : Orders, eos : InBuffers \cup {None},
              before : SUBSET Buffers, sent : 0 .. MaxCommands]
ModTypes ==
  mod \in [created : BOOLEAN, decoder : BOOLEAN, in : SUBSET InBuffers,
           out : SUBSET OutBuffers, eosIn : InBuffers \cup {None},
           eosOut : OutBuffers \cup {None}]
MainQTypes == mainQ \in Seq(ClientOrders \cup {FromDecoder} \cup BufferTasks(Buffers))
MainTypes == main \in [pc : MainPlaces, task : ClientOrders \cup {FromDecoder, NoCommand}]
WorkerTypes ==
  /\ worker \in [Ports -> [queue : Seq(Tasks), delete : BOOLEAN, busy : Tasks, ended : BOOLEAN]]
  /\ \A p \in Ports :
        /\ worker[p].queue \in Seq(BufferTasks(OfPort(p)) \cup Fences \cup {Quit})
        /\ worker[p].busy \in BufferTasks(OfPort(p)) \cup Fences \cup {NoCommand}
OwnBuffers == \A p \in Ports : port[p].buffers \subseteq OfPort(p)
SmallTypes ==
  /\ state \in States /\ transientState \in {NoTransition} \cup (States \X States)
  /\ pause \in [on : BOOLEAN, n : 0 .. 2 * MaxCommands]
  /\ crash \in {"no", "assert", "null"} /\ faults \in 0 .. MaxFaults

\* The kinds of tasks, as sets.
LEMMA TaskSets ==
  /\ ClientOrders \subseteq Orders /\ FromDecoder \in Orders /\ NoCommand \in Orders
  /\ Quit \in Tasks /\ NoCommand \in Tasks /\ Fences \subseteq Tasks
  /\ \A S : S \subseteq Buffers => BufferTasks(S) \subseteq Tasks
  /\ Orders = ClientOrders \cup {FromDecoder, NoCommand}
  /\ "Invalid" \in States
  BY DEF ClientOrders, Orders, FromDecoder, Tasks, Fences, BufferTasks, States

\* The types, one variable after the other.
LEMMA TypesSplit ==
  Types <=> /\ PortTypes /\ ClientTypes /\ ModTypes /\ MainQTypes /\ MainTypes /\ WorkerTypes
            /\ OwnBuffers /\ SmallTypes
  <1>1. ASSUME Types
        PROVE  /\ PortTypes /\ ClientTypes /\ ModTypes /\ MainQTypes /\ MainTypes /\ WorkerTypes
               /\ OwnBuffers /\ SmallTypes
    BY <1>1 DEF Types, TypeOK, TaskTypes, PortTypes, ClientTypes, ModTypes, MainQTypes, MainTypes,
       WorkerTypes, OwnBuffers, SmallTypes
  <1>2. ASSUME PortTypes, ClientTypes, ModTypes, MainQTypes, MainTypes, WorkerTypes,
               OwnBuffers, SmallTypes
        PROVE  Types
    <2>1. TaskTypes
      BY <1>2 DEF TaskTypes, PortTypes, MainQTypes, MainTypes, WorkerTypes
    <2>2. mainQ \in Seq(Orders \cup Tasks)
      <3>1. ClientOrders \cup {FromDecoder} \cup BufferTasks(Buffers) \subseteq Orders \cup Tasks
        BY TaskSets
      <3> QED BY <3>1, <1>2 DEF MainQTypes
    <2>3. main.task \in Orders
      BY <1>2, TaskSets DEF MainTypes
    <2>4. \A p \in Ports :
          /\ port[p] \in [enable : BOOLEAN, playable : BOOLEAN, error : BOOLEAN,
                          toEnable : BOOLEAN, toDisable : BOOLEAN, buffers : SUBSET OfPort(p)]
          /\ worker[p] \in [queue : Seq(Tasks), delete : BOOLEAN, busy : Tasks, ended : BOOLEAN]
      BY <1>2 DEF PortTypes, OwnBuffers, WorkerTypes
    <2> QED BY <1>2, <2>1, <2>2, <2>3, <2>4 DEF Types, TypeOK, ClientTypes, ModTypes, SmallTypes
  <1> QED BY <1>1, <1>2

\* The same after a step.
LEMMA TypesJoin ==
  Types' <=> /\ PortTypes' /\ ClientTypes' /\ ModTypes' /\ MainQTypes' /\ MainTypes' /\ WorkerTypes'
             /\ OwnBuffers' /\ SmallTypes'
  BY TypesSplit, PTL

\* Done keeps the type of the client ...
ClientRecords ==
  [held : SUBSET Buffers, pending : Orders, eos : InBuffers \cup {None},
   before : SUBSET Buffers, sent : 0 .. MaxCommands]

\* ... with the buffers it is given back,
LEMMA DoneTyped ==
  ASSUME ClientTypes, NEW S \in SUBSET Buffers
  PROVE  Done(client, S) \in ClientRecords
  BY DEF ClientTypes, ClientRecords, Done

\* ... and when its command is over.
LEMMA AnsweredTyped ==
  ASSUME NEW c \in ClientRecords
  PROVE  Answered(c) \in ClientRecords
  BY TaskSets DEF ClientRecords, Answered

\* The port of a step keeps its type.
PortRecords ==
  [enable : BOOLEAN, playable : BOOLEAN, error : BOOLEAN,
   toEnable : BOOLEAN, toDisable : BOOLEAN, buffers : SUBSET Buffers]

\* A port may change to one that holds its own buffers.
LEMMA PortTyped ==
  ASSUME PortTypes, OwnBuffers, NEW p \in Ports, NEW q \in PortRecords,
         q.buffers \subseteq OfPort(p), port' = [port EXCEPT ![p] = q]
  PROVE  PortTypes' /\ OwnBuffers'
  BY DEF PortTypes, OwnBuffers, PortRecords

\* Every step of the client keeps the types.
LEMMA SendTyped ==
  ASSUME Types, NEW cmd, NEW arg, Command(cmd, arg) \in ClientOrders, Send(cmd, arg),
         PortTypes' /\ OwnBuffers',
         transientState' \in {NoTransition} \cup (States \X States)
  PROVE  Types'
  <1>2. ClientTypes'
    <2>1. (UNION {port[r].buffers : r \in Ports}) \ client.held \in SUBSET Buffers
      BY TypesSplit DEF PortTypes
    <2> DEFINE B == IF cmd = "Flush" \/ (cmd = "SetState" /\ arg = "Idle")
                    THEN (UNION {port[r].buffers : r \in Ports}) \ client.held ELSE client.before
    <2>2. B \in SUBSET Buffers
      BY <2>1, TypesSplit DEF ClientTypes
    <2>3. client' = [client EXCEPT !.pending = Command(cmd, arg), !.sent = @ + 1, !.before = B]
          /\ client.sent < MaxCommands
      BY DEF Send
    <2>4. client.sent + 1 \in 0 .. MaxCommands
      BY <2>3, TypesSplit, OmxAssumption DEF ClientTypes
    <2> HIDE DEF B
    <2> QED BY <2>2, <2>3, <2>4, TypesSplit, TaskSets DEF ClientTypes
  <1>3. MainQTypes'
    BY TypesSplit DEF Send, MainQTypes
  <1> QED BY <1>2, <1>3, TypesSplit, TypesJoin DEF Send, ModTypes, MainTypes, WorkerTypes, SmallTypes

\* No step of the client breaks the types.
LEMMA ClientTyped ==
  ASSUME Types, ClientActs
  PROVE  Types'
  <1>1. CASE Commands
    <2>0. \A s \in States \ {"Invalid"} : Command("SetState", s) \in ClientOrders
      BY DEF ClientOrders
    <2>1. ASSUME NEW s \in States \ {"Invalid"}, SendState(s) PROVE Types'
      <3>1. transientState' \in {NoTransition} \cup (States \X States)
        BY <2>1 DEF SendState, GetTransientState, States
      <3>2. PortTypes' /\ OwnBuffers'
        BY <2>1, TypesSplit DEF SendState, PortTypes, OwnBuffers
      <3> QED BY <2>1, <2>0, <3>1, <3>2, SendTyped DEF SendState
    <2>2. ASSUME NEW p \in Ports, SendFlush(p) \/ SendDisable(p) \/ SendEnable(p) PROVE Types'
      <3>1. transientState' \in {NoTransition} \cup (States \X States)
        BY <2>2 DEF SendFlush, SendDisable, SendEnable, Types, TypeOK
      <3>2. \A c \in {"Flush", "DisablePort", "EnablePort"} : Command(c, p) \in ClientOrders
        BY DEF ClientOrders
      <3>3. PortTypes' /\ OwnBuffers'
        <4>1. CASE SendFlush(p)
          BY <4>1, TypesSplit DEF SendFlush, PortTypes, OwnBuffers
        <4>2. CASE SendDisable(p)
          BY <4>2, TypesSplit DEF SendDisable, PortTypes, OwnBuffers
        <4>3. CASE SendEnable(p)
          BY <4>3, TypesSplit DEF SendEnable, PortTypes, OwnBuffers
        <4> QED BY <2>2, <4>1, <4>2, <4>3
      <3> QED BY <2>2, <3>1, <3>2, <3>3, SendTyped DEF SendFlush, SendDisable, SendEnable
    <2> QED BY <1>1, <2>1, <2>2 DEF Commands
  <1>2. ASSUME NEW b \in Buffers, NEW eos \in BOOLEAN, GiveBuffer(b, eos) PROVE Types'
    <2>1. ClientTypes'
      BY <1>2, TypesSplit, PortsAre, OmxAssumption DEF GiveBuffer, ClientTypes
    <2>2. MainQTypes'
      BY <1>2, TypesSplit, KindsOfTasks DEF GiveBuffer, MainQTypes
    <2> QED BY <1>2, <2>1, <2>2, TypesSplit, TypesJoin
            DEF GiveBuffer, ModTypes, MainTypes, WorkerTypes, SmallTypes, PortTypes, OwnBuffers
  <1>3. ASSUME NEW b \in Buffers, AllocateBuffer(b) PROVE Types'
    <2>1. ClientTypes'
      <3>1. client' = client \/ client' = Done(client, {b})
        BY <1>3 DEF AllocateBuffer
      <3> QED BY <3>1, TypesSplit, DoneTyped DEF ClientTypes, ClientRecords
    <2>2. PortTypes' /\ OwnBuffers'
      <3> DEFINE p == PortOf(b)
                 added == port[p].buffers \cup {b}
      <3>1. p \in Ports /\ added \subseteq OfPort(p) /\ added \in SUBSET Buffers
            /\ port[p] \in PortRecords /\ port[p].buffers \subseteq OfPort(p)
        BY PortsAre, TypesSplit DEF PortTypes, OwnBuffers, PortRecords
      <3>2. PICK v \in BOOLEAN :
              \/ port' = [port EXCEPT ![p] = [@ EXCEPT !.error = TRUE]]
              \/ port' = [port EXCEPT ![p] = [@ EXCEPT !.buffers = added, !.playable = v]]
        <4>1. (port[p].playable \/ added = OfPort(p)) \in BOOLEAN
          OBVIOUS
        <4>2. \/ port' = [port EXCEPT ![p].error = TRUE]
              \/ port' = [port EXCEPT ![p].buffers = added,
                                      ![p].playable = @ \/ added = OfPort(p)]
          BY <1>3 DEF AllocateBuffer
        <4> HIDE DEF added, p
        <4> QED BY <4>1, <4>2
      <3>3. \A u \in BOOLEAN : [port[p] EXCEPT !.error = TRUE] \in PortRecords
                            /\ [port[p] EXCEPT !.buffers = added, !.playable = u] \in PortRecords
        BY <3>1 DEF PortRecords
      <3> HIDE DEF added, p
      <3>4. PICK q : /\ q = [port[p] EXCEPT !.error = TRUE]
                        \/ q = [port[p] EXCEPT !.buffers = added, !.playable = v]
                     /\ port' = [port EXCEPT ![p] = q]
        BY <3>2
      <3>5. q \in PortRecords /\ q.buffers \subseteq OfPort(p)
        BY <3>1, <3>3, <3>4 DEF PortRecords
      <3> QED BY <3>1, <3>4, <3>5, TypesSplit, PortTyped
    <2>3. SmallTypes'
      BY <1>3, TypesSplit, OmxAssumption DEF AllocateBuffer, SmallTypes
    <2> QED BY <1>3, <2>1, <2>2, <2>3, TypesSplit, TypesJoin
            DEF AllocateBuffer, ModTypes, MainTypes, WorkerTypes, MainQTypes
  <1>4. ASSUME NEW b \in Buffers, FreeBuffer(b) PROVE Types'
    <2>1. ClientTypes'
      BY <1>4, TypesSplit DEF FreeBuffer, ClientTypes
    <2>2. PortTypes' /\ OwnBuffers'
      <3> DEFINE p == PortOf(b)
      <3>1. p \in Ports /\ port[p] \in PortRecords /\ port[p].buffers \subseteq OfPort(p)
        BY PortsAre, TypesSplit DEF PortTypes, OwnBuffers, PortRecords
      <3>2. PICK v \in BOOLEAN : Remove(port[p], b) =
                 [port[p] EXCEPT !.buffers = @ \ {b}, !.playable = v]
        BY DEF Remove
      <3>3. /\ Remove(port[p], b) \in PortRecords
            /\ Remove(port[p], b).buffers \subseteq OfPort(p)
        BY <3>1, <3>2 DEF PortRecords
      <3>4. port' = [port EXCEPT ![p] = Remove(port[p], b)]
        BY <1>4 DEF FreeBuffer
      <3> QED BY <3>1, <3>3, <3>4, TypesSplit, PortTyped
    <2> QED BY <1>4, <2>1, <2>2, TypesSplit, TypesJoin
            DEF FreeBuffer, ModTypes, MainTypes, WorkerTypes, MainQTypes, SmallTypes
  <1> QED BY <1>1, <1>2, <1>3, <1>4 DEF ClientActs, Data, Allocation

\* Every step of the decoder keeps the types.
LEMMA DecoderTyped ==
  ASSUME Types, Decoder
  PROVE  Types'
  <1>1. ClientTypes' /\ ModTypes'
    <2>0. ASSUME NEW S \in SUBSET Buffers, client' = Done(client, S) PROVE ClientTypes'
      BY <2>0, TypesSplit, DoneTyped DEF ClientTypes, ClientRecords
    <2>1. ASSUME NEW b \in Buffers, Consume(b) PROVE ClientTypes' /\ ModTypes'
      BY <2>0, <2>1, TypesSplit DEF Consume, ModTypes
    <2>2. ASSUME NEW b \in Buffers, Display(b) PROVE ClientTypes' /\ ModTypes'
      BY <2>0, <2>2, TypesSplit DEF Display, ModTypes
    <2>3. CASE EndOfStream
      <3>1. CASE mod.eosOut = None
        BY <2>3, <3>1, TypesSplit DEF EndOfStream, ModTypes, ClientTypes
      <3>2. CASE mod.eosOut # None
        <4>1. {mod.eosIn, mod.eosOut} \in SUBSET Buffers
          BY <2>3, <3>2, TypesSplit, PortsAre DEF EndOfStream, ModTypes
        <4> QED BY <2>0, <4>1, <2>3, <3>2, TypesSplit DEF EndOfStream, ModTypes
      <3> QED BY <3>1, <3>2
    <2>4. CASE DecoderFails
      BY <2>4, TypesSplit DEF DecoderFails, ModTypes, ClientTypes
    <2> QED BY <2>1, <2>2, <2>3, <2>4 DEF Decoder
  <1>2. MainQTypes' /\ crash' \in {"no", "assert", "null"} /\ faults' \in 0 .. MaxFaults
    <2>1. CASE DecoderFails
      BY <2>1, TypesSplit, OmxAssumption DEF DecoderFails, MainQTypes, SmallTypes
    <2>2. CASE mainQ' = mainQ /\ faults' = faults /\ crash' \in {crash, "null"}
      BY <2>2, TypesSplit DEF MainQTypes, SmallTypes
    <2> QED BY <2>1, <2>2 DEF Decoder, Consume, Display, EndOfStream
  <1> QED BY <1>1, <1>2, DecoderFrame, TypesSplit, TypesJoin
          DEF SmallTypes, WorkerTypes, MainTypes, PortTypes, OwnBuffers

\* The head of the queue of a processor, and what it does with it.
LEMMA WorkerHead ==
  ASSUME Types, NEW p \in Ports, worker[p].queue # <<>>
  PROVE  /\ Head(worker[p].queue) \in BufferTasks(OfPort(p)) \cup Fences \cup {Quit}
         /\ Head(worker[p].queue) \in Tasks
         /\ Tail(worker[p].queue) \in Seq(BufferTasks(OfPort(p)) \cup Fences \cup {Quit})
         /\ Tail(worker[p].queue) \in Seq(Tasks)
  BY QueueHead, TypesSplit DEF WorkerTypes

\* Every step of a worker keeps the types.
LEMMA WorkersTyped ==
  ASSUME Types, WorkerActs
  PROVE  Types'
  <1>0. PICK p \in Ports : Worker(p)
    BY DEF WorkerActs
  <1>1. worker[p] \in [queue : Seq(Tasks), delete : BOOLEAN, busy : Tasks, ended : BOOLEAN]
        /\ worker[p].queue \in Seq(BufferTasks(OfPort(p)) \cup Fences \cup {Quit})
        /\ worker[p].busy \in BufferTasks(OfPort(p)) \cup Fences \cup {NoCommand}
        /\ TaskTypes
    BY TypesSplit DEF WorkerTypes, Types
  <1>2. OfPort(p) \subseteq Buffers
    BY PortsAre
  <1>d. ASSUME NEW S \in SUBSET Buffers, client' = Done(client, S) PROVE ClientTypes'
    BY <1>d, TypesSplit, DoneTyped DEF ClientTypes, ClientRecords
  <1>3. CASE TakeTask(p)
    <2> DEFINE w == worker[p]
               t == Head(w.queue)
               next == IF t = Quit THEN [w EXCEPT !.ended = TRUE]
                       ELSE [w EXCEPT !.queue = Tail(@), !.busy = IF w.delete THEN NoCommand ELSE t]
    <2>1. w.queue # <<>> /\ worker' = [worker EXCEPT ![p] = next]
      BY <1>3 DEF TakeTask
    <2>2. next \in [queue : Seq(Tasks), delete : BOOLEAN, busy : Tasks, ended : BOOLEAN]
          /\ next.queue \in Seq(BufferTasks(OfPort(p)) \cup Fences \cup {Quit})
          /\ next.busy \in BufferTasks(OfPort(p)) \cup Fences \cup {NoCommand}
      <3>1. CASE t = Quit
        BY <3>1, <1>1
      <3>2. CASE t # Quit /\ w.delete
        BY <3>2, <2>1, <1>1, WorkerHead, TaskSets
      <3>3. CASE t # Quit /\ ~w.delete
        BY <3>3, <2>1, <1>1, WorkerHead, TaskSets
      <3> QED BY <3>1, <3>2, <3>3
    <2> HIDE DEF next
    <2>3. WorkerTypes'
      BY <2>1, <2>2, <1>1, WorkerTyped DEF WorkerTypes
    <2>4. ClientTypes' /\ mod' = mod /\ crash' = crash
      <3>1. t.cmd = "Buffer" => {t.arg} \in SUBSET Buffers
        <4>1. t \in BufferTasks(OfPort(p)) \cup Fences \cup {Quit}
          BY <2>1, WorkerHead
        <4>2. t.cmd = "Buffer" => t \in BufferTasks(OfPort(p))
          BY <4>1, KindsOfTasks
        <4>3. t \in BufferTasks(OfPort(p)) => t.arg \in OfPort(p)
          BY KindsOfTasks
        <4> QED BY <4>2, <4>3, <1>2
      <3>2. client' = client \/ (t.cmd = "Buffer" /\ client' = Done(client, {t.arg}))
        BY <1>3 DEF TakeTask
      <3> QED BY <3>1, <3>2, <1>d, <1>3, TypesSplit DEF ClientTypes, TakeTask
    <2> QED BY <2>3, <2>4, WorkerFrame, TypesSplit, TypesJoin
            DEF SmallTypes, MainTypes, MainQTypes, PortTypes, OwnBuffers, ModTypes
  <1>4. ASSUME worker' = [worker EXCEPT ![p].busy = NoCommand] PROVE WorkerTypes'
    <2> DEFINE next == [worker[p] EXCEPT !.busy = NoCommand]
    <2>1. next \in [queue : Seq(Tasks), delete : BOOLEAN, busy : Tasks, ended : BOOLEAN]
          /\ next.queue \in Seq(BufferTasks(OfPort(p)) \cup Fences \cup {Quit})
          /\ next.busy \in BufferTasks(OfPort(p)) \cup Fences \cup {NoCommand}
      BY <1>1, TaskSets
    <2>2. worker' = [worker EXCEPT ![p] = next]
      BY <1>4
    <2> HIDE DEF next
    <2> QED BY <2>1, <2>2, <1>1, WorkerTyped DEF WorkerTypes
  <1>5. CASE TreatBuffer(p)
    <2> DEFINE b == worker[p].busy.arg
    <2>1. b \in OfPort(p) /\ worker' = [worker EXCEPT ![p].busy = NoCommand]
      BY <1>5, <1>1, KindsOfTasks DEF TreatBuffer
    <2>2. ClientTypes'
      <3>1. client' = client \/ client' = Done(client, {b})
        BY <1>5 DEF TreatBuffer
      <3> QED BY <3>1, <2>1, <1>2, <1>d, TypesSplit DEF ClientTypes
    <2>3. ModTypes'
      <3>1. CASE mod' = mod
        BY <3>1, TypesSplit DEF ModTypes
      <3>2. CASE p = "in" /\ mod' = Empty(mod, b, b = client.eos)
        <4>1. b \in InBuffers
          BY <3>2, <2>1, PortsAre
        <4> HIDE DEF b
        <4>2. CASE b = client.eos
          BY <4>1, <4>2, <3>2, TypesSplit DEF ModTypes, Empty
        <4>3. CASE b # client.eos
          BY <4>1, <4>3, <3>2, TypesSplit DEF ModTypes, Empty
        <4> QED BY <4>2, <4>3
      <3>3. CASE p = "out" /\ mod' = Fill(mod, b)
        <4>1. b \in OutBuffers
          BY <3>3, <2>1, PortsAre
        <4> HIDE DEF b
        <4> QED BY <4>1, <3>3, TypesSplit DEF ModTypes, Fill
      <3> QED BY <1>5, <3>1, <3>2, <3>3 DEF TreatBuffer, Ports
    <2>4. crash' \in {"no", "assert", "null"}
      BY <1>5, TypesSplit DEF TreatBuffer, SmallTypes
    <2> QED BY <2>1, <2>2, <2>3, <2>4, <1>4, WorkerFrame, TypesSplit, TypesJoin
            DEF SmallTypes, MainTypes, MainQTypes, PortTypes, OwnBuffers
  <1>6. CASE PassFence(p)
    BY <1>6, <1>4, TypesSplit, TypesJoin
       DEF PassFence, SmallTypes, MainTypes, MainQTypes, PortTypes, OwnBuffers, ModTypes, ClientTypes
  <1> QED BY <1>0, <1>3, <1>5, <1>6 DEF Worker

\* A pause ends a command of the client, which counts for its fence.
LEMMA FenceCounted ==
  ASSUME Types, OneCommand, Places4Task,
         (main.pc = "complete" /\ New = "Pause") \/ main.pc = "flushed"
  PROVE  /\ main.task \in ClientOrders /\ client.pending = main.task /\ main.task # NoCommand
         /\ pause.n + 1 <= client.sent /\ pause.n + 1 \in 1 .. 2 * MaxCommands
         /\ pause.n \in Nat /\ client.sent \in Nat
  <1>1. main.task \in ClientOrders
    BY TypesSplit, KindsOfTasks DEF MainTypes, Places4Task, New
  <1>2. client.pending = main.task /\ main.task # NoCommand
    BY <1>1, KindsOfTasks DEF OneCommand
  <1>3. pause.n \in Nat /\ client.sent \in 0 .. MaxCommands /\ MaxCommands \in Nat
    BY TypesSplit, OmxAssumption DEF SmallTypes, ClientTypes
  <1> QED BY <1>1, <1>2, <1>3 DEF OneCommand

\* The places processorMain goes to.
LEMMA MainMoves ==
  ASSUME Main
  PROVE  \/ Forward /\ main' = main
         \/ StartCommand
         \/ \E pc \in MainPlaces \ {"pop"} : Goto(pc)
         \/ NextTask
  <1> DEFINE G == \E pc \in MainPlaces \ {"pop"} : Goto(pc)
  <1>1. CASE JoinFill \/ JoinEmpty \/ StartPopulating \/ CreateModule \/ DestroyModule
             \/ StopModule \/ OtherTransition \/ StopInvalid \/ FlushModule
    BY <1>1 DEF JoinFill, JoinEmpty, StartPopulating, CreateModule, DestroyModule, StopModule,
            OtherTransition, StopInvalid, FlushModule, MainPlaces
  <1>2. CASE RefuseTransition \/ Complete \/ BecomeInvalid \/ FlushComplete \/ DisablePort
             \/ EnablePort
    BY <1>2 DEF RefuseTransition, Complete, BecomeInvalid, FlushComplete, DisablePort,
            EnablePort, Fails
  <1>3. CASE Populate("in", "populateIn", "populateOut") \/ Populate("out", "populateOut", "create")
    BY <1>3 DEF Populate, Fails, MainPlaces
  <1>4. CASE Unpopulate("in", "unpopulateIn", "unpopulateOut")
             \/ Unpopulate("out", "unpopulateOut", "complete")
    BY <1>4 DEF Unpopulate, Fails, MainPlaces
  <1>5. CASE RunModule
    BY <1>5 DEF RunModule, Fails, MainPlaces
  <1>6. CASE Forward \/ StartCommand
    BY <1>6 DEF Forward
  <1> QED BY <1>1, <1>2, <1>3, <1>4, <1>5, <1>6 DEF Main

\* The head of the queue of processorMain.
LEMMA MainHead ==
  ASSUME Types, mainQ # <<>>
  PROVE  /\ Head(mainQ) \in ClientOrders \cup {FromDecoder} \cup BufferTasks(Buffers)
         /\ Tail(mainQ) \in Seq(ClientOrders \cup {FromDecoder} \cup BufferTasks(Buffers))
         /\ Head(mainQ).cmd = "Buffer" =>
               /\ Head(mainQ) \in BufferTasks(OfPort(PortOf(Head(mainQ).arg)))
               /\ Head(mainQ).arg \in Buffers /\ PortOf(Head(mainQ).arg) \in Ports
               /\ Head(mainQ) = Command("Buffer", Head(mainQ).arg)
         /\ Head(mainQ).cmd # "Buffer" => Head(mainQ) \in ClientOrders \cup {FromDecoder}
  <1> DEFINE t == Head(mainQ)
  <1>1. /\ t \in ClientOrders \cup {FromDecoder} \cup BufferTasks(Buffers)
        /\ Tail(mainQ) \in Seq(ClientOrders \cup {FromDecoder} \cup BufferTasks(Buffers))
    BY QueueHead, TypesSplit DEF MainQTypes
  <1> HIDE DEF t
  <1>2. t.cmd = "Buffer" => t \in BufferTasks(Buffers)
    BY <1>1, KindsOfTasks
  <1>3. t \in BufferTasks(Buffers) => t.cmd = "Buffer" /\ t.arg \in Buffers /\ t = Command("Buffer", t.arg)
    BY KindsOfTasks
  <1>4. t.arg \in Buffers => t.arg \in OfPort(PortOf(t.arg)) /\ PortOf(t.arg) \in Ports
    BY PortsAre
  <1>5. t.arg \in OfPort(PortOf(t.arg)) =>
            Command("Buffer", t.arg) \in BufferTasks(OfPort(PortOf(t.arg)))
    BY KindsOfTasks
  <1> QED BY <1>1, <1>2, <1>3, <1>4, <1>5 DEF t

\* Every step of processorMain keeps the types of its own place and queue.
LEMMA MainPlaceTyped ==
  ASSUME Types, Main
  PROVE  MainTypes' /\ MainQTypes'
  <1>1. CASE Forward
    BY <1>1, MainHead, TypesSplit DEF Forward, MainTypes, MainQTypes
  <1>2. CASE StartCommand
    <2>1. Head(mainQ) \in ClientOrders \cup {FromDecoder} /\ mainQ # <<>>
      BY <1>2, MainHead DEF StartCommand
    <2>2. PICK pc \in MainPlaces : main' = [pc |-> pc, task |-> Head(mainQ)]
      BY <1>2 DEF StartCommand, MainPlaces
    <2> QED BY <1>2, <2>1, <2>2, MainHead DEF StartCommand, MainTypes, MainQTypes
  <1>3. CASE ~Forward /\ ~StartCommand
    <2>1. mainQ' = mainQ
      BY <1>3, MainFrame
    <2>2. MainTypes'
      <3>1. CASE NextTask
        BY <3>1 DEF NextTask, MainTypes, MainPlaces
      <3>2. ASSUME NEW pc \in MainPlaces, Goto(pc) PROVE MainTypes'
        BY <3>2, TypesSplit DEF Goto, MainTypes
      <3> QED BY <1>3, <3>1, <3>2, MainMoves
    <2> QED BY <2>1, <2>2, TypesSplit DEF MainQTypes
  <1> QED BY <1>1, <1>2, <1>3
\* A queue of a processor with one more task, a destructor, a fence.
WorkerRecords(p) ==
  {w \in [queue : Seq(Tasks), delete : BOOLEAN, busy : Tasks, ended : BOOLEAN] :
      /\ w.queue \in Seq(BufferTasks(OfPort(p)) \cup Fences \cup {Quit})
      /\ w.busy \in BufferTasks(OfPort(p)) \cup Fences \cup {NoCommand}}

\* It stays a processor of the port with a task of the port more.
LEMMA WorkerRecordsAre ==
  ASSUME NEW p \in Ports, NEW w \in WorkerRecords(p)
  PROVE  /\ NewProcessor \in WorkerRecords(p)
         /\ \A t \in BufferTasks(OfPort(p)) \cup Fences \cup {Quit} :
               /\ [w EXCEPT !.queue = Append(w.queue, t)] \in WorkerRecords(p)
               /\ [w EXCEPT !.delete = TRUE, !.queue = Append(w.queue, t)] \in WorkerRecords(p)
         /\ Deleted(w) \in WorkerRecords(p)
  <1>1. ASSUME NEW t \in BufferTasks(OfPort(p)) \cup Fences \cup {Quit}
        PROVE  /\ [w EXCEPT !.queue = Append(w.queue, t)] \in WorkerRecords(p)
               /\ [w EXCEPT !.delete = TRUE, !.queue = Append(w.queue, t)] \in WorkerRecords(p)
    <2>1. t \in Tasks
      BY <1>1, PortsAre, TaskSets
    <2>2. Append(w.queue, t) \in Seq(Tasks)
          /\ Append(w.queue, t) \in Seq(BufferTasks(OfPort(p)) \cup Fences \cup {Quit})
      BY <2>1, AppendProperties DEF WorkerRecords
    <2> QED BY <2>2 DEF WorkerRecords
  <1>2. NewProcessor \in WorkerRecords(p)
    BY EmptySeq, TaskSets DEF NewProcessor, WorkerRecords
  <1> QED BY <1>1, <1>2 DEF Deleted

\* The types of the processors, one by one.
LEMMA WorkerTypesAre == WorkerTypes <=> /\ DOMAIN worker = Ports /\ worker = [p \in Ports |-> worker[p]]
                                        /\ \A p \in Ports : worker[p] \in WorkerRecords(p)
  BY DEF WorkerTypes, WorkerRecords

\* Every step of processorMain keeps the types of the processors.
LEMMA MainWorkersTyped ==
  ASSUME Types, OneCommand, Places4Task, Main
  PROVE  WorkerTypes'
  <1>0. /\ worker = [p \in Ports |-> worker[p]] /\ \A p \in Ports : worker[p] \in WorkerRecords(p)
        /\ "in" \in Ports /\ "out" \in Ports
    BY TypesSplit, WorkerTypesAre DEF Ports
  <1>a. ASSUME NEW p \in Ports, NEW w \in WorkerRecords(p), worker' = [worker EXCEPT ![p] = w]
        PROVE  WorkerTypes'
    BY <1>0, <1>a DEF WorkerTypes, WorkerRecords
  <1>1. CASE Forward
    <2> DEFINE t == Head(mainQ)
               p == PortOf(t.arg)
    <2>1. p \in Ports /\ t \in BufferTasks(OfPort(p))
      BY <1>1, MainHead DEF Forward
    <2>2. [worker[p] EXCEPT !.queue = Append(worker[p].queue, t)] \in WorkerRecords(p)
      BY <1>0, <2>1, WorkerRecordsAre
    <2>3. worker' = [worker EXCEPT ![p] = [worker[p] EXCEPT !.queue = Append(worker[p].queue, t)]]
      BY <1>1 DEF Forward
    <2> HIDE DEF p, t
    <2> QED BY <1>a, <2>1, <2>2, <2>3
  <1>2. CASE StartCommand
    <2>1. worker' = worker \/ worker' = [worker EXCEPT !["out"] = Deleted(worker["out"])]
      BY <1>2 DEF StartCommand
    <2>2. Deleted(worker["out"]) \in WorkerRecords("out")
      BY <1>0, WorkerRecordsAre
    <2> QED BY <1>a, <1>0, <2>1, <2>2, TypesSplit DEF WorkerTypes
  <1>3. CASE JoinFill
    <2>1. worker' = [worker EXCEPT !["out"] = NewProcessor, !["in"] = Deleted(worker["in"])]
      BY <1>3 DEF JoinFill
    <2>2. NewProcessor \in WorkerRecords("out") /\ Deleted(worker["in"]) \in WorkerRecords("in")
      BY <1>0, WorkerRecordsAre
    <2> QED BY <1>0, <2>1, <2>2, PortsAre DEF WorkerTypes, WorkerRecords
  <1>4. CASE JoinEmpty
    BY <1>a, <1>0, <1>4, WorkerRecordsAre DEF JoinEmpty
  <1>5. CASE ((Complete /\ New = "Pause") \/ FlushComplete) /\ Block
    <2> DEFINE t == FenceTask(pause.n + 1)
    <2>1. t \in Fences
      BY <1>5, FenceCounted DEF Complete, FlushComplete, Fences
    <2>2. worker' = [p \in Ports |-> [worker[p] EXCEPT !.queue = Append(worker[p].queue, t)]]
      BY <1>5, <1>0 DEF Block, Fence
    <2> HIDE DEF t
    <2>3. \A p \in Ports : [worker[p] EXCEPT !.queue = Append(worker[p].queue, t)] \in WorkerRecords(p)
      BY <1>0, <2>1, WorkerRecordsAre
    <2> QED BY <2>2, <2>3 DEF WorkerTypes, WorkerRecords
  <1>6. CASE UNCHANGED worker
    BY <1>6, TypesSplit DEF WorkerTypes
  <1>7. Complete => UNCHANGED worker \/ (New = "Pause" /\ Block)
    BY DEF Complete
  <1>8. FlushComplete => UNCHANGED worker \/ Block
    BY DEF FlushComplete
  <1> QED BY <1>1, <1>2, <1>3, <1>4, <1>5, <1>6, <1>7, <1>8, MainFrame

\* Every step of processorMain keeps the types of the rest.
LEMMA MainRestTyped ==
  ASSUME Types, OneCommand, Places4Task, Main
  PROVE  PortTypes' /\ OwnBuffers' /\ SmallTypes'
  <1>1. PortTypes' /\ OwnBuffers'
    <2>0. ASSUME NEW p \in Ports,
                 \/ port' = [port EXCEPT ![p].error = FALSE]
                 \/ port' = [port EXCEPT ![p].toDisable = FALSE]
                 \/ port' = [port EXCEPT ![p].toEnable = FALSE]
          PROVE  PortTypes' /\ OwnBuffers'
      <3>1. port[p] \in PortRecords /\ port[p].buffers \subseteq OfPort(p)
        BY TypesSplit DEF PortTypes, OwnBuffers, PortRecords
      <3>2. CASE port' = [port EXCEPT ![p].error = FALSE]
        <4>1. [port[p] EXCEPT !.error = FALSE] \in PortRecords
              /\ port' = [port EXCEPT ![p] = [port[p] EXCEPT !.error = FALSE]]
              /\ [port[p] EXCEPT !.error = FALSE].buffers = port[p].buffers
          BY <3>1, <3>2 DEF PortRecords
        <4> QED BY <4>1, <3>1, TypesSplit, PortTyped
      <3>3. CASE port' = [port EXCEPT ![p].toDisable = FALSE]
        <4>1. [port[p] EXCEPT !.toDisable = FALSE] \in PortRecords
              /\ port' = [port EXCEPT ![p] = [port[p] EXCEPT !.toDisable = FALSE]]
              /\ [port[p] EXCEPT !.toDisable = FALSE].buffers = port[p].buffers
          BY <3>1, <3>3 DEF PortRecords
        <4> QED BY <4>1, <3>1, TypesSplit, PortTyped
      <3>4. CASE port' = [port EXCEPT ![p].toEnable = FALSE]
        <4>1. [port[p] EXCEPT !.toEnable = FALSE] \in PortRecords
              /\ port' = [port EXCEPT ![p] = [port[p] EXCEPT !.toEnable = FALSE]]
              /\ [port[p] EXCEPT !.toEnable = FALSE].buffers = port[p].buffers
          BY <3>1, <3>4 DEF PortRecords
        <4> QED BY <4>1, <3>1, TypesSplit, PortTyped
      <3> QED BY <2>0, <3>2, <3>3, <3>4
    <2>1. CASE Populate("in", "populateIn", "populateOut") \/ Populate("out", "populateOut", "create")
      BY <2>0, <2>1, TypesSplit DEF Populate, Ports, PortTypes, OwnBuffers
    <2>2. CASE Unpopulate("in", "unpopulateIn", "unpopulateOut")
               \/ Unpopulate("out", "unpopulateOut", "complete")
      BY <2>0, <2>2, TypesSplit DEF Unpopulate, Ports, PortTypes, OwnBuffers
    <2>3. CASE DisablePort \/ EnablePort
      <3>1. New \in Ports
        <4>1. main.task.cmd \in {"DisablePort", "EnablePort"}
          BY <2>3 DEF DisablePort, EnablePort, Treats
        <4>2. main.task \in ClientOrders
          BY <4>1, TypesSplit, KindsOfTasks DEF MainTypes
        <4> QED BY <4>1, <4>2, KindsOfTasks DEF New
      <3> QED BY <2>0, <2>3, <3>1, TypesSplit DEF DisablePort, EnablePort, PortTypes, OwnBuffers
    <2>4. CASE UNCHANGED port
      BY <2>4, TypesSplit DEF PortTypes, OwnBuffers
    <2> QED BY <2>1, <2>2, <2>3, <2>4 DEF Main, Forward, StartCommand, JoinFill, JoinEmpty,
           RefuseTransition, StartPopulating, CreateModule, DestroyModule, RunModule, StopModule,
           OtherTransition, Complete, StopInvalid, BecomeInvalid, FlushModule, FlushComplete
  <1>2. state' \in States
    <2>1. CASE Complete
      <3>1. main.task \in ClientOrders \cup {FromDecoder} /\ main.task.cmd = "SetState"
        BY <2>1, TypesSplit, KindsOfTasks DEF MainTypes, Complete, Places4Task
      <3>2. New \in States
        BY <3>1, KindsOfTasks, TaskSets DEF New
      <3> QED BY <2>1, <3>2 DEF Complete
    <2> QED BY <2>1, MainFrame, TypesSplit, TaskSets DEF BecomeInvalid, SmallTypes
  <1>3. transientState' \in {NoTransition} \cup (States \X States)
    <2>1. transientState' = transientState \/ transientState' = NoTransition
      BY DEF Main, Forward, StartCommand, JoinFill, JoinEmpty, RefuseTransition, StartPopulating,
         Populate, CreateModule, DestroyModule, Unpopulate, RunModule, StopModule,
         OtherTransition, Complete, StopInvalid, BecomeInvalid, FlushModule, FlushComplete,
         DisablePort, EnablePort
    <2> QED BY <2>1, TypesSplit DEF SmallTypes
  <1>4. pause' \in [on : BOOLEAN, n : 0 .. 2 * MaxCommands]
    <2>1. CASE ((Complete /\ New = "Pause") \/ FlushComplete) /\ Block
      BY <2>1, FenceCounted DEF Block, Complete, FlushComplete
    <2>2. CASE pause' = pause \/ pause' = Unblock(pause)
      BY <2>2, TypesSplit DEF SmallTypes, Unblock
    <2> QED BY <2>1, <2>2, MainFrame DEF StartCommand, Complete, FlushComplete
  <1>5. crash' \in {"no", "assert", "null"}
    BY MainFrame, TypesSplit DEF SmallTypes, DestroyModule, Complete, FlushComplete, Block
  <1>6. faults' \in 0 .. MaxFaults
    <2>1. faults' = faults \/ (faults' = faults + 1 /\ faults < MaxFaults)
      BY DEF Main, Forward, StartCommand, JoinFill, JoinEmpty, RefuseTransition, StartPopulating,
         Populate, CreateModule, DestroyModule, Unpopulate, RunModule, StopModule,
         OtherTransition, Complete, StopInvalid, BecomeInvalid, FlushModule, FlushComplete,
         DisablePort, EnablePort
    <2> QED BY <2>1, TypesSplit, OmxAssumption DEF SmallTypes
  <1> QED BY <1>1, <1>2, <1>3, <1>4, <1>5, <1>6 DEF SmallTypes
\* What stopping, running and flushing the module does to what it holds.
ModRecords ==
  [created : BOOLEAN, decoder : BOOLEAN, in : SUBSET InBuffers, out : SUBSET OutBuffers,
   eosIn : InBuffers \cup {None}, eosOut : OutBuffers \cup {None}]

\* What Stop and Run leave of the module.
LEMMA StopIs ==
  ASSUME NEW m \in ModRecords
  PROVE  /\ Stop(m) \in ModRecords /\ Run(m) \in ModRecords /\ Run(Stop(m)) \in ModRecords
         /\ Stop(m).decoder = FALSE \/ ~m.decoder
         /\ ~m.decoder => Stop(m) = m
         /\ m.decoder => Stop(m).in = m.in \cap {m.eosIn} /\ Stop(m).out = {}
                         /\ Stop(m).eosIn = m.eosIn /\ Stop(m).eosOut = None
         /\ Run(m).in = m.in /\ Run(m).out = m.out /\ Run(m).decoder = TRUE
         /\ Run(m).eosIn = None /\ Run(m).eosOut = None
  <1>1. Stop(m) \in ModRecords
    <2>1. CASE m.decoder
      BY <2>1 DEF Stop, ModRecords
    <2>2. CASE ~m.decoder
      BY <2>2 DEF Stop, ModRecords
    <2> QED BY <2>1, <2>2
  <1>2. \A n \in ModRecords : Run(n) \in ModRecords
    BY DEF Run, ModRecords
  <1>3. m.decoder => Stop(m).decoder = FALSE /\ Stop(m).in = m.in \cap {m.eosIn} /\ Stop(m).out = {}
                     /\ Stop(m).eosIn = m.eosIn /\ Stop(m).eosOut = None
    BY DEF Stop, ModRecords
  <1>4. ~m.decoder => Stop(m) = m
    BY DEF Stop
  <1>5. Run(m).in = m.in /\ Run(m).out = m.out /\ Run(m).decoder = TRUE
        /\ Run(m).eosIn = None /\ Run(m).eosOut = None
    BY DEF Run, ModRecords
  <1> QED BY <1>1, <1>2, <1>3, <1>4, <1>5

\* The module changes in these ways under processorMain, and the client gets what it returns.
ModChange ==
  \/ mod' = mod
  \/ CreateModule /\ mod' = [mod EXCEPT !.created = TRUE]
  \/ DestroyModule /\ mod' = [mod EXCEPT !.created = FALSE]
  \/ RunModule /\ mod' = Run(mod) /\ ~mod.decoder
  \/ StopModule /\ mod' = Stop(mod)
  \/ StopInvalid /\ mod' = [Stop(mod) EXCEPT !.created = FALSE]
  \/ FlushModule /\ mod.decoder /\ mod' = Run(Stop(mod))
  \/ FlushModule /\ mod.decoder /\ mod' = [Run(Stop(mod)) EXCEPT !.decoder = FALSE]
  \/ FlushModule /\ ~mod.decoder /\ mod' = [mod EXCEPT !.out = @ \ {mod.eosOut}, !.eosOut = None]

\* How processorMain changes the module, and when the client gets buffers back.
LEMMA MainModule ==
  ASSUME Types, Main
  PROVE  /\ ModChange /\ ModTypes'
         /\ \/ mod'.in = mod.in /\ mod'.out = mod.out
                 /\ (client' = client \/ client' = Answered(client))
            \/ client' = Done(client, Returned(mod')) /\ (StopModule \/ StopInvalid \/ FlushModule)
         /\ mod'.in \subseteq mod.in /\ mod'.out \subseteq mod.out
  <1>0. mod \in ModRecords
    BY TypesSplit DEF ModTypes, ModRecords
  <1>1. ModChange
    BY MainFrame DEF ModChange, CreateModule, DestroyModule, RunModule, StopModule, StopInvalid,
       FlushModule
  <1>5. \/ mod' = mod \/ mod' = [mod EXCEPT !.created = TRUE] \/ mod' = [mod EXCEPT !.created = FALSE]
        \/ mod' = Run(mod) \/ mod' = Stop(mod) \/ mod' = [Stop(mod) EXCEPT !.created = FALSE]
        \/ mod' = Run(Stop(mod)) \/ mod' = [Run(Stop(mod)) EXCEPT !.decoder = FALSE]
        \/ mod' = [mod EXCEPT !.out = @ \ {mod.eosOut}, !.eosOut = None]
    BY <1>1 DEF ModChange
  <1>2. ModTypes'
    <2>1. mod' \in ModRecords
      <3>1. \A m \in ModRecords : /\ [m EXCEPT !.created = TRUE] \in ModRecords
                                  /\ [m EXCEPT !.created = FALSE] \in ModRecords
                                  /\ [m EXCEPT !.decoder = FALSE] \in ModRecords
        BY DEF ModRecords
      <3>2. [mod EXCEPT !.out = @ \ {mod.eosOut}, !.eosOut = None] \in ModRecords
        BY <1>0 DEF ModRecords
      <3>3. Run(mod) \in ModRecords /\ Stop(mod) \in ModRecords /\ Run(Stop(mod)) \in ModRecords
        BY <1>0, StopIs
      <3> QED BY <1>0, <1>5, <3>1, <3>2, <3>3
    <2> QED BY <2>1 DEF ModTypes, ModRecords
  <1>3. mod'.in \subseteq mod.in /\ mod'.out \subseteq mod.out
    <2>1. Stop(mod).in \subseteq mod.in /\ Stop(mod).out \subseteq mod.out
      <3>1. CASE mod.decoder
        <4>1. Stop(mod).in = mod.in \cap {mod.eosIn} /\ Stop(mod).out = {}
          BY <3>1, <1>0, StopIs
        <4> QED BY <4>1
      <3>2. CASE ~mod.decoder
        <4>1. Stop(mod) = mod
          BY <3>2, <1>0, StopIs
        <4> QED BY <4>1
      <3> QED BY <3>1, <3>2
    <2>2. Run(Stop(mod)).in = Stop(mod).in /\ Run(Stop(mod)).out = Stop(mod).out
      BY <1>0, StopIs
    <2>3. \A m \in ModRecords : /\ [m EXCEPT !.created = FALSE].in = m.in
                                /\ [m EXCEPT !.created = FALSE].out = m.out
                                /\ [m EXCEPT !.created = TRUE].in = m.in
                                /\ [m EXCEPT !.created = TRUE].out = m.out
                                /\ [m EXCEPT !.decoder = FALSE].in = m.in
                                /\ [m EXCEPT !.decoder = FALSE].out = m.out
      BY DEF ModRecords
    <2>4. [mod EXCEPT !.out = @ \ {mod.eosOut}, !.eosOut = None].in = mod.in
          /\ [mod EXCEPT !.out = @ \ {mod.eosOut}, !.eosOut = None].out = mod.out \ {mod.eosOut}
      BY <1>0 DEF ModRecords
    <2>5. Stop(mod) \in ModRecords /\ Run(Stop(mod)) \in ModRecords /\ Run(mod).in = mod.in
          /\ Run(mod).out = mod.out
      BY <1>0, StopIs
    <2>6. mod'.in \in {mod.in, Stop(mod).in} /\ mod'.out \in {mod.out, Stop(mod).out, mod.out \ {mod.eosOut}}
      <3>2. CASE mod' = mod \/ mod' = [mod EXCEPT !.created = TRUE] \/ mod' = [mod EXCEPT !.created = FALSE]
                 \/ mod' = Run(mod)
        BY <3>2, <1>0, <2>3, <2>5
      <3>3. CASE mod' = Stop(mod) \/ mod' = [Stop(mod) EXCEPT !.created = FALSE]
        BY <3>3, <2>3, <2>5
      <3>4. CASE mod' = Run(Stop(mod)) \/ mod' = [Run(Stop(mod)) EXCEPT !.decoder = FALSE]
        BY <3>4, <2>2, <2>3, <2>5
      <3>5. CASE mod' = [mod EXCEPT !.out = @ \ {mod.eosOut}, !.eosOut = None]
        BY <3>5, <2>4
      <3> QED BY <1>5, <3>2, <3>3, <3>4, <3>5
    <2> QED BY <2>1, <2>6
  <1>4. \/ mod'.in = mod.in /\ mod'.out = mod.out /\ (client' = client \/ client' = Answered(client))
        \/ client' = Done(client, Returned(mod')) /\ (StopModule \/ StopInvalid \/ FlushModule)
    <2>1. CASE StopModule \/ StopInvalid \/ FlushModule
      BY <2>1 DEF StopModule, StopInvalid, FlushModule
    <2>2. CASE ~(StopModule \/ StopInvalid \/ FlushModule)
      <3>1. mod'.in = mod.in /\ mod'.out = mod.out
        BY <2>2, <1>0, <1>1 DEF ModChange, Run, ModRecords
      <3>2. client' = client \/ client' = Answered(client)
        BY <2>2 DEF Main, Forward, StartCommand, JoinFill, JoinEmpty, RefuseTransition,
           StartPopulating, Populate, CreateModule, DestroyModule, Unpopulate, RunModule,
           OtherTransition, Complete, BecomeInvalid, FlushComplete, DisablePort, EnablePort, Fails
      <3> QED BY <3>1, <3>2
    <2> QED BY <2>1, <2>2
  <1> QED BY <1>1, <1>2, <1>3, <1>4

\* Every step of processorMain keeps the types.
LEMMA MainTyped ==
  ASSUME Types, OneCommand, Places4Task, Main
  PROVE  Types'
  <1>1. ClientTypes'
    <2>1. client \in ClientRecords /\ Answered(client) \in ClientRecords
      BY TypesSplit, AnsweredTyped DEF ClientTypes, ClientRecords
    <2>2. Returned(mod') \in SUBSET Buffers
      BY MainModule, TypesSplit, PortsAre DEF Returned, Held, ModTypes
    <2>3. Done(client, Returned(mod')) \in ClientRecords
      BY <2>2, TypesSplit, DoneTyped
    <2> QED BY <2>1, <2>3, MainModule DEF ClientTypes, ClientRecords
  <1> QED BY <1>1, MainModule, MainPlaceTyped, MainWorkersTyped, MainRestTyped, TypesJoin

\* The types are kept by every step.
LEMMA TypesKept ==
  ASSUME Types, OneCommand, Places4Task, Next
  PROVE  Types'
  <1>1. CASE UNCHANGED vars
    BY <1>1 DEF vars, Types, TypeOK, TaskTypes
  <1> QED BY <1>1, NextCases, ClientTyped, DecoderTyped, MainTyped, WorkersTyped
\* What the client's steps do to its own state and to the queue of commands.
GiveStep(b) ==
  /\ b \in client.held /\ b \in Buffers /\ mainQ' = Append(mainQ, Command("Buffer", b))
  /\ port' = port /\ faults' = faults
  /\ client'.held = client.held \ {b} /\ client'.pending = client.pending
  /\ client'.before = client.before /\ client'.sent = client.sent
  /\ client'.eos = client.eos \/ (client'.eos = b /\ client.eos = None /\ b \in InBuffers)
  /\ b \in InBuffers => client.eos = None
  /\ client.pending.cmd # "SetState"
  /\ state = "Executing" \/ (state = "Pause" /\ ~Careful)
SendStep(t) ==
  /\ t \in ClientOrders /\ mainQ' = Append(mainQ, t)
  /\ client.pending = NoCommand /\ client.sent < MaxCommands /\ state # "Invalid"
  /\ faults' = faults /\ \A p \in Ports : port'[p].buffers = port[p].buffers
  /\ client'.pending = t /\ client'.sent = client.sent + 1
  /\ client'.held = client.held /\ client'.eos = client.eos
  /\ client'.before = IF GivesBack(t) THEN Allocated \ client.held ELSE client.before
  /\ Careful /\ GivesBack(t) => client.eos = None
AllocStep ==
  /\ mainQ' = mainQ /\ client'.pending = client.pending /\ client'.sent = client.sent
  /\ faults' \in {faults, faults + 1} /\ (faults' = faults \/ client' = client)
  /\ \/ /\ client' = client /\ \A p \in Ports : port'[p].buffers = port[p].buffers
     \/ \E b \in Buffers :
          /\ b \notin port[PortOf(b)].buffers /\ client' = Done(client, {b})
          /\ \A p \in Ports : port'[p].buffers = IF p = PortOf(b) THEN port[p].buffers \cup {b}
                                                                  ELSE port[p].buffers
     \/ \E b \in client.held :
          /\ client' = [client EXCEPT !.held = @ \ {b}]
          /\ \A p \in Ports : port'[p].buffers = IF p = PortOf(b) THEN port[p].buffers \ {b}
                                                                  ELSE port[p].buffers

\* Those are all its steps.
LEMMA ClientMoves ==
  ASSUME Types, ClientActs
  PROVE  \/ \E b \in Buffers : GiveStep(b)
         \/ \E t \in ClientOrders : SendStep(t)
         \/ AllocStep
  <1>0. /\ client \in ClientRecords
        /\ port \in [Ports -> PortRecords]
    BY TypesSplit DEF ClientTypes, ClientRecords, PortTypes, PortRecords
  <1>1. ASSUME NEW cmd, NEW arg, Command(cmd, arg) \in ClientOrders, Send(cmd, arg),
               faults' = faults, \A p \in Ports : port'[p].buffers = port[p].buffers,
               Careful /\ GivesBack(Command(cmd, arg)) => client.eos = None
        PROVE  SendStep(Command(cmd, arg))
    <2>1. GivesBack(Command(cmd, arg)) <=> cmd = "Flush" \/ (cmd = "SetState" /\ arg = "Idle")
      BY TaskIs DEF GivesBack
    <2>2. UNION {port[p].buffers : p \in Ports} = Allocated
      BY DEF Allocated, Ports
    <2> HIDE DEF GivesBack, Allocated
    <2> QED BY <1>0, <1>1, <2>1, <2>2 DEF Send, SendStep, ClientRecords
  <1>2. CASE Commands
    <2>1. ASSUME NEW s \in States \ {"Invalid"}, SendState(s) PROVE SendStep(Command("SetState", s))
      <3>1. Command("SetState", s) \in ClientOrders
        BY DEF ClientOrders
      <3>2. Send("SetState", s) /\ port' = port /\ faults' = faults /\ (Careful => client.eos = None)
        BY <2>1 DEF SendState, Patient, Send
      <3> QED BY <1>1, <3>1, <3>2
    <2>2. ASSUME NEW p \in Ports, SendFlush(p) PROVE SendStep(Command("Flush", p))
      <3>1. Command("Flush", p) \in ClientOrders
        BY DEF ClientOrders
      <3>2. Send("Flush", p) /\ port' = port /\ faults' = faults /\ (Careful => client.eos = None)
        BY <2>2 DEF SendFlush, Patient, Send
      <3> QED BY <1>1, <3>1, <3>2
    <2>3. ASSUME NEW p \in Ports, SendDisable(p) PROVE SendStep(Command("DisablePort", p))
      <3>1. Command("DisablePort", p) \in ClientOrders /\ ~GivesBack(Command("DisablePort", p))
        BY TaskIs DEF ClientOrders, GivesBack
      <3>2. Send("DisablePort", p) /\ faults' = faults
        BY <2>3 DEF SendDisable, Send
      <3>3. \A r \in Ports : port'[r].buffers = port[r].buffers
        BY <2>3, <1>0 DEF SendDisable, PortRecords
      <3> QED BY <1>1, <3>1, <3>2, <3>3
    <2>4. ASSUME NEW p \in Ports, SendEnable(p) PROVE SendStep(Command("EnablePort", p))
      <3>1. Command("EnablePort", p) \in ClientOrders /\ ~GivesBack(Command("EnablePort", p))
        BY TaskIs DEF ClientOrders, GivesBack
      <3>2. Send("EnablePort", p) /\ faults' = faults
        BY <2>4 DEF SendEnable, Send
      <3>3. \A r \in Ports : port'[r].buffers = port[r].buffers
        BY <2>4, <1>0 DEF SendEnable, PortRecords
      <3> QED BY <1>1, <3>1, <3>2, <3>3
    <2> QED BY <1>2, <2>1, <2>2, <2>3, <2>4 DEF Commands, SendStep
  <1>3. ASSUME NEW b \in Buffers, NEW eos \in BOOLEAN, GiveBuffer(b, eos) PROVE GiveStep(b)
    BY <1>0, <1>3 DEF GiveBuffer, GivesData, GiveStep, ClientRecords
  <1>4. ASSUME NEW b \in Buffers, AllocateBuffer(b) PROVE AllocStep
    <2>1. PortOf(b) \in Ports
      BY PortsAre
    <2>2. CASE client' = client /\ port' = [port EXCEPT ![PortOf(b)].error = TRUE]
      <3>1. \A p \in Ports : port'[p].buffers = port[p].buffers
        BY <1>0, <2>1, <2>2 DEF PortRecords
      <3>2. mainQ' = mainQ /\ faults' \in {faults, faults + 1}
        BY <1>4 DEF AllocateBuffer
      <3> QED BY <2>2, <3>1, <3>2 DEF AllocStep
    <2>3. CASE client' = Done(client, {b}) /\ faults' = faults /\
               port' = [port EXCEPT ![PortOf(b)].buffers = port[PortOf(b)].buffers \cup {b},
                                    ![PortOf(b)].playable = @ \/ port[PortOf(b)].buffers \cup {b} = OfPort(PortOf(b))]
      <3>1. \A p \in Ports : port'[p].buffers = IF p = PortOf(b) THEN port[p].buffers \cup {b}
                                                                  ELSE port[p].buffers
        BY <1>0, <2>1, <2>3 DEF PortRecords
      <3>2. mainQ' = mainQ /\ b \notin port[PortOf(b)].buffers
        BY <1>4 DEF AllocateBuffer
      <3>3. client'.pending = client.pending /\ client'.sent = client.sent
        BY <1>0, <2>3 DEF Done, ClientRecords
      <3> QED BY <2>3, <3>1, <3>2, <3>3 DEF AllocStep
    <2> QED BY <1>4, <2>2, <2>3 DEF AllocateBuffer
  <1>5. ASSUME NEW b \in Buffers, FreeBuffer(b) PROVE AllocStep
    <2>1. PortOf(b) \in Ports
      BY PortsAre
    <2>2. \A p \in Ports : port'[p].buffers = IF p = PortOf(b) THEN port[p].buffers \ {b}
                                                                ELSE port[p].buffers
      BY <1>0, <1>5, <2>1 DEF FreeBuffer, Remove, PortRecords
    <2> QED BY <1>0, <1>5, <2>2 DEF FreeBuffer, AllocStep, ClientRecords
  <1> QED BY <1>2, <1>3, <1>4, <1>5 DEF ClientActs, Data, Allocation

\* What the client is told leaves its command as it is.
LEMMA DoneIs ==
  ASSUME Types, NEW S
  PROVE  /\ Done(client, S).pending = client.pending /\ Done(client, S).sent = client.sent
         /\ Done(client, S).held = client.held \cup S
         /\ Done(client, S).before = client.before \ S
         /\ Done(client, S).eos = IF client.eos \in S THEN None ELSE client.eos
  BY TypesSplit DEF ClientTypes, Done

\* Answering a command changes nothing else of the client.
LEMMA AnsweredIs ==
  ASSUME Types
  PROVE  /\ Answered(client).pending = IF main.task = FromDecoder THEN client.pending ELSE NoCommand
         /\ Answered(client).sent = client.sent /\ Answered(client).held = client.held
         /\ Answered(client).before = client.before /\ Answered(client).eos = client.eos
  BY TypesSplit DEF ClientTypes, Answered

\* An order of the client is neither a buffer nor the decoder's.
LEMMA OrderIs ==
  ASSUME NEW t \in ClientOrders \cup {FromDecoder} \cup BufferTasks(Buffers)
  PROVE  /\ IsOrder(t) <=> t \in ClientOrders
         /\ t # NoCommand
         /\ t.cmd = "Buffer" <=> t \in BufferTasks(Buffers)
  <1>1. t \in ClientOrders => IsOrder(t) /\ t # NoCommand /\ t.cmd # "Buffer"
    BY KindsOfTasks DEF IsOrder
  <1>2. t = FromDecoder => ~IsOrder(t) /\ t # NoCommand /\ t.cmd # "Buffer"
    BY KindsOfTasks DEF IsOrder
  <1>3. t \in BufferTasks(Buffers) => ~IsOrder(t) /\ t # NoCommand /\ t.cmd = "Buffer"
    <2>1. t \in BufferTasks(Buffers) => t.cmd = "Buffer"
      BY KindsOfTasks
    <2> QED BY <2>1, KindsOfTasks DEF IsOrder
  <1> QED BY <1>1, <1>2, <1>3

\* What is in the queue of processorMain.
LEMMA MainQIs ==
  ASSUME Types
  PROVE  /\ Len(mainQ) \in Nat /\ DOMAIN mainQ = 1 .. Len(mainQ)
         /\ \A i \in DOMAIN mainQ : mainQ[i] \in ClientOrders \cup {FromDecoder} \cup BufferTasks(Buffers)
         /\ \A i \in DOMAIN mainQ : mainQ[i] # NoCommand
  <1>1. mainQ \in Seq(ClientOrders \cup {FromDecoder} \cup BufferTasks(Buffers))
    BY TypesSplit DEF MainQTypes
  <1>2. /\ Len(mainQ) \in Nat /\ DOMAIN mainQ = 1 .. Len(mainQ)
        /\ \A i \in DOMAIN mainQ : mainQ[i] \in ClientOrders \cup {FromDecoder} \cup BufferTasks(Buffers)
    BY <1>1, LenProperties, ElementOfSeq
  <1> QED BY <1>2, OrderIs

\* The queue with one more task.
LEMMA MainQMore ==
  ASSUME Types, NEW t \in ClientOrders \cup {FromDecoder} \cup BufferTasks(Buffers),
         mainQ' = Append(mainQ, t)
  PROVE  /\ Len(mainQ) \in Nat /\ DOMAIN mainQ = 1 .. Len(mainQ)
         /\ DOMAIN mainQ' = 1 .. Len(mainQ) + 1 /\ Len(mainQ') = Len(mainQ) + 1
         /\ \A i \in 1 .. Len(mainQ) : mainQ'[i] = mainQ[i]
         /\ mainQ'[Len(mainQ) + 1] = t
  BY TypesSplit, QueueEnd DEF MainQTypes

\* The queue without its head.
LEMMA MainQLess ==
  ASSUME Types, mainQ # <<>>, mainQ' = Tail(mainQ)
  PROVE  /\ Len(mainQ) \in Nat /\ Len(mainQ) > 0 /\ DOMAIN mainQ = 1 .. Len(mainQ)
         /\ Head(mainQ) = mainQ[1] /\ DOMAIN mainQ' = 1 .. Len(mainQ) - 1
         /\ \A i \in 1 .. Len(mainQ) - 1 : mainQ'[i] = mainQ[i + 1]
  BY TypesSplit, QueueHead DEF MainQTypes

\* Without an order of the client nothing is asked of it.
NoOrders == \A i \in DOMAIN mainQ : ~IsOrder(mainQ[i])

\* The client has one command under way at most.
LEMMA OneCommandKept ==
  ASSUME Types, OneCommand, Places4Task, Next
  PROVE  OneCommand'
  <1>0. /\ pause.n \in Nat /\ client.sent \in Nat
        /\ main.task \in ClientOrders \cup {FromDecoder, NoCommand}
    BY TypesSplit, OmxAssumption DEF SmallTypes, ClientTypes, MainTypes
  <1>1. ASSUME ClientActs PROVE OneCommand'
    <2>0. UNCHANGED <<pause, main>>
      BY <1>1, ClientFrame
    <2>1. ASSUME NEW b \in Buffers, GiveStep(b) PROVE OneCommand'
      <3>1. Command("Buffer", b) \in BufferTasks(Buffers)
        BY KindsOfTasks
      <3>2. ~IsOrder(Command("Buffer", b))
        BY TaskIs DEF IsOrder
      <3> QED BY <2>0, <2>1, <3>1, <3>2, MainQMore DEF GiveStep, OneCommand
    <2>2. ASSUME NEW t \in ClientOrders, SendStep(t) PROVE OneCommand'
      <3>1. NoOrders
        BY <2>2, MainQIs DEF OneCommand, SendStep, NoOrders
      <3>2. t # NoCommand
        BY KindsOfTasks
      <3>3. main.task \notin ClientOrders
        <4>1. NoCommand \notin ClientOrders
          BY KindsOfTasks
        <4> QED BY <4>1, <2>2 DEF OneCommand, SendStep
      <3>4. \A i \in DOMAIN mainQ' : IsOrder(mainQ'[i]) => i = Len(mainQ) + 1 /\ mainQ'[i] = t
        BY <2>2, <3>1, MainQMore DEF SendStep, NoOrders
      <3>5. pause.n + 1 <= client.sent + 1
        BY <2>2, <1>0 DEF OneCommand, SendStep
      <3> QED BY <1>0, <2>0, <2>2, <3>2, <3>3, <3>4, <3>5 DEF SendStep, OneCommand
    <2>3. CASE AllocStep
      BY <2>0, <2>3 DEF AllocStep, OneCommand
    <2> QED BY <1>1, <2>1, <2>2, <2>3, ClientMoves
  <1>2. ASSUME client'.pending = client.pending, client'.sent = client.sent, mainQ' = mainQ,
               main'.task = main.task, pause'.n = pause.n
        PROVE  OneCommand'
    BY <1>2 DEF OneCommand
  <1>3. ASSUME WorkerActs PROVE OneCommand'
    <2>1. client'.pending = client.pending /\ client'.sent = client.sent
      BY <1>3, DoneIs DEF WorkerActs, Worker, TakeTask, TreatBuffer, PassFence
    <2> QED BY <1>2, <1>3, <2>1, WorkerFrame
  <1>4. ASSUME Decoder PROVE OneCommand'
    <2>1. client'.pending = client.pending /\ client'.sent = client.sent
      <3>1. client' = client \/ (\E b \in Buffers : client' = Done(client, {b}))
                             \/ client' = Done(client, {mod.eosIn, mod.eosOut})
        BY <1>4 DEF Decoder, Consume, Display, EndOfStream, DecoderFails
      <3> QED BY <3>1, DoneIs
    <2>2. CASE mainQ' = mainQ
      BY <1>2, <1>4, <2>1, <2>2, DecoderFrame
    <2>3. CASE mainQ' = Append(mainQ, FromDecoder)
      <3>1. ~IsOrder(FromDecoder)
        BY DEF IsOrder
      <3> QED BY <1>4, <2>1, <2>3, <3>1, DecoderFrame, MainQMore DEF OneCommand
    <2> QED BY <1>4, <2>2, <2>3 DEF Decoder, Consume, Display, EndOfStream, DecoderFails
  <1>5. ASSUME Main PROVE OneCommand'
    <2>1. ASSUME mainQ' = Tail(mainQ), mainQ # <<>>
          PROVE  /\ \A i \in DOMAIN mainQ' : IsOrder(mainQ'[i]) => mainQ'[i] = client.pending
                 /\ \A i, j \in DOMAIN mainQ' : IsOrder(mainQ'[i]) /\ IsOrder(mainQ'[j]) => i = j
                 /\ \A i \in DOMAIN mainQ' : IsOrder(mainQ'[i]) => main.task \in {NoCommand, FromDecoder}
                 /\ IsOrder(Head(mainQ)) => \A i \in DOMAIN mainQ' : ~IsOrder(mainQ'[i])
                 /\ IsOrder(Head(mainQ)) => Head(mainQ) = client.pending
      <3>1. \A i \in DOMAIN mainQ' : i + 1 \in DOMAIN mainQ /\ mainQ'[i] = mainQ[i + 1] /\ i \in Nat
                                     /\ i + 1 # 1
        BY <2>1, MainQLess
      <3>2. 1 \in DOMAIN mainQ /\ Head(mainQ) = mainQ[1]
        BY <2>1, MainQLess
      <3>3. \A i, j \in DOMAIN mainQ' : i + 1 = j + 1 => i = j
        BY <3>1
      <3> QED BY <3>1, <3>2, <3>3 DEF OneCommand
    <2>2. CASE Forward
      <3>1. UNCHANGED <<pause, main, client>> /\ mainQ' = Tail(mainQ) /\ mainQ # <<>>
        BY <2>2 DEF Forward
      <3> QED BY <2>1, <3>1 DEF OneCommand
    <2>3. CASE StartCommand
      <3>1. /\ mainQ' = Tail(mainQ) /\ mainQ # <<>> /\ client' = client
            /\ main'.task = Head(mainQ) /\ main.pc = "pop"
            /\ Head(mainQ) \in ClientOrders \cup {FromDecoder}
        BY <2>3, MainHead DEF StartCommand
      <3>2. pause'.n = pause.n
        BY <2>3, TypesSplit DEF StartCommand, Unblock, SmallTypes
      <3>3. main'.task \in ClientOrders <=> IsOrder(Head(mainQ))
        BY <3>1, OrderIs
      <3>4. main'.task \notin ClientOrders => main'.task = FromDecoder
        BY <3>1
      <3> QED BY <2>1, <3>1, <3>2, <3>3, <3>4 DEF OneCommand
    <2>4. CASE ~Forward /\ ~StartCommand
      <3>0. mainQ' = mainQ /\ main.pc # "pop" /\ main.task # NoCommand
        <4>1. mainQ' = mainQ
          BY <2>4, <1>5, MainFrame
        <4>2. main.pc # "pop"
          BY <2>4, <1>5 DEF Main, JoinFill, JoinEmpty,
             RefuseTransition, StartPopulating, Populate, CreateModule, DestroyModule, Unpopulate,
             RunModule, StopModule, OtherTransition, Complete, StopInvalid, BecomeInvalid,
             FlushModule, FlushComplete, DisablePort, EnablePort, Treats
        <4> QED BY <4>1, <4>2 DEF Places4Task
      <3>1. client'.sent = client.sent
            /\ \/ client'.pending = client.pending
               \/ main.task # FromDecoder /\ client'.pending = NoCommand
        BY <1>5, MainModule, DoneIs, AnsweredIs
      <3>2. main'.task = main.task \/ main'.task = NoCommand
        <4>1. NextTask => main'.task = NoCommand
          BY DEF NextTask
        <4>2. \A pc : Goto(pc) => main'.task = main.task
          BY TypesSplit DEF Goto, MainTypes
        <4> QED BY <4>1, <4>2, <1>5, <2>4, MainMoves
      <3>3. main.task # FromDecoder => NoOrders
        BY <3>0 DEF OneCommand, NoOrders
      <3>4. pause'.n + (IF client'.pending # NoCommand THEN 1 ELSE 0) <= client'.sent
        <4>1. CASE ((Complete /\ New = "Pause") \/ FlushComplete) /\ Block
          <5>1. pause'.n = pause.n + 1 /\ client' = Answered(client)
            BY <4>1 DEF Block, Complete, FlushComplete, Fails
          <5>2. pause.n + 1 <= client.sent /\ main.task # FromDecoder
            BY <4>1, FenceCounted, KindsOfTasks DEF Complete, FlushComplete
          <5>3. client'.pending = NoCommand /\ client'.sent = client.sent
            BY <5>1, <5>2, AnsweredIs
          <5> QED BY <5>1, <5>2, <5>3, <1>0
        <4>2. CASE pause' = pause \/ pause' = Unblock(pause)
          <5>1. pause'.n = pause.n
            BY <4>2, TypesSplit DEF Unblock, SmallTypes
          <5> QED BY <5>1, <3>1, <1>0 DEF OneCommand
        <4> QED BY <4>1, <4>2, <1>5, <2>4, MainFrame DEF Complete, FlushComplete
      <3>5. main'.task \in ClientOrders => client'.pending = main'.task
        <4>1. NoCommand \notin ClientOrders
          BY KindsOfTasks
        <4>2. ASSUME main'.task \in ClientOrders PROVE main'.task = main.task /\ ~NextTask
          BY <3>2, <4>1, <4>2 DEF NextTask
        <4>3. ASSUME ~NextTask PROVE client'.pending = client.pending
          <5>1. client' = client \/ \E S : client' = Done(client, S)
            BY <4>3, <1>5, <2>4 DEF Main, JoinFill, JoinEmpty,
             RefuseTransition, StartPopulating, Populate, CreateModule, DestroyModule, Unpopulate,
             RunModule, StopModule, OtherTransition, Complete, StopInvalid, BecomeInvalid,
             FlushModule, FlushComplete, DisablePort, EnablePort, Fails
          <5> QED BY <5>1, DoneIs
        <4> QED BY <4>2, <4>3 DEF OneCommand
      <3>6. CASE main.task # FromDecoder
        BY <3>0, <3>3, <3>4, <3>5, <3>6 DEF OneCommand, NoOrders
      <3>7. CASE main.task = FromDecoder
        BY <3>0, <3>1, <3>2, <3>4, <3>5, <3>7 DEF OneCommand
      <3> QED BY <3>6, <3>7
    <2> QED BY <2>2, <2>3, <2>4
  <1>6. CASE UNCHANGED vars
    BY <1>6 DEF vars, OneCommand
  <1> QED BY <1>1, <1>3, <1>4, <1>5, <1>6, NextCases

\* The places keep to their commands.
LEMMA PlacesKept ==
  ASSUME Types, Places4Task, Next
  PROVE  Places4Task'
  <1>0. /\ main \in [pc : MainPlaces, task : ClientOrders \cup {FromDecoder, NoCommand}]
        /\ state \in States
    BY TypesSplit DEF MainTypes, SmallTypes
  <1>1. CASE UNCHANGED <<main, state>>
    BY <1>1 DEF Places4Task, New, ToIdle, ToLoaded
  <1>2. CASE NextTask
    BY <1>2, KindsOfTasks DEF NextTask, Places4Task
  <1>a. ASSUME NEW pc \in MainPlaces, Goto(pc), state' = state
        PROVE  main'.pc = pc /\ main'.task = main.task /\ New' = New
               /\ (main'.task # NoCommand => main' = [main EXCEPT !.pc = pc])
    BY <1>a, <1>0 DEF Goto, New
  <1>3. CASE StartCommand
    <2>1. Head(mainQ) \in ClientOrders \cup {FromDecoder} /\ Head(mainQ) # NoCommand
      BY <1>3, MainHead, OrderIs DEF StartCommand
    <2>2. state' = state /\ main'.task = Head(mainQ) /\ main'.pc \in {"joinFill", "treat"}
      BY <1>3 DEF StartCommand
    <2>3. main'.pc = "joinFill" => \/ Head(mainQ).cmd = "Flush"
                                   \/ Head(mainQ).cmd = "SetState" /\ IsFlushingRequired(state, Head(mainQ).arg)
      BY <1>3 DEF StartCommand
    <2> QED BY <2>1, <2>2, <2>3 DEF Places4Task, New
  <1>4. CASE Main /\ ~Forward /\ ~StartCommand /\ ~NextTask
    <2>0. state' = state /\ main.task # NoCommand /\ main.task \in ClientOrders \cup {FromDecoder}
      <3>1. main.pc # "pop"
        BY <1>4 DEF Main, JoinFill, JoinEmpty,
             RefuseTransition, StartPopulating, Populate, CreateModule, DestroyModule, Unpopulate,
             RunModule, StopModule, OtherTransition, Complete, StopInvalid, BecomeInvalid,
             FlushModule, FlushComplete, DisablePort, EnablePort, Treats
      <3> QED BY <3>1, <1>0, <1>4, MainFrame DEF Places4Task, Complete, BecomeInvalid, Fails
    <2>f. ASSUME NEW pc \in MainPlaces \ {"pop"}, Goto(pc),
                 pc \in {"joinFill", "joinEmpty"} =>
                    (main.task.cmd = "Flush" \/ (main.task.cmd = "SetState" /\ IsFlushingRequired(state, New))),
                 pc \in {"populateIn", "populateOut", "create"} => main.task.cmd = "SetState" /\ ToIdle,
                 pc \in {"unpopulateIn", "unpopulateOut"} => main.task.cmd = "SetState" /\ ToLoaded,
                 pc = "complete" => main.task.cmd = "SetState" /\ Legal(state, New) /\ New # "Invalid",
                 pc = "invalid" => main.task = FromDecoder /\ state # "Invalid",
                 pc = "flushed" => main.task.cmd = "Flush"
          PROVE  Places4Task'
      BY <2>0, <2>f, <1>a DEF Places4Task, New, ToIdle, ToLoaded
    <2>1. CASE JoinFill
      <3>1. Goto("joinEmpty") /\ main.pc = "joinFill"
        BY <2>1 DEF JoinFill
      <3>2. \/ main.task.cmd = "Flush"
            \/ main.task.cmd = "SetState" /\ IsFlushingRequired(state, New)
        BY <3>1 DEF Places4Task
      <3>3. main'.pc = "joinEmpty" /\ main'.task = main.task /\ New' = New /\ state' = state
        BY <3>1, <1>a, <2>0 DEF MainPlaces
      <3>4. IsFlushingRequired(state, New) => IsFlushingRequired(state', New')
        BY <3>3 DEF IsFlushingRequired
      <3> QED BY <3>2, <3>3, <3>4, <2>0 DEF Places4Task
    <2>14. CASE JoinEmpty
      BY <2>14, <2>f DEF JoinEmpty, MainPlaces
    <2>2. CASE StartPopulating
      BY <2>2, <2>f DEF StartPopulating, Treats, MainPlaces
    <2>3. CASE Populate("in", "populateIn", "populateOut")
      BY <2>3, <2>f, <1>4 DEF Populate, Fails, Places4Task, MainPlaces
    <2>4. CASE Populate("out", "populateOut", "create")
      BY <2>4, <2>f, <1>4 DEF Populate, Fails, Places4Task, MainPlaces
    <2>5. CASE CreateModule
      <3>1. Goto("complete") /\ main.task.cmd = "SetState" /\ ToIdle
        BY <2>5 DEF CreateModule, Places4Task
      <3>2. Legal(state, New) /\ New # "Invalid"
        BY <3>1 DEF ToIdle, Legal
      <3> QED BY <3>1, <3>2, <2>f DEF MainPlaces
    <2>6. CASE DestroyModule
      BY <2>6, <2>f DEF DestroyModule, Treats, MainPlaces
    <2>7. CASE Unpopulate("in", "unpopulateIn", "unpopulateOut")
      BY <2>7, <2>f, <1>4 DEF Unpopulate, Fails, Places4Task, MainPlaces
    <2>8. CASE Unpopulate("out", "unpopulateOut", "complete")
      <3>1. Goto("complete") /\ main.task.cmd = "SetState" /\ ToLoaded
        BY <2>8, <1>4 DEF Unpopulate, Fails, Places4Task
      <3>2. Legal(state, New) /\ New # "Invalid"
        BY <3>1 DEF ToLoaded, Legal
      <3> QED BY <3>1, <3>2, <2>f DEF MainPlaces
    <2>9. CASE RunModule
      <3>1. Goto("complete") /\ main.task.cmd = "SetState" /\ ToRun /\ Legal(state, New)
        BY <2>9, <1>4 DEF RunModule, Fails, Treats
      <3> QED BY <3>1, <2>f DEF MainPlaces, ToRun
    <2>10. CASE StopModule
      <3>1. Goto("complete") /\ main.task.cmd = "SetState" /\ ToStop /\ Legal(state, New)
        BY <2>10 DEF StopModule, Treats
      <3> QED BY <3>1, <2>f DEF MainPlaces, ToStop
    <2>11. CASE OtherTransition
      BY <2>11, <2>f DEF OtherTransition, Treats, MainPlaces
    <2>12. CASE StopInvalid
      <3>1. Goto("invalid") /\ main.task.cmd = "SetState" /\ New = "Invalid" /\ Legal(state, New)
        BY <2>12 DEF StopInvalid, Treats
      <3>2. main.task = FromDecoder
        BY <3>1, <2>0, KindsOfTasks DEF New
      <3>3. state # "Invalid"
        BY <3>1 DEF Legal
      <3> QED BY <3>1, <3>2, <3>3, <2>f DEF MainPlaces
    <2>13. CASE FlushModule
      BY <2>13, <2>f DEF FlushModule, Treats, MainPlaces
    <2> QED BY <1>4, <2>1, <2>2, <2>3, <2>4, <2>5, <2>6, <2>7, <2>8, <2>9, <2>10, <2>11, <2>12,
               <2>13, <2>14 DEF Main, RefuseTransition, Complete, BecomeInvalid, FlushComplete, DisablePort,
               EnablePort, Fails
  <1> QED BY <1>1, <1>2, <1>3, <1>4, NextCases, ClientFrame, DecoderFrame, WorkerFrame
          DEF Forward, vars

\* A processor that takes a task, or is given one, still ends after what is in its queue.
LEMMA EndsAfterTake ==
  ASSUME NEW p \in Ports, NEW w \in WorkerRecords(p), EndsInOrder(w), w.queue # <<>>,
         w.busy = NoCommand, ~w.ended, NEW u, u \in Tasks
  PROVE  /\ Head(w.queue) = Quit => EndsInOrder([w EXCEPT !.ended = TRUE])
         /\ Head(w.queue) # Quit => EndsInOrder([w EXCEPT !.queue = Tail(@), !.busy = u])
  <1>1. /\ Len(w.queue) \in Nat /\ DOMAIN w.queue = 1 .. Len(w.queue)
        /\ Len(Tail(w.queue)) = Len(w.queue) - 1 /\ DOMAIN Tail(w.queue) = 1 .. Len(w.queue) - 1
        /\ \A i \in 1 .. Len(w.queue) - 1 : Tail(w.queue)[i] = w.queue[i + 1]
        /\ Head(w.queue) = w.queue[1] /\ Len(w.queue) > 0 /\ w.queue \in Seq(Tasks)
    <2>1. w.queue \in Seq(Tasks)
      BY DEF WorkerRecords
    <2> QED BY <2>1, QueueHead
  <1>2. ASSUME Head(w.queue) = Quit PROVE EndsInOrder([w EXCEPT !.ended = TRUE])
    <2> DEFINE x == [w EXCEPT !.ended = TRUE]
    <2>1. x.queue = w.queue /\ x.busy = w.busy /\ (x.delete <=> w.delete)
      BY DEF WorkerRecords
    <2>2. 1 = Len(w.queue)
      <3>1. 1 \in DOMAIN w.queue /\ w.queue[1] = Quit
        BY <1>1, <1>2
      <3> QED BY <3>1 DEF EndsInOrder
    <2>3. w.queue = <<Quit>>
      BY <1>1, <1>2, <2>2
    <2> HIDE DEF x
    <2>4. EndsInOrder(x)
      BY <2>1, <2>3 DEF EndsInOrder
    <2> QED BY <2>4 DEF x
  <1>3. ASSUME Head(w.queue) # Quit PROVE EndsInOrder([w EXCEPT !.queue = Tail(@), !.busy = u])
    <2> DEFINE x == [w EXCEPT !.queue = Tail(@), !.busy = u]
    <2>1. x.queue = Tail(w.queue) /\ (x.delete <=> w.delete) /\ ~x.ended
      BY DEF WorkerRecords
    <2>2. ASSUME w.delete PROVE \E i \in DOMAIN x.queue : x.queue[i] = Quit
      <3>1. PICK i \in DOMAIN w.queue : w.queue[i] = Quit
        BY <2>2 DEF EndsInOrder
      <3>2. i # 1 /\ i \in 1 .. Len(w.queue)
        BY <3>1, <1>1, <1>3
      <3>3. i - 1 \in 1 .. Len(w.queue) - 1 /\ (i - 1) + 1 = i
        BY <3>2, <1>1
      <3> QED BY <3>1, <3>3, <1>1, <2>1
    <2>3. ASSUME NEW i \in DOMAIN x.queue, x.queue[i] = Quit
          PROVE  i + 1 \in DOMAIN w.queue /\ w.queue[i + 1] = Quit /\ i \in Nat
      BY <2>1, <2>3, <1>1
    <2>4. ASSUME NEW i \in DOMAIN x.queue, x.queue[i] = Quit PROVE i = Len(x.queue) /\ w.delete
      <3>1. i + 1 = Len(w.queue) /\ w.delete
        BY <2>3, <2>4 DEF EndsInOrder
      <3> QED BY <3>1, <2>1, <2>3, <2>4, <1>1
    <2> HIDE DEF x
    <2>5. EndsInOrder(x)
      BY <2>1, <2>2, <2>4 DEF EndsInOrder
    <2> QED BY <2>5 DEF x
  <1> QED BY <1>2, <1>3

\* ... nor when one is put, or the processor is told to end or renewed.
LEMMA EndsAfterPut ==
  ASSUME NEW p \in Ports, NEW w \in WorkerRecords(p), EndsInOrder(w)
  PROVE  /\ EndsInOrder([w EXCEPT !.busy = NoCommand])
         /\ ~w.delete => EndsInOrder(Deleted(w)) /\ Deleted(w).delete
         /\ ~w.delete => \A t \in Tasks \ {Quit} :
               EndsInOrder([w EXCEPT !.queue = Append(w.queue, t)])
         /\ \A t : ([w EXCEPT !.queue = Append(w.queue, t)]).delete <=> w.delete
         /\ [w EXCEPT !.busy = NoCommand].delete <=> w.delete
         /\ EndsInOrder(NewProcessor) /\ ~NewProcessor.delete
  <1>0. w.queue \in Seq(Tasks)
    BY DEF WorkerRecords
  <1>1. EndsInOrder([w EXCEPT !.busy = NoCommand])
    <2> DEFINE x == [w EXCEPT !.busy = NoCommand]
    <2>1. x.queue = w.queue /\ x.busy = NoCommand /\ (x.delete <=> w.delete) /\ (x.ended <=> w.ended)
      BY DEF WorkerRecords
    <2> HIDE DEF x
    <2>2. EndsInOrder(x)
      BY <2>1 DEF EndsInOrder
    <2> QED BY <2>2 DEF x
  <1>2. ASSUME ~w.delete, NEW t \in Tasks, NEW x, x.queue = Append(w.queue, t),
               x.delete <=> t = Quit, x.ended <=> w.ended
        PROVE  EndsInOrder(x)
    <2>1. /\ DOMAIN w.queue = 1 .. Len(w.queue) /\ Len(w.queue) \in Nat
          /\ DOMAIN x.queue = 1 .. Len(w.queue) + 1 /\ Len(x.queue) = Len(w.queue) + 1
          /\ \A i \in 1 .. Len(w.queue) : x.queue[i] = w.queue[i]
          /\ x.queue[Len(w.queue) + 1] = t
      BY <1>0, <1>2, QueueEnd
    <2>2. \A i \in DOMAIN w.queue : w.queue[i] # Quit
      BY <1>2 DEF EndsInOrder
    <2>3. ~w.ended
      <3>1. ASSUME w.queue = <<Quit>> PROVE FALSE
        BY <2>2, <3>1
      <3> QED BY <3>1 DEF EndsInOrder
    <2>4. \A i \in DOMAIN x.queue : i \in DOMAIN w.queue \/ i = Len(w.queue) + 1
      BY <2>1
    <2> QED BY <1>2, <2>1, <2>2, <2>3, <2>4 DEF EndsInOrder
  <1>3. ASSUME ~w.delete PROVE EndsInOrder(Deleted(w))
    <2>1. Deleted(w).queue = Append(w.queue, Quit) /\ Deleted(w).delete /\ (Deleted(w).ended <=> w.ended)
      BY DEF WorkerRecords, Deleted
    <2> QED BY <1>2, <1>3, <2>1, TaskSets
  <1>4. ASSUME ~w.delete, NEW t \in Tasks \ {Quit}
        PROVE EndsInOrder([w EXCEPT !.queue = Append(w.queue, t)])
    <2> DEFINE x == [w EXCEPT !.queue = Append(w.queue, t)]
    <2>1. x.queue = Append(w.queue, t) /\ (x.delete <=> w.delete) /\ (x.ended <=> w.ended)
      BY DEF WorkerRecords
    <2> HIDE DEF x
    <2>2. EndsInOrder(x)
      BY <1>2, <1>4, <2>1
    <2> QED BY <2>2 DEF x
  <1>5. EndsInOrder(NewProcessor) /\ ~NewProcessor.delete
    BY DEF EndsInOrder, NewProcessor
  <1>6. /\ \A t : ([w EXCEPT !.queue = Append(w.queue, t)]).delete <=> w.delete
        /\ [w EXCEPT !.busy = NoCommand].delete <=> w.delete
        /\ Deleted(w).delete
    BY DEF WorkerRecords, Deleted
  <1> QED BY <1>1, <1>3, <1>4, <1>5, <1>6

\* A worker that is told to end was told by its destructor, and has done all it was given.
LEMMA DestructorsKept ==
  ASSUME Types, Places4Task, OneCommand, Destructors, Next
  PROVE  Destructors'
  <1>0. /\ worker = [p \in Ports |-> worker[p]] /\ \A p \in Ports : worker[p] \in WorkerRecords(p)
        /\ Ports = {"in", "out"}
    BY TypesSplit, WorkerTypesAre DEF Ports
  <1>d. ASSUME NEW p \in Ports, NEW x, worker' = [worker EXCEPT ![p] = x], EndsInOrder(x),
               main'.pc = main.pc, x.delete <=> worker[p].delete
        PROVE  Destructors'
    <2>1. worker'[p] = x /\ \A r \in Ports \ {p} : worker'[r] = worker[r]
      BY <1>0, <1>d
    <2> QED BY <1>d, <2>1 DEF Destructors
  <1>1. CASE UNCHANGED worker /\ (main'.pc = main.pc \/
                 (main.pc \notin {"joinFill", "joinEmpty"} /\ main'.pc \notin {"joinFill", "joinEmpty"}))
    <2>1. \A p \in Ports : worker'[p] = worker[p]
      BY <1>1
    <2> QED BY <1>0, <1>1, <2>1 DEF Destructors
  <1>2. CASE WorkerActs
    <2>0. PICK p \in Ports : Worker(p)
      BY <1>2 DEF WorkerActs
    <2>1. main'.pc = main.pc /\ EndsInOrder(worker[p]) /\ worker[p] \in WorkerRecords(p)
      BY <1>0, <1>2, WorkerFrame DEF Destructors
    <2> DEFINE w == worker[p]
               u == IF w.delete THEN NoCommand ELSE Head(w.queue)
    <2>2. CASE TakeTask(p)
      <3>1. w.queue # <<>> /\ w.busy = NoCommand /\ ~w.ended
        BY <2>2 DEF TakeTask
      <3>2. u \in Tasks
        BY <3>1, WorkerHead, TaskSets
      <3>3. CASE Head(w.queue) = Quit
        <4>1. worker' = [worker EXCEPT ![p] = [w EXCEPT !.ended = TRUE]]
          BY <2>2, <3>3 DEF TakeTask
        <4>2. EndsInOrder([w EXCEPT !.ended = TRUE])
          BY <2>1, <3>1, <3>2, <3>3, EndsAfterTake
        <4>3. [w EXCEPT !.ended = TRUE].delete <=> w.delete
          BY <2>1 DEF WorkerRecords
        <4> QED BY <1>d, <2>1, <4>1, <4>2, <4>3
      <3>4. CASE Head(w.queue) # Quit
        <4>1. worker' = [worker EXCEPT ![p] = [w EXCEPT !.queue = Tail(@), !.busy = u]]
          BY <2>2, <3>4 DEF TakeTask
        <4>2. EndsInOrder([w EXCEPT !.queue = Tail(@), !.busy = u])
          BY <2>1, <3>1, <3>2, <3>4, EndsAfterTake
        <4>3. [w EXCEPT !.queue = Tail(@), !.busy = u].delete <=> w.delete
          BY <2>1 DEF WorkerRecords
        <4> QED BY <1>d, <2>1, <4>1, <4>2, <4>3
      <3> QED BY <3>3, <3>4
    <2>3. CASE TreatBuffer(p) \/ PassFence(p)
      <3>1. worker' = [worker EXCEPT ![p] = [w EXCEPT !.busy = NoCommand]]
        BY <2>3 DEF TreatBuffer, PassFence
      <3> QED BY <1>d, <2>1, <3>1, EndsAfterPut
    <2> QED BY <2>0, <2>2, <2>3 DEF Worker
  <1>3. CASE Forward
    <2> DEFINE t == Head(mainQ)
               p == PortOf(t.arg)
    <2>1. p \in Ports /\ t \in Tasks \ {Quit} /\ main.pc = "pop" /\ main' = main
      <3>1. t = Command("Buffer", t.arg) /\ t.arg \in Buffers /\ p \in Ports
            /\ main.pc = "pop" /\ main' = main
        BY <1>3, MainHead DEF Forward
      <3>2. t \in BufferTasks(Buffers)
        BY <3>1, KindsOfTasks
      <3>3. t # Quit /\ t \in Tasks
        BY <3>2, KindsOfTasks, TaskSets
      <3> QED BY <3>1, <3>3
    <2>2. worker' = [worker EXCEPT ![p] = [worker[p] EXCEPT !.queue = Append(worker[p].queue, t)]]
      BY <1>3 DEF Forward
    <2> HIDE DEF p, t
    <2>3. EndsInOrder(worker[p]) /\ ~worker[p].delete /\ worker[p] \in WorkerRecords(p)
      BY <1>0, <2>1 DEF Destructors
    <2> QED BY <1>d, <2>1, <2>2, <2>3, EndsAfterPut
  <1>4. CASE StartCommand
    <2>1. \A p \in Ports : EndsInOrder(worker[p]) /\ ~worker[p].delete
      BY <1>4 DEF Destructors, StartCommand
    <2>2. CASE main'.pc = "treat" /\ worker' = worker
      BY <1>1, <1>4, <2>2 DEF StartCommand
    <2>3. CASE main'.pc = "joinFill" /\ worker' = [worker EXCEPT !["out"] = Deleted(worker["out"])]
      <3>1. worker'["out"] = Deleted(worker["out"]) /\ worker'["in"] = worker["in"]
        BY <1>0, <2>3
      <3>2. EndsInOrder(Deleted(worker["out"])) /\ Deleted(worker["out"]).delete
        BY <1>0, <2>1, EndsAfterPut
      <3> QED BY <1>0, <2>1, <2>3, <3>1, <3>2 DEF Destructors
    <2> QED BY <1>4, <2>2, <2>3 DEF StartCommand
  <1>5. CASE JoinFill
    <2>1. main.pc = "joinFill" /\ main'.pc = "joinEmpty"
      BY <1>5, TypesSplit DEF JoinFill, Goto, MainTypes
    <2>2. worker'["out"] = NewProcessor /\ worker'["in"] = Deleted(worker["in"])
      BY <1>0, <1>5 DEF JoinFill
    <2>3. ~worker["in"].delete /\ EndsInOrder(worker["in"])
      BY <1>0, <2>1 DEF Destructors
    <2>4. EndsInOrder(Deleted(worker["in"])) /\ Deleted(worker["in"]).delete
          /\ EndsInOrder(NewProcessor) /\ ~NewProcessor.delete
      BY <1>0, <2>3, EndsAfterPut
    <2> QED BY <1>0, <2>1, <2>2, <2>4 DEF Destructors
  <1>6. CASE JoinEmpty
    <2>1. main.pc = "joinEmpty" /\ main'.pc = "treat"
      BY <1>6, TypesSplit DEF JoinEmpty, Goto, MainTypes
    <2>2. worker'["in"] = NewProcessor /\ worker'["out"] = worker["out"]
      BY <1>0, <1>6 DEF JoinEmpty
    <2>3. ~worker["out"].delete /\ EndsInOrder(worker["out"])
      BY <1>0, <2>1 DEF Destructors
    <2>4. EndsInOrder(NewProcessor) /\ ~NewProcessor.delete
      BY DEF NewProcessor, EndsInOrder
    <2> QED BY <1>0, <2>1, <2>2, <2>3, <2>4 DEF Destructors
  <1>7. CASE ((Complete /\ New = "Pause") \/ FlushComplete) /\ Block
    <2>1. main.pc \in {"complete", "flushed"} /\ main'.pc = "pop"
      BY <1>7 DEF Complete, FlushComplete, Fails, NextTask
    <2> DEFINE t == FenceTask(pause.n + 1)
    <2>2. t \in Fences
      BY <1>7, FenceCounted DEF Complete, FlushComplete, Fences
    <2>3. t \in Tasks \ {Quit}
      BY <2>2, TaskSets, KindsOfTasks
    <2>4. worker' = [p \in Ports |-> [worker[p] EXCEPT !.queue = Append(worker[p].queue, t)]]
      BY <1>7, <1>0 DEF Block, Fence
    <2> HIDE DEF t
    <2>5. \A p \in Ports : ~worker[p].delete /\ EndsInOrder(worker[p])
      BY <1>0, <2>1 DEF Destructors
    <2>6. \A p \in Ports : EndsInOrder(worker'[p]) /\ ~worker'[p].delete
      BY <1>0, <2>3, <2>4, <2>5, EndsAfterPut
    <2> QED BY <1>0, <2>1, <2>6 DEF Destructors
  <1>8. CASE Main /\ UNCHANGED worker /\ ~StartCommand
    <2>1. main'.pc = main.pc \/
            (main.pc \notin {"joinFill", "joinEmpty"} /\ main'.pc \notin {"joinFill", "joinEmpty"})
      <3>1. main' = main \/ NextTask \/ \E pc \in MainPlaces \ {"pop"} : Goto(pc)
        BY <1>8, MainMoves
      <3>2. main'.pc \in {main.pc, "pop", "treat", "populateIn", "populateOut", "create",
                 "unpopulateIn", "unpopulateOut", "complete", "invalid", "flushed"} \/ JoinFill \/ JoinEmpty
        BY <1>8, TypesSplit DEF Main, RefuseTransition, StartPopulating, Populate, CreateModule,
             DestroyModule, Unpopulate, RunModule, StopModule, OtherTransition, Complete,
             StopInvalid, BecomeInvalid, FlushModule, FlushComplete, DisablePort, EnablePort,
             Forward, Fails, NextTask, Goto, MainTypes
      <3>3. JoinFill \/ JoinEmpty \/ main.pc \notin {"joinFill", "joinEmpty"}
        BY <1>8 DEF Main, RefuseTransition, StartPopulating, Populate, CreateModule,
             DestroyModule, Unpopulate, RunModule, StopModule, OtherTransition, Complete,
             StopInvalid, BecomeInvalid, FlushModule, FlushComplete, DisablePort, EnablePort,
             Forward, Treats
      <3>4. ~JoinFill /\ ~JoinEmpty
        <4>1. ASSUME JoinFill PROVE FALSE
          <5>1. worker'["out"] = NewProcessor /\ worker["out"].ended
            BY <1>0, <4>1 DEF JoinFill
          <5> QED BY <1>8, <5>1 DEF NewProcessor
        <4>2. ASSUME JoinEmpty PROVE FALSE
          <5>1. worker'["in"] = NewProcessor /\ worker["in"].ended
            BY <1>0, <4>2 DEF JoinEmpty
          <5> QED BY <1>8, <5>1 DEF NewProcessor
        <4> QED BY <4>1, <4>2
      <3> QED BY <3>2, <3>3, <3>4
    <2> QED BY <1>1, <1>8, <2>1
  <1>9. Complete => UNCHANGED worker \/ (New = "Pause" /\ Block)
    BY DEF Complete
  <1>10. FlushComplete => UNCHANGED worker \/ Block
    BY DEF FlushComplete
  <1>11. CASE Main
    BY <1>3, <1>4, <1>5, <1>6, <1>7, <1>8, <1>9, <1>10, <1>11, MainFrame
  <1>12. CASE ClientActs \/ Decoder \/ UNCHANGED vars
    <2>1. worker' = worker /\ main' = main
      BY <1>12, ClientFrame, DecoderFrame DEF vars
    <2>2. UNCHANGED worker /\ main'.pc = main.pc
      BY <2>1
    <2> QED BY <1>1, <2>2
  <1> QED BY <1>2, <1>11, <1>12, NextCases
\* The numbers the places of a buffer are counted with.
OneIf(P) == IF P THEN 1 ELSE 0
InQueue(q, b) == Cardinality(QueuedIn(q, b))

\* A buffer is counted zero times where it is not queued.
LEMMA QueuedFinite ==
  ASSUME NEW S, NEW q \in Seq(S), NEW b
  PROVE  IsFiniteSet(QueuedIn(q, b)) /\ InQueue(q, b) \in Nat
         /\ (InQueue(q, b) = 0 <=> QueuedIn(q, b) = {})
         /\ (InQueue(q, b) = 0 <=> \A i \in DOMAIN q : q[i] # Command("Buffer", b))
  <1>1. Len(q) \in Nat /\ DOMAIN q = 1 .. Len(q)
    BY LenProperties
  <1>2. IsFiniteSet(1 .. Len(q)) /\ QueuedIn(q, b) \subseteq 1 .. Len(q)
    BY <1>1, FS_Interval DEF QueuedIn
  <1>3. IsFiniteSet(QueuedIn(q, b))
    BY <1>2, FS_Subset
  <1>4. InQueue(q, b) \in Nat /\ (InQueue(q, b) = 0 <=> QueuedIn(q, b) = {})
    BY <1>3, FS_CardinalityType, FS_EmptySet DEF InQueue
  <1>5. QueuedIn(q, b) = {} <=> \A i \in DOMAIN q : q[i] # Command("Buffer", b)
    BY DEF QueuedIn
  <1> QED BY <1>3, <1>4, <1>5

\* One task more at the end, one less at the head.
LEMMA QueuedMore ==
  ASSUME NEW S, NEW q \in Seq(S), NEW t \in S, NEW b
  PROVE  InQueue(Append(q, t), b) = InQueue(q, b) + OneIf(t = Command("Buffer", b))
  <1>1. /\ Len(q) \in Nat /\ DOMAIN q = 1 .. Len(q) /\ DOMAIN Append(q, t) = 1 .. Len(q) + 1
        /\ \A i \in 1 .. Len(q) : Append(q, t)[i] = q[i]
        /\ Append(q, t)[Len(q) + 1] = t
    BY QueueEnd
  <1>2. CASE t = Command("Buffer", b)
    <2>1. QueuedIn(Append(q, t), b) = QueuedIn(q, b) \cup {Len(q) + 1}
      BY <1>1, <1>2 DEF QueuedIn
    <2>2. Len(q) + 1 \notin QueuedIn(q, b)
      BY <1>1 DEF QueuedIn
    <2> QED BY <1>2, <2>1, <2>2, QueuedFinite, FS_AddElement DEF InQueue, OneIf
  <1>3. CASE t # Command("Buffer", b)
    <2>1. QueuedIn(Append(q, t), b) = QueuedIn(q, b)
      BY <1>1, <1>3 DEF QueuedIn
    <2> QED BY <1>3, <2>1, QueuedFinite DEF InQueue, OneIf
  <1> QED BY <1>2, <1>3

\* A task taken counts once less.
LEMMA QueuedLess ==
  ASSUME NEW S, NEW q \in Seq(S), q # <<>>, NEW b
  PROVE  InQueue(q, b) = InQueue(Tail(q), b) + OneIf(Head(q) = Command("Buffer", b))
  <1>1. /\ Len(q) \in Nat /\ Len(q) > 0 /\ DOMAIN q = 1 .. Len(q)
        /\ Head(q) = q[1] /\ Tail(q) \in Seq(S) /\ DOMAIN Tail(q) = 1 .. Len(q) - 1
        /\ \A i \in 1 .. Len(q) - 1 : Tail(q)[i] = q[i + 1]
    BY QueueHead
  <1> DEFINE T == QueuedIn(Tail(q), b)
             R == QueuedIn(q, b) \ {1}
             f == [i \in T |-> i + 1]
  <1>2. T \subseteq 1 .. Len(q) - 1
    BY <1>1 DEF QueuedIn
  <1>3. \A i \in T : i + 1 \in R
    BY <1>1, <1>2 DEF QueuedIn
  <1>4. \A j \in R : j - 1 \in T /\ (j - 1) + 1 = j
    BY <1>1 DEF QueuedIn
  <1>5. f \in Bijection(T, R)
    BY <1>2, <1>3, <1>4, Fun_IsBij
  <1>6. IsFiniteSet(T)
    BY <1>1, QueuedFinite
  <1>7. Cardinality(T) = Cardinality(R)
    <2>1. ExistsBijection(T, R)
      BY <1>5 DEF ExistsBijection
    <2> QED BY <1>6, <2>1, FS_Bijection
  <1>8. Cardinality(R) = Cardinality(QueuedIn(q, b)) - OneIf(Head(q) = Command("Buffer", b))
    <2>1. CASE Head(q) = Command("Buffer", b)
      <3>1. 1 \in QueuedIn(q, b)
        BY <1>1, <2>1 DEF QueuedIn
      <3> QED BY <2>1, <3>1, QueuedFinite, FS_RemoveElement DEF OneIf
    <2>2. CASE Head(q) # Command("Buffer", b)
      <3>1. R = QueuedIn(q, b)
        BY <1>1, <2>2 DEF QueuedIn
      <3>2. Cardinality(QueuedIn(q, b)) \in Nat
        BY QueuedFinite DEF InQueue
      <3>3. OneIf(Head(q) = Command("Buffer", b)) = 0
        BY <2>2 DEF OneIf
      <3> HIDE DEF R
      <3> QED BY <3>1, <3>2, <3>3
    <2> QED BY <2>1, <2>2
  <1>9. OneIf(Head(q) = Command("Buffer", b)) \in Nat /\ Cardinality(T) \in Nat
        /\ Cardinality(QueuedIn(q, b)) \in Nat
    BY <1>6, QueuedFinite, FS_CardinalityType DEF OneIf, InQueue
  <1> HIDE DEF T, R
  <1> QED BY <1>7, <1>8, <1>9 DEF InQueue, T
\* The places of a buffer, one by one.
WithClient(b) == OneIf(b \in client.held)
WithModule(b) == OneIf(b \in Held(mod))
InMainQ(b) == InQueue(mainQ, b)
InWorker(b) == InQueue(worker[PortOf(b)].queue, b)
InHands(b) == OneIf(worker[PortOf(b)].busy = Command("Buffer", b))

\* It counts one or not at all.
LEMMA OneIfIs == \A P \in BOOLEAN : OneIf(P) \in {0, 1}
  BY DEF OneIf

PlacesCounted ==
  \A b \in Buffers :
     /\ WithClient(b) \in {0, 1} /\ WithModule(b) \in {0, 1} /\ InHands(b) \in {0, 1}
     /\ InMainQ(b) \in Nat /\ InWorker(b) \in Nat
     /\ Places(b) = WithClient(b) + WithModule(b) + InMainQ(b) + InWorker(b) + InHands(b)

\* The count of the places is the sum of the five.
LEMMA PlacesAre == Types => PlacesCounted
  <1> SUFFICES ASSUME Types, NEW b \in Buffers
               PROVE  /\ WithClient(b) \in {0, 1} /\ WithModule(b) \in {0, 1} /\ InHands(b) \in {0, 1}
                      /\ InMainQ(b) \in Nat /\ InWorker(b) \in Nat
                      /\ Places(b) = WithClient(b) + WithModule(b) + InMainQ(b) + InWorker(b) + InHands(b)
    BY DEF PlacesCounted
  <1>1. InMainQ(b) \in Nat
    BY QueuedFinite, TypesSplit DEF MainQTypes, InMainQ
  <1>2. InWorker(b) \in Nat
    <2>1. PortOf(b) \in Ports
      BY PortsAre
    <2>2. worker[PortOf(b)].queue \in Seq(Tasks)
      BY <2>1, TypesSplit DEF WorkerTypes
    <2> QED BY <2>2, QueuedFinite DEF InWorker
  <1>3. WithClient(b) \in {0, 1} /\ WithModule(b) \in {0, 1} /\ InHands(b) \in {0, 1}
    BY DEF WithClient, WithModule, InHands, OneIf
  <1> QED BY <1>1, <1>2, <1>3 DEF Places, WithClient, WithModule, InMainQ, InWorker, InHands, OneIf, InQueue

\* The same after a step.
LEMMA PlacesAreNext == Types' => PlacesCounted'
  BY PlacesAre, PTL

\* How the places change with the variables they are counted in.
LEMMA MainQPlaces ==
  ASSUME Types, NEW b \in Buffers
  PROVE  /\ mainQ' = mainQ => InMainQ(b)' = InMainQ(b)
         /\ \A t \in ClientOrders \cup {FromDecoder} \cup BufferTasks(Buffers) :
               mainQ' = Append(mainQ, t) => InMainQ(b)' = InMainQ(b) + OneIf(t = Command("Buffer", b))
         /\ mainQ # <<>> /\ mainQ' = Tail(mainQ) =>
               InMainQ(b) = InMainQ(b)' + OneIf(Head(mainQ) = Command("Buffer", b))
  <1>1. mainQ \in Seq(ClientOrders \cup {FromDecoder} \cup BufferTasks(Buffers))
    BY TypesSplit DEF MainQTypes
  <1>2. \A t \in ClientOrders \cup {FromDecoder} \cup BufferTasks(Buffers) :
           InQueue(Append(mainQ, t), b) = InQueue(mainQ, b) + OneIf(t = Command("Buffer", b))
    BY <1>1, QueuedMore
  <1>3. mainQ # <<>> => InQueue(mainQ, b) = InQueue(Tail(mainQ), b) + OneIf(Head(mainQ) = Command("Buffer", b))
    BY <1>1, QueuedLess
  <1> QED BY <1>2, <1>3 DEF InMainQ

\* A step of one processor counts for the buffers of its port only.
LEMMA WorkerPlaces ==
  ASSUME Types, NEW b \in Buffers, NEW p \in Ports, NEW x, worker' = [worker EXCEPT ![p] = x]
  PROVE  /\ PortOf(b) # p => InWorker(b)' = InWorker(b) /\ InHands(b)' = InHands(b)
         /\ PortOf(b) = p => InWorker(b)' = InQueue(x.queue, b)
                             /\ InHands(b)' = OneIf(x.busy = Command("Buffer", b))
  <1>1. worker'[p] = x /\ \A r \in Ports \ {p} : worker'[r] = worker[r]
    BY TypesSplit DEF WorkerTypes
  <1>2. PortOf(b) \in Ports
    BY PortsAre
  <1>3. CASE PortOf(b) # p
    <2>1. worker'[PortOf(b)] = worker[PortOf(b)]
      BY <1>1, <1>2, <1>3
    <2> QED BY <1>3, <2>1 DEF InWorker, InHands
  <1>4. CASE PortOf(b) = p
    <2>1. worker'[PortOf(b)] = x
      BY <1>1, <1>4
    <2> QED BY <1>4, <2>1 DEF InWorker, InHands
  <1> QED BY <1>3, <1>4

\* What does not change counts the same.
LEMMA SamePlaces ==
  ASSUME NEW b
  PROVE  /\ client'.held = client.held => WithClient(b)' = WithClient(b)
         /\ mod'.in = mod.in /\ mod'.out = mod.out => WithModule(b)' = WithModule(b)
         /\ worker' = worker => InWorker(b)' = InWorker(b) /\ InHands(b)' = InHands(b)
  BY DEF WithClient, WithModule, InWorker, InHands, Held

\* What a buffer that is with the client, with the module or queued is not.
LEMMA OneAt ==
  ASSUME Types, OnePlaceEach, Running, NEW b \in Buffers
  PROVE  /\ WithClient(b) + WithModule(b) + InMainQ(b) + InWorker(b) + InHands(b) =
               OneIf(b \in Allocated)
         /\ WithClient(b) = 1 => WithModule(b) = 0 /\ InMainQ(b) = 0 /\ InWorker(b) = 0
                                 /\ InHands(b) = 0 /\ b \in Allocated
         /\ WithModule(b) = 1 => WithClient(b) = 0 /\ InMainQ(b) = 0 /\ InWorker(b) = 0
                                 /\ InHands(b) = 0 /\ b \in Allocated
         /\ InHands(b) = 1 => WithClient(b) = 0 /\ InMainQ(b) = 0 /\ InWorker(b) = 0
                                 /\ WithModule(b) = 0 /\ b \in Allocated
         /\ InWorker(b) > 0 => WithClient(b) = 0 /\ InMainQ(b) = 0 /\ InWorker(b) = 1
                                 /\ WithModule(b) = 0 /\ InHands(b) = 0 /\ b \in Allocated
         /\ InMainQ(b) > 0 => WithClient(b) = 0 /\ InMainQ(b) = 1 /\ InWorker(b) = 0
                                 /\ WithModule(b) = 0 /\ InHands(b) = 0 /\ b \in Allocated
         /\ b \notin Allocated => WithClient(b) = 0 /\ WithModule(b) = 0 /\ InMainQ(b) = 0
                                  /\ InWorker(b) = 0 /\ InHands(b) = 0
  <1>1. Places(b) = OneIf(b \in Allocated)
    BY DEF OnePlaceEach, OneIf
  <1>2. WithClient(b) + WithModule(b) + InMainQ(b) + InWorker(b) + InHands(b) = OneIf(b \in Allocated)
    BY <1>1, PlacesAre DEF PlacesCounted
  <1>3. /\ WithClient(b) \in {0, 1} /\ WithModule(b) \in {0, 1} /\ InHands(b) \in {0, 1}
        /\ InMainQ(b) \in Nat /\ InWorker(b) \in Nat
    BY PlacesAre DEF PlacesCounted
  <1> HIDE DEF WithClient, WithModule, InMainQ, InWorker, InHands, Allocated
  <1>4. CASE b \in Allocated
    <2>1. OneIf(b \in Allocated) = 1
      BY <1>4 DEF OneIf
    <2> QED BY <1>2, <1>3, <1>4, <2>1
  <1>5. CASE b \notin Allocated
    <2>1. OneIf(b \in Allocated) = 0
      BY <1>5 DEF OneIf
    <2>2. WithClient(b) = 0 /\ WithModule(b) = 0 /\ InMainQ(b) = 0 /\ InWorker(b) = 0 /\ InHands(b) = 0
      BY <1>2, <1>3, <2>1
    <2> QED BY <1>2, <1>5, <2>2
  <1> QED BY <1>4, <1>5
\* A buffer is in one place after the step if its places add up.
AddUp(b) == WithClient(b) + WithModule(b) + InMainQ(b) + InWorker(b) + InHands(b)

\* It is enough to add up after the step ...
LEMMA AddUpNext ==
  ASSUME Types', Running' => \A b \in Buffers : AddUp(b)' = OneIf(b \in Allocated')
  PROVE  OnePlaceEach'
  <1>1. PlacesCounted'
    BY PlacesAreNext
  <1>2. \A b \in Buffers : Places(b)' = AddUp(b)'
    BY <1>1 DEF PlacesCounted, AddUp
  <1> QED BY <1>2 DEF OnePlaceEach, OneIf

\* ... as it adds up before.
LEMMA AddUpNow ==
  ASSUME Types, OnePlaceEach, Running, NEW b \in Buffers
  PROVE  /\ AddUp(b) = OneIf(b \in Allocated)
         /\ WithClient(b) \in {0, 1} /\ WithModule(b) \in {0, 1} /\ InHands(b) \in {0, 1}
         /\ InMainQ(b) \in Nat /\ InWorker(b) \in Nat
  BY OneAt, PlacesAre DEF AddUp, PlacesCounted

\* Which buffers are allocated depends on the ports only.
LEMMA AllocatedSame ==
  ASSUME \A p \in Ports : port'[p].buffers = port[p].buffers
  PROVE  Allocated' = Allocated
  BY PortsAre DEF Allocated

\* The client gives, asks, allocates and frees.
LEMMA ClientOnePlace ==
  ASSUME Types, Types', OnePlaceEach, Running, ClientActs
  PROVE  OnePlaceEach'
  <1>0. mod' = mod /\ worker' = worker /\ crash' = crash
    BY ClientFrame
  <1>1. ASSUME NEW c \in Buffers, GiveStep(c) PROVE OnePlaceEach'
    <2>1. ASSUME NEW b \in Buffers PROVE AddUp(b)' = OneIf(b \in Allocated')
      <3>1. Allocated' = Allocated
        BY <1>1, AllocatedSame DEF GiveStep
      <3>2. WithModule(b)' = WithModule(b) /\ InWorker(b)' = InWorker(b) /\ InHands(b)' = InHands(b)
        BY <1>0, SamePlaces
      <3>3. Command("Buffer", c) \in BufferTasks(Buffers) /\ (Command("Buffer", c) = Command("Buffer", b) <=> b = c)
        BY KindsOfTasks, TaskIs
      <3>4. InMainQ(b)' = InMainQ(b) + OneIf(Command("Buffer", c) = Command("Buffer", b))
        BY <1>1, <3>3, MainQPlaces DEF GiveStep
      <3>5. CASE b = c
        <4>1. WithClient(b) = 1 /\ WithClient(b)' = 0 /\ InMainQ(b)' = InMainQ(b) + 1
          BY <1>1, <3>3, <3>4, <3>5 DEF GiveStep, WithClient, OneIf
        <4> QED BY <3>1, <3>2, <4>1, AddUpNow DEF AddUp
      <3>6. CASE b # c
        <4>1. WithClient(b)' = WithClient(b)
          BY <1>1, <3>6 DEF GiveStep, WithClient
        <4>2. InMainQ(b)' = InMainQ(b) + 0
          BY <3>3, <3>4, <3>6 DEF OneIf
        <4> QED BY <3>1, <3>2, <4>1, <4>2, AddUpNow DEF AddUp
      <3> QED BY <3>5, <3>6
    <2> QED BY <2>1, AddUpNext
  <1>2. ASSUME NEW t \in ClientOrders, SendStep(t) PROVE OnePlaceEach'
    <2>1. ASSUME NEW b \in Buffers PROVE AddUp(b)' = OneIf(b \in Allocated')
      <3>1. Allocated' = Allocated
        BY <1>2, AllocatedSame DEF SendStep
      <3>2. WithModule(b)' = WithModule(b) /\ InWorker(b)' = InWorker(b) /\ InHands(b)' = InHands(b)
            /\ WithClient(b)' = WithClient(b)
        BY <1>0, <1>2, SamePlaces DEF SendStep
      <3>3. t # Command("Buffer", b)
        BY KindsOfTasks, TaskIs
      <3>4. InMainQ(b)' = InMainQ(b) + 0
        BY <1>2, <3>3, MainQPlaces DEF SendStep, OneIf
      <3> QED BY <3>1, <3>2, <3>4, AddUpNow DEF AddUp
    <2> QED BY <2>1, AddUpNext
  <1>3. CASE AllocStep
    <2>0. ASSUME NEW b \in Buffers
          PROVE  WithModule(b)' = WithModule(b) /\ InWorker(b)' = InWorker(b)
                 /\ InHands(b)' = InHands(b) /\ InMainQ(b)' = InMainQ(b)
      BY <1>0, <1>3, SamePlaces, MainQPlaces DEF AllocStep
    <2>1. CASE client' = client /\ \A p \in Ports : port'[p].buffers = port[p].buffers
      <3>1. Allocated' = Allocated
        BY <2>1, AllocatedSame
      <3>2. ASSUME NEW b \in Buffers PROVE AddUp(b)' = OneIf(b \in Allocated')
        <4>1. WithClient(b)' = WithClient(b)
          BY <2>1, SamePlaces
        <4> QED BY <3>1, <4>1, <2>0, AddUpNow DEF AddUp
      <3> QED BY <3>2, AddUpNext
    <2>a. ASSUME NEW b \in Buffers
          PROVE  b \in Allocated <=> b \in port[PortOf(b)].buffers
      <3>1. /\ port["in"].buffers \subseteq InBuffers /\ port["out"].buffers \subseteq OutBuffers
            /\ b \in InBuffers => PortOf(b) = "in" /\ b \notin OutBuffers
            /\ b \in OutBuffers => PortOf(b) = "out" /\ b \notin InBuffers
            /\ b \in InBuffers \cup OutBuffers
        BY TypesSplit, PortsAre DEF OwnBuffers, PortOf
      <3> QED BY <3>1 DEF Allocated
    <2>2. ASSUME NEW c \in Buffers, c \notin port[PortOf(c)].buffers, client' = Done(client, {c}),
                 \A p \in Ports : port'[p].buffers = IF p = PortOf(c) THEN port[p].buffers \cup {c}
                                                                      ELSE port[p].buffers
          PROVE  OnePlaceEach'
      <3>1. Allocated' = Allocated \cup {c}
        BY <2>2, PortsAre DEF Allocated
      <3>2. c \notin Allocated
        BY <2>2, <2>a
      <3>3. ASSUME NEW b \in Buffers PROVE AddUp(b)' = OneIf(b \in Allocated')
        <4>1. CASE b = c
          <5>1. WithClient(b)' = 1
            BY <4>1, <2>2, DoneIs DEF WithClient, OneIf
          <5>2. WithClient(b) = 0 /\ WithModule(b) = 0 /\ InMainQ(b) = 0 /\ InWorker(b) = 0 /\ InHands(b) = 0
            BY <4>1, <3>2, OneAt
          <5>3. OneIf(b \in Allocated') = 1
            BY <4>1, <3>1 DEF OneIf
          <5> QED BY <5>1, <5>2, <5>3, <2>0 DEF AddUp
        <4>2. CASE b # c
          <5>1. WithClient(b)' = WithClient(b)
            BY <4>2, <2>2, DoneIs DEF WithClient, OneIf
          <5>2. OneIf(b \in Allocated') = OneIf(b \in Allocated)
            BY <4>2, <3>1 DEF OneIf
          <5> QED BY <5>1, <5>2, <2>0, AddUpNow DEF AddUp
        <4> QED BY <4>1, <4>2
      <3> QED BY <3>3, AddUpNext
    <2>3. ASSUME NEW c \in client.held, client' = [client EXCEPT !.held = @ \ {c}],
                 \A p \in Ports : port'[p].buffers = IF p = PortOf(c) THEN port[p].buffers \ {c}
                                                                      ELSE port[p].buffers
          PROVE  OnePlaceEach'
      <3>0. c \in Buffers /\ client'.held = client.held \ {c}
        BY <2>3, TypesSplit DEF ClientTypes
      <3>1. Allocated' = Allocated \ {c}
        <4>1. /\ port["in"].buffers \subseteq InBuffers /\ port["out"].buffers \subseteq OutBuffers
              /\ c \in InBuffers => PortOf(c) = "in" /\ c \notin OutBuffers
              /\ c \in OutBuffers => PortOf(c) = "out" /\ c \notin InBuffers
              /\ c \in InBuffers \cup OutBuffers
          BY <3>0, TypesSplit, PortsAre DEF OwnBuffers, PortOf
        <4> QED BY <2>3, <4>1, PortsAre DEF Allocated
      <3>3. ASSUME NEW b \in Buffers PROVE AddUp(b)' = OneIf(b \in Allocated')
        <4>1. CASE b = c
          <5>1. WithClient(b)' = 0 /\ WithClient(b) = 1
            BY <4>1, <2>3, <3>0 DEF WithClient, OneIf
          <5>2. WithModule(b) = 0 /\ InMainQ(b) = 0 /\ InWorker(b) = 0 /\ InHands(b) = 0
            BY <5>1, OneAt
          <5>3. OneIf(b \in Allocated') = 0
            BY <4>1, <3>1 DEF OneIf
          <5> QED BY <5>1, <5>2, <5>3, <2>0 DEF AddUp
        <4>2. CASE b # c
          <5>1. WithClient(b)' = WithClient(b)
            BY <4>2, <3>0 DEF WithClient, OneIf
          <5>2. OneIf(b \in Allocated') = OneIf(b \in Allocated)
            BY <4>2, <3>1 DEF OneIf
          <5> QED BY <5>1, <5>2, <2>0, AddUpNow DEF AddUp
        <4> QED BY <4>1, <4>2
      <3> QED BY <3>3, AddUpNext
    <2> QED BY <1>3, <2>1, <2>2, <2>3 DEF AllocStep
  <1> QED BY <1>1, <1>2, <1>3, ClientMoves

\* Buffers that go from the module to the client are where they were, but for that.
LEMMA FromModule ==
  ASSUME Types, Types', OnePlaceEach, Running, Allocated' = Allocated,
         NEW S \in SUBSET Held(mod), client' = Done(client, S), Held(mod)' = Held(mod) \ S,
         \A b \in Buffers : InMainQ(b)' + InWorker(b)' + InHands(b)' = InMainQ(b) + InWorker(b) + InHands(b)
  PROVE  OnePlaceEach'
  <1>1. ASSUME NEW b \in Buffers PROVE AddUp(b)' = OneIf(b \in Allocated')
    <2>0. InMainQ(b)' \in Nat /\ InWorker(b)' \in Nat /\ InHands(b)' \in {0, 1}
          /\ InMainQ(b) \in Nat /\ InWorker(b) \in Nat /\ InHands(b) \in {0, 1}
          /\ InMainQ(b)' + InWorker(b)' + InHands(b)' = InMainQ(b) + InWorker(b) + InHands(b)
      BY PlacesAre, PlacesAreNext DEF PlacesCounted
    <2>1. CASE b \in S
      <3>1. WithModule(b) = 1 /\ WithModule(b)' = 0 /\ WithClient(b)' = 1
        BY <2>1, DoneIs DEF WithModule, WithClient, OneIf
      <3>2. WithClient(b) = 0 /\ InMainQ(b) = 0 /\ InWorker(b) = 0 /\ InHands(b) = 0 /\ b \in Allocated
        BY <3>1, OneAt
      <3>3. OneIf(b \in Allocated') = 1
        BY <3>2 DEF OneIf
      <3> QED BY <2>0, <3>1, <3>2, <3>3 DEF AddUp
    <2>2. CASE b \notin S
      <3>1. WithModule(b)' = WithModule(b) /\ WithClient(b)' = WithClient(b)
        BY <2>2, DoneIs DEF WithModule, WithClient, OneIf
      <3>2. WithModule(b) \in {0, 1} /\ WithClient(b) \in {0, 1} /\ AddUp(b) = OneIf(b \in Allocated)
        BY AddUpNow
      <3> QED BY <2>0, <3>1, <3>2 DEF AddUp
    <2> QED BY <2>1, <2>2
  <1> QED BY <1>1, AddUpNext

\* The decoder gives back what it has.
LEMMA DecoderOnePlace ==
  ASSUME Types, Types', OnePlaceEach, ModuleHolds, Running, Decoder
  PROVE  OnePlaceEach'
  <1>0. port' = port /\ worker' = worker /\ Allocated' = Allocated
    BY DecoderFrame, AllocatedSame
  <1>m. mod \in ModRecords /\ InBuffers \cap OutBuffers = {} /\ None \notin Buffers
    BY TypesSplit, PortsAre DEF ModTypes, ModRecords
  <1>a. ASSUME mainQ' = mainQ, NEW S \in SUBSET Held(mod), client' = Done(client, S),
               Held(mod)' = Held(mod) \ S
        PROVE  OnePlaceEach'
    <2>1. \A b \in Buffers : InMainQ(b)' = InMainQ(b) /\ InWorker(b)' = InWorker(b) /\ InHands(b)' = InHands(b)
      BY <1>0, <1>a, SamePlaces, MainQPlaces
    <2> QED BY <1>0, <1>a, <2>1, FromModule
  <1>1. ASSUME NEW c \in Buffers, Consume(c) PROVE OnePlaceEach'
    <2>1. c \in mod.in /\ mod' = [mod EXCEPT !.in = @ \ {c}] /\ client' = Done(client, {c}) /\ mainQ' = mainQ
      BY <1>1 DEF Consume
    <2>2. Held(mod)' = Held(mod) \ {c} /\ {c} \in SUBSET Held(mod)
      BY <1>m, <2>1 DEF Held, ModRecords
    <2> QED BY <1>a, <2>1, <2>2
  <1>2. ASSUME NEW c \in Buffers, Display(c) PROVE OnePlaceEach'
    <2>1. c \in mod.out /\ mod' = [mod EXCEPT !.out = @ \ {c}] /\ client' = Done(client, {c}) /\ mainQ' = mainQ
      BY <1>2 DEF Display
    <2>2. Held(mod)' = Held(mod) \ {c} /\ {c} \in SUBSET Held(mod)
      BY <1>m, <2>1 DEF Held, ModRecords
    <2> QED BY <1>a, <2>1, <2>2
  <1>3. CASE EndOfStream
    <2>1. CASE mod.eosOut = None
      BY <1>3, <2>1 DEF EndOfStream, OnePlaceEach, Running
    <2>2. CASE mod.eosOut # None
      <3>1. /\ mod' = [mod EXCEPT !.in = {}, !.out = @ \ {mod.eosOut}, !.eosIn = None, !.eosOut = None]
            /\ client' = Done(client, {mod.eosIn, mod.eosOut}) /\ mainQ' = mainQ
            /\ mod.in = {mod.eosIn} /\ mod.eosOut \in mod.out
        BY <1>3, <2>2 DEF EndOfStream, ModuleHolds
      <3>2. /\ Held(mod)' = Held(mod) \ {mod.eosIn, mod.eosOut}
            /\ {mod.eosIn, mod.eosOut} \in SUBSET Held(mod)
        BY <1>m, <3>1 DEF Held, ModRecords
      <3> QED BY <1>a, <3>1, <3>2
    <2> QED BY <2>1, <2>2
  <1>4. CASE DecoderFails
    <2>1. mainQ' = Append(mainQ, FromDecoder) /\ mod' = mod /\ client' = client
      BY <1>4 DEF DecoderFails
    <2>2. ASSUME NEW b \in Buffers PROVE AddUp(b)' = OneIf(b \in Allocated')
      <3>1. FromDecoder # Command("Buffer", b)
        BY KindsOfTasks, TaskIs
      <3>2. InMainQ(b)' = InMainQ(b) + 0
        BY <2>1, <3>1, MainQPlaces DEF OneIf
      <3>3. WithClient(b)' = WithClient(b) /\ WithModule(b)' = WithModule(b)
            /\ InWorker(b)' = InWorker(b) /\ InHands(b)' = InHands(b)
        BY <1>0, <2>1, SamePlaces
      <3> QED BY <1>0, <3>2, <3>3, AddUpNow DEF AddUp
    <2> QED BY <2>2, AddUpNext
  <1> QED BY <1>1, <1>2, <1>3, <1>4 DEF Decoder

\* A worker hands its buffer to the module, or gives it back.
LEMMA WorkersOnePlace ==
  ASSUME Types, Types', OnePlaceEach, Destructors, Running, WorkerActs
  PROVE  OnePlaceEach'
  <1>0. PICK p \in Ports : Worker(p)
    BY DEF WorkerActs
  <1>f. Allocated' = Allocated /\ mainQ' = mainQ
    BY WorkerFrame, AllocatedSame
  <1>w. /\ worker[p] \in WorkerRecords(p)
        /\ \A b \in OfPort(p) : b \in Buffers /\ PortOf(b) = p
        /\ mod \in ModRecords
    BY TypesSplit, WorkerTypesAre, PortsAre DEF ModTypes, ModRecords
  <1> DEFINE w == worker[p]
             t == Head(w.queue)
  <1>a. ASSUME NEW x, worker' = [worker EXCEPT ![p] = x],
               \A b \in Buffers : PortOf(b) = p =>
                   WithClient(b)' + WithModule(b)' + InQueue(x.queue, b) + OneIf(x.busy = Command("Buffer", b))
                     = WithClient(b) + WithModule(b) + InWorker(b) + InHands(b),
               \A b \in Buffers : PortOf(b) # p =>
                   WithClient(b)' = WithClient(b) /\ WithModule(b)' = WithModule(b)
        PROVE  OnePlaceEach'
    <2>1. ASSUME NEW b \in Buffers PROVE AddUp(b)' = OneIf(b \in Allocated')
      <3>1. InMainQ(b)' = InMainQ(b) /\ AddUp(b) = OneIf(b \in Allocated)
        BY <1>f, MainQPlaces, AddUpNow
      <3>2. /\ WithClient(b) \in {0, 1} /\ WithModule(b) \in {0, 1} /\ InHands(b) \in {0, 1}
            /\ InMainQ(b) \in Nat /\ InWorker(b) \in Nat
            /\ WithClient(b)' \in {0, 1} /\ WithModule(b)' \in {0, 1} /\ InHands(b)' \in {0, 1}
            /\ InMainQ(b)' \in Nat /\ InWorker(b)' \in Nat
        BY PlacesAre, PlacesAreNext DEF PlacesCounted
      <3>3. CASE PortOf(b) = p
        <4>1. InWorker(b)' = InQueue(x.queue, b) /\ InHands(b)' = OneIf(x.busy = Command("Buffer", b))
          BY <1>a, <3>3, WorkerPlaces
        <4>2. WithClient(b)' + WithModule(b)' + InWorker(b)' + InHands(b)'
                 = WithClient(b) + WithModule(b) + InWorker(b) + InHands(b)
          BY <1>a, <3>3, <4>1
        <4> QED BY <1>f, <3>1, <3>2, <4>2 DEF AddUp
      <3>4. CASE PortOf(b) # p
        <4>1. InWorker(b)' = InWorker(b) /\ InHands(b)' = InHands(b)
          BY <1>a, <3>4, WorkerPlaces
        <4>2. WithClient(b)' = WithClient(b) /\ WithModule(b)' = WithModule(b)
          BY <1>a, <3>4
        <4> QED BY <1>f, <3>1, <4>1, <4>2 DEF AddUp
      <3> QED BY <3>3, <3>4
    <2> QED BY <2>1, AddUpNext
  <1>n. \A b \in Buffers : /\ WithClient(b) \in {0, 1} /\ WithModule(b) \in {0, 1} /\ InHands(b) \in {0, 1}
                           /\ InMainQ(b) \in Nat /\ InWorker(b) \in Nat
    BY PlacesAre DEF PlacesCounted
  <1>1. CASE TakeTask(p)
    <2>0. w.queue # <<>> /\ w.busy = NoCommand /\ mod' = mod
      BY <1>1 DEF TakeTask
    <2>1. t \in BufferTasks(OfPort(p)) \cup Fences \cup {Quit}
      BY <2>0, WorkerHead
    <2>2. ASSUME NEW b \in Buffers, PortOf(b) = p
          PROVE  /\ InHands(b) = 0 /\ InQueue(Tail(w.queue), b) \in Nat
                 /\ InWorker(b) = InQueue(Tail(w.queue), b) + OneIf(t = Command("Buffer", b))
      <3>1. w.queue \in Seq(Tasks)
        BY <1>w DEF WorkerRecords
      <3>2. InWorker(b) = InQueue(w.queue, b)
        BY <2>2 DEF InWorker
      <3>3. InHands(b) = 0
        BY <2>0, <2>2, KindsOfTasks, TaskIs DEF InHands, OneIf
      <3>4. InQueue(w.queue, b) = InQueue(Tail(w.queue), b) + OneIf(t = Command("Buffer", b))
        BY <2>0, <3>1, QueuedLess
      <3>5. Tail(w.queue) \in Seq(Tasks)
        BY <2>0, WorkerHead
      <3> QED BY <3>2, <3>3, <3>4, <3>5, QueuedFinite
    <2>3. CASE t = Quit
      <3> DEFINE x == [w EXCEPT !.ended = TRUE]
      <3>1. worker' = [worker EXCEPT ![p] = x] /\ client' = client
        BY <1>1, <2>3, KindsOfTasks DEF TakeTask
      <3>2. x.queue = w.queue /\ x.busy = w.busy
        BY <1>w DEF WorkerRecords
      <3>3. \A b \in Buffers : WithClient(b)' = WithClient(b) /\ WithModule(b)' = WithModule(b)
        BY <2>0, <3>1, SamePlaces
      <3> HIDE DEF x
      <3>4. \A b \in Buffers : PortOf(b) = p =>
               InQueue(x.queue, b) = InWorker(b) /\ OneIf(x.busy = Command("Buffer", b)) = InHands(b)
        BY <3>2 DEF InWorker, InHands
      <3> QED BY <1>a, <3>1, <3>3, <3>4
    <2>4. CASE t # Quit /\ ~w.delete
      <3> DEFINE x == [w EXCEPT !.queue = Tail(@), !.busy = t]
      <3>1. worker' = [worker EXCEPT ![p] = x] /\ client' = client
        BY <1>1, <2>4 DEF TakeTask
      <3>2. x.queue = Tail(w.queue) /\ x.busy = t
        BY <1>w DEF WorkerRecords
      <3>3. \A b \in Buffers : WithClient(b)' = WithClient(b) /\ WithModule(b)' = WithModule(b)
        BY <2>0, <3>1, SamePlaces
      <3> HIDE DEF x
      <3>4. ASSUME NEW b \in Buffers, PortOf(b) = p
            PROVE  WithClient(b)' + WithModule(b)' + InQueue(x.queue, b) + OneIf(x.busy = Command("Buffer", b))
                     = WithClient(b) + WithModule(b) + InWorker(b) + InHands(b)
        <4>1. OneIf(t = Command("Buffer", b)) \in {0, 1}
          BY DEF OneIf
        <4> QED BY <1>n, <2>2, <3>2, <3>3, <3>4, <4>1
      <3> QED BY <1>a, <3>1, <3>3, <3>4
    <2>5. CASE t # Quit /\ w.delete
      <3> DEFINE x == [w EXCEPT !.queue = Tail(@), !.busy = NoCommand]
      <3>1. worker' = [worker EXCEPT ![p] = x]
            /\ client' = IF t.cmd = "Buffer" THEN Done(client, {t.arg}) ELSE client
        BY <1>1, <2>5 DEF TakeTask
      <3>2. x.queue = Tail(w.queue) /\ x.busy = NoCommand
        BY <1>w DEF WorkerRecords
      <3>3. \A b \in Buffers : WithModule(b)' = WithModule(b)
        BY <2>0, SamePlaces
      <3> HIDE DEF x
      <3>4. \A b \in Buffers : OneIf(x.busy = Command("Buffer", b)) = 0
        BY <3>2, KindsOfTasks, TaskIs DEF OneIf
      <3>5. CASE t.cmd = "Buffer"
        <4>1. t.arg \in OfPort(p) /\ t = Command("Buffer", t.arg)
          <5>1. t \in BufferTasks(OfPort(p))
            BY <2>1, <3>5, KindsOfTasks
          <5> QED BY <5>1, KindsOfTasks
        <4>2. ASSUME NEW b \in Buffers
              PROVE  WithClient(b)' = IF b = t.arg THEN 1 ELSE WithClient(b)
          BY <3>1, <3>5, DoneIs DEF WithClient, OneIf
        <4>3. ASSUME NEW b \in Buffers, PortOf(b) = p
              PROVE  WithClient(b)' + WithModule(b)' + InQueue(x.queue, b) + OneIf(x.busy = Command("Buffer", b))
                       = WithClient(b) + WithModule(b) + InWorker(b) + InHands(b)
          <5>1. CASE b = t.arg
            <6>1. OneIf(t = Command("Buffer", b)) = 1
              BY <4>1, <5>1 DEF OneIf
            <6>2. InWorker(b) > 0
              BY <6>1, <2>2, <4>3
            <6>3. WithClient(b) = 0
              BY <6>2, OneAt
            <6> QED BY <1>n, <2>2, <3>2, <3>3, <3>4, <4>2, <4>3, <5>1, <6>1, <6>3
          <5>2. CASE b # t.arg
            <6>1. OneIf(t = Command("Buffer", b)) = 0
              BY <4>1, <5>2, TaskIs DEF OneIf
            <6> QED BY <1>n, <2>2, <3>2, <3>3, <3>4, <4>2, <4>3, <5>2, <6>1
          <5> QED BY <5>1, <5>2
        <4>4. \A b \in Buffers : PortOf(b) # p => b # t.arg
          BY <4>1, <1>w
        <4> QED BY <1>a, <3>1, <3>3, <4>2, <4>3, <4>4
      <3>6. CASE t.cmd # "Buffer"
        <4>1. \A b \in Buffers : OneIf(t = Command("Buffer", b)) = 0
          BY <3>6, TaskIs DEF OneIf
        <4>2. \A b \in Buffers : WithClient(b)' = WithClient(b)
          BY <3>1, <3>6, SamePlaces
        <4>3. ASSUME NEW b \in Buffers, PortOf(b) = p
              PROVE  WithClient(b)' + WithModule(b)' + InQueue(x.queue, b) + OneIf(x.busy = Command("Buffer", b))
                       = WithClient(b) + WithModule(b) + InWorker(b) + InHands(b)
          BY <1>n, <2>2, <3>2, <3>3, <3>4, <4>1, <4>2, <4>3
        <4> QED BY <1>a, <3>1, <3>3, <4>2, <4>3
      <3> QED BY <3>5, <3>6
    <2> QED BY <2>3, <2>4, <2>5
  <1> DEFINE x == [w EXCEPT !.busy = NoCommand]
  <1>x. x.queue = w.queue /\ \A b \in Buffers : OneIf(x.busy = Command("Buffer", b)) = 0
    <2>1. x.queue = w.queue /\ x.busy = NoCommand
      BY <1>w DEF WorkerRecords
    <2> HIDE DEF x
    <2> QED BY <2>1, KindsOfTasks, TaskIs DEF OneIf
  <1>q. \A b \in Buffers : PortOf(b) = p => InQueue(x.queue, b) = InWorker(b)
    BY <1>x DEF InWorker
  <1>2. CASE TreatBuffer(p)
    <2>1. PICK c \in OfPort(p) : w.busy = Command("Buffer", c) /\ c = w.busy.arg
      <3>1. w.busy \in BufferTasks(OfPort(p)) \cup Fences \cup {NoCommand} /\ w.busy.cmd = "Buffer"
        BY <1>w, <1>2 DEF TreatBuffer, WorkerRecords
      <3>2. w.busy \in BufferTasks(OfPort(p))
        BY <3>1, KindsOfTasks
      <3> QED BY <3>2, KindsOfTasks
    <2>2. worker' = [worker EXCEPT ![p] = x]
      BY <1>2 DEF TreatBuffer
    <2>3. c \in Buffers /\ PortOf(c) = p /\ InHands(c) = 1
      BY <1>w, <2>1 DEF InHands, OneIf
    <2>4. WithClient(c) = 0 /\ WithModule(c) = 0 /\ InWorker(c) = 0
      BY <2>3, OneAt
    <2>5. \A b \in Buffers : PortOf(b) = p /\ b # c => InHands(b) = 0
      BY <2>1, TaskIs DEF InHands, OneIf
    <2> HIDE DEF x
    <2>a. ASSUME \A b \in Buffers : b # c => WithClient(b)' = WithClient(b) /\ WithModule(b)' = WithModule(b),
                 WithClient(c)' + WithModule(c)' = 1
          PROVE  OnePlaceEach'
      <3>1. ASSUME NEW b \in Buffers, PortOf(b) = p
            PROVE  WithClient(b)' + WithModule(b)' + InQueue(x.queue, b) + OneIf(x.busy = Command("Buffer", b))
                     = WithClient(b) + WithModule(b) + InWorker(b) + InHands(b)
        <4>1. InQueue(x.queue, b) = InWorker(b) /\ OneIf(x.busy = Command("Buffer", b)) = 0
          BY <1>q, <1>x, <3>1
        <4>2. CASE b = c
          <5>1. WithClient(b)' + WithModule(b)' = 1 /\ WithClient(b) = 0 /\ WithModule(b) = 0
                /\ InWorker(b) = 0 /\ InHands(b) = 1
            BY <4>2, <2>3, <2>4, <2>a
          <5> QED BY <4>1, <5>1
        <4>3. CASE b # c
          <5>1. WithClient(b)' = WithClient(b) /\ WithModule(b)' = WithModule(b) /\ InHands(b) = 0
                /\ WithClient(b) \in {0, 1} /\ WithModule(b) \in {0, 1} /\ InWorker(b) \in Nat
            BY <4>3, <3>1, <2>5, <2>a, <1>n
          <5> QED BY <4>1, <5>1
        <4> QED BY <4>2, <4>3
      <3>2. \A b \in Buffers : PortOf(b) # p => b # c
        BY <2>3
      <3> QED BY <1>a, <2>2, <2>a, <3>1, <3>2
    <2>6. CASE client' = Done(client, {c}) /\ mod' = mod
      <3>1. \A b \in Buffers : WithModule(b)' = WithModule(b)
        BY <2>6, SamePlaces
      <3>2. \A b \in Buffers : WithClient(b)' = IF b = c THEN 1 ELSE WithClient(b)
        BY <2>6, DoneIs DEF WithClient, OneIf
      <3>3. WithClient(c)' = 1 /\ WithModule(c)' = 0
        BY <2>3, <2>4, <3>1, <3>2
      <3>4. WithClient(c)' + WithModule(c)' = 1
        BY <3>3
      <3> QED BY <2>a, <3>1, <3>2, <3>4
    <2>7. CASE client' = client /\ Held(mod)' = Held(mod) \cup {c}
      <3>1. \A b \in Buffers : WithModule(b)' = IF b = c THEN 1 ELSE WithModule(b)
        BY <2>7 DEF WithModule, OneIf
      <3>2. \A b \in Buffers : WithClient(b)' = WithClient(b)
        BY <2>7, SamePlaces
      <3>3. WithModule(c)' = 1 /\ WithClient(c)' = 0
        BY <2>3, <2>4, <3>1, <3>2
      <3>4. WithClient(c)' + WithModule(c)' = 1
        BY <3>3
      <3> QED BY <2>a, <3>1, <3>2, <3>4
    <2>8. CASE crash' = "assert"
      BY <2>8 DEF OnePlaceEach, Running
    <2>9. Held(Empty(mod, c, c = client.eos)) = Held(mod) \cup {c}
          /\ Held(Fill(mod, c)) = Held(mod) \cup {c}
      BY <1>w DEF Held, Empty, Fill, ModRecords
    <2>10. \/ client' = Done(client, {c}) /\ mod' = mod
           \/ client' = client /\ (mod' = Empty(mod, c, c = client.eos) \/ mod' = Fill(mod, c))
           \/ crash' = "assert"
      BY <1>2, <2>1 DEF TreatBuffer
    <2> QED BY <2>6, <2>7, <2>8, <2>9, <2>10
  <1>3. CASE PassFence(p)
    <2>1. worker' = [worker EXCEPT ![p] = x] /\ client' = client /\ mod' = mod /\ w.busy.cmd = "fence"
      BY <1>3 DEF PassFence
    <2>2. \A b \in Buffers : PortOf(b) = p => InHands(b) = 0
      BY <2>1, TaskIs DEF InHands, OneIf
    <2>3. \A b \in Buffers : WithClient(b)' = WithClient(b) /\ WithModule(b)' = WithModule(b)
      BY <2>1, SamePlaces
    <2> HIDE DEF x
    <2>4. ASSUME NEW b \in Buffers, PortOf(b) = p
          PROVE  WithClient(b)' + WithModule(b)' + InQueue(x.queue, b) + OneIf(x.busy = Command("Buffer", b))
                   = WithClient(b) + WithModule(b) + InWorker(b) + InHands(b)
      <3>1. InQueue(x.queue, b) = InWorker(b) /\ OneIf(x.busy = Command("Buffer", b)) = 0
            /\ InHands(b) = 0 /\ WithClient(b)' = WithClient(b) /\ WithModule(b)' = WithModule(b)
        BY <1>q, <1>x, <2>2, <2>3, <2>4
      <3> QED BY <3>1
    <2> QED BY <1>a, <2>1, <2>3, <2>4
  <1> QED BY <1>0, <1>1, <1>2, <1>3 DEF Worker

\* A processor keeps its buffers when it is told to wait or to end, or is renewed at its end.
KeepsBuffers(w, x) ==
  \A b \in Buffers : /\ InQueue(x.queue, b) = InQueue(w.queue, b)
                     /\ x.busy = Command("Buffer", b) <=> w.busy = Command("Buffer", b)

\* That holds of a fence, of the order to end, and of a new processor after an ended one.
LEMMA ProcessorKeeps ==
  ASSUME NEW p \in Ports, NEW w \in WorkerRecords(p)
  PROVE  /\ KeepsBuffers(w, w) /\ KeepsBuffers(w, Deleted(w))
         /\ \A t \in Fences : KeepsBuffers(w, [w EXCEPT !.queue = Append(w.queue, t)])
         /\ EndsInOrder(w) /\ w.ended => KeepsBuffers(w, NewProcessor)
  <1>0. w.queue \in Seq(Tasks)
    BY DEF WorkerRecords
  <1>1. ASSUME NEW t \in Fences \cup {Quit}, NEW x, x.queue = Append(w.queue, t), x.busy = w.busy
        PROVE  KeepsBuffers(w, x)
    <2>1. ASSUME NEW b \in Buffers PROVE InQueue(x.queue, b) = InQueue(w.queue, b)
      <3>1. t \in Tasks /\ t # Command("Buffer", b)
        BY TaskSets, KindsOfTasks, TaskIs, <1>1
      <3>2. InQueue(x.queue, b) = InQueue(w.queue, b) + 0
        BY <1>0, <1>1, <3>1, QueuedMore DEF OneIf
      <3> QED BY <1>0, <3>2, QueuedFinite
    <2> QED BY <1>1, <2>1 DEF KeepsBuffers
  <1>2. KeepsBuffers(w, Deleted(w))
    <2>1. Deleted(w).queue = Append(w.queue, Quit) /\ Deleted(w).busy = w.busy
      BY DEF Deleted, WorkerRecords
    <2> QED BY <1>1, <2>1
  <1>3. ASSUME NEW t \in Fences PROVE KeepsBuffers(w, [w EXCEPT !.queue = Append(w.queue, t)])
    <2> DEFINE x == [w EXCEPT !.queue = Append(w.queue, t)]
    <2>1. x.queue = Append(w.queue, t) /\ x.busy = w.busy
      BY DEF WorkerRecords
    <2> HIDE DEF x
    <2>2. KeepsBuffers(w, x)
      BY <1>1, <2>1
    <2> QED BY <2>2 DEF x
  <1>4. ASSUME EndsInOrder(w), w.ended PROVE KeepsBuffers(w, NewProcessor)
    <2>1. w.queue = <<Quit>> /\ w.busy = NoCommand
      BY <1>4 DEF EndsInOrder
    <2>2. NewProcessor.queue = <<>> /\ NewProcessor.busy = NoCommand
      BY DEF NewProcessor
    <2>3. ASSUME NEW b \in Buffers PROVE InQueue(<<>>, b) = InQueue(<<Quit>>, b)
      <3>1. Quit # Command("Buffer", b)
        BY KindsOfTasks, TaskIs
      <3>2. QueuedIn(<<>>, b) = {} /\ QueuedIn(<<Quit>>, b) = {}
        BY <3>1 DEF QueuedIn
      <3> QED BY <3>2 DEF InQueue
    <2> QED BY <2>1, <2>2, <2>3 DEF KeepsBuffers
  <1> QED BY <1>2, <1>3, <1>4 DEF KeepsBuffers

\* processorMain moves buffers from its queue to the processors, and no other way.
LEMMA MainQueues ==
  ASSUME Types, OneCommand, Places4Task, Destructors, Main, ~Forward, NEW b \in Buffers
  PROVE  InMainQ(b)' = InMainQ(b) /\ InWorker(b)' = InWorker(b) /\ InHands(b)' = InHands(b)
  <1>0. /\ worker = [p \in Ports |-> worker[p]] /\ \A p \in Ports : worker[p] \in WorkerRecords(p)
        /\ Ports = {"in", "out"} /\ PortOf(b) \in Ports /\ \A p \in Ports : EndsInOrder(worker[p])
    BY TypesSplit, WorkerTypesAre, PortsAre DEF Ports, Destructors
  <1>1. InMainQ(b)' = InMainQ(b)
    <2>1. CASE StartCommand
      <3>1. mainQ # <<>> /\ Head(mainQ).cmd # "Buffer" /\ mainQ' = Tail(mainQ)
        BY <2>1 DEF StartCommand
      <3>2. OneIf(Head(mainQ) = Command("Buffer", b)) = 0
        BY <3>1, TaskIs DEF OneIf
      <3>3. InMainQ(b) = InMainQ(b)' + 0
        BY <3>1, <3>2, MainQPlaces
      <3>4. InMainQ(b)' \in Nat
        <4>1. Tail(mainQ) \in Seq(ClientOrders \cup {FromDecoder} \cup BufferTasks(Buffers))
          BY <3>1, MainHead
        <4> QED BY <3>1, <4>1, QueuedFinite DEF InMainQ
      <3> QED BY <3>3, <3>4
    <2>2. CASE ~StartCommand
      BY <2>2, MainFrame, MainQPlaces
    <2> QED BY <2>1, <2>2
  <1>2. \A p \in Ports : KeepsBuffers(worker[p], worker'[p])
    <2>0. \A p \in Ports : KeepsBuffers(worker[p], worker[p]) /\ KeepsBuffers(worker[p], Deleted(worker[p]))
                           /\ (worker[p].ended => KeepsBuffers(worker[p], NewProcessor))
      BY <1>0, ProcessorKeeps
    <2>1. CASE UNCHANGED worker
      BY <2>0, <2>1
    <2>2. CASE StartCommand
      <3>1. worker' = worker \/ worker' = [worker EXCEPT !["out"] = Deleted(worker["out"])]
        BY <2>2 DEF StartCommand
      <3>2. worker'["in"] = worker["in"] /\ worker'["out"] \in {worker["out"], Deleted(worker["out"])}
        BY <1>0, <3>1
      <3> QED BY <1>0, <2>0, <3>2
    <2>3. CASE JoinFill
      <3>1. worker'["out"] = NewProcessor /\ worker'["in"] = Deleted(worker["in"]) /\ worker["out"].ended
        BY <1>0, <2>3 DEF JoinFill
      <3> QED BY <1>0, <2>0, <3>1
    <2>4. CASE JoinEmpty
      <3>1. worker'["in"] = NewProcessor /\ worker'["out"] = worker["out"] /\ worker["in"].ended
        BY <1>0, <2>4 DEF JoinEmpty
      <3> QED BY <1>0, <2>0, <3>1
    <2>5. CASE ((Complete /\ New = "Pause") \/ FlushComplete) /\ Block
      <3> DEFINE t == FenceTask(pause.n + 1)
      <3>1. t \in Fences
        BY <2>5, FenceCounted DEF Complete, FlushComplete, Fences
      <3>2. worker' = [p \in Ports |-> [worker[p] EXCEPT !.queue = Append(worker[p].queue, t)]]
        BY <2>5, <1>0 DEF Block, Fence
      <3> HIDE DEF t
      <3>3. \A p \in Ports : KeepsBuffers(worker[p], [worker[p] EXCEPT !.queue = Append(worker[p].queue, t)])
        BY <1>0, <3>1, ProcessorKeeps
      <3> QED BY <3>2, <3>3
    <2>6. Complete => UNCHANGED worker \/ (New = "Pause" /\ Block)
      BY DEF Complete
    <2>7. FlushComplete => UNCHANGED worker \/ Block
      BY DEF FlushComplete
    <2> QED BY <2>1, <2>2, <2>3, <2>4, <2>5, <2>6, <2>7, MainFrame
  <1>3. KeepsBuffers(worker[PortOf(b)], worker'[PortOf(b)])
    BY <1>0, <1>2
  <1>4. InWorker(b)' = InWorker(b) /\ InHands(b)' = InHands(b)
    BY <1>3 DEF KeepsBuffers, InWorker, InHands, OneIf
  <1> QED BY <1>1, <1>4

\* No command takes a buffer from a port.
LEMMA MainAllocated ==
  ASSUME Types, Main
  PROVE  Allocated' = Allocated
  <1>0. port \in [Ports -> PortRecords]
    BY TypesSplit DEF PortTypes, PortRecords
  <1>a. ASSUME NEW p, \/ port' = [port EXCEPT ![p].error = FALSE]
                      \/ port' = [port EXCEPT ![p].toDisable = FALSE]
                      \/ port' = [port EXCEPT ![p].toEnable = FALSE]
        PROVE  \A r \in Ports : port'[r].buffers = port[r].buffers
    BY <1>0, <1>a DEF PortRecords
  <1>1. \/ port' = port
        \/ \E p : \/ port' = [port EXCEPT ![p].error = FALSE]
                  \/ port' = [port EXCEPT ![p].toDisable = FALSE]
                  \/ port' = [port EXCEPT ![p].toEnable = FALSE]
    BY DEF Main, Forward, StartCommand, JoinFill, JoinEmpty, RefuseTransition, StartPopulating,
         Populate, CreateModule, DestroyModule, Unpopulate, RunModule, StopModule,
         OtherTransition, Complete, StopInvalid, BecomeInvalid, FlushModule, FlushComplete,
         DisablePort, EnablePort
  <1>2. \A r \in Ports : port'[r].buffers = port[r].buffers
    BY <1>1, <1>a
  <1> QED BY <1>2, AllocatedSame

\* processorMain loses no buffer.
LEMMA MainOnePlace ==
  ASSUME Types, Types', OneCommand, Places4Task, Destructors, OnePlaceEach, Running, Main
  PROVE  OnePlaceEach'
  <1>1. CASE Forward
    <2>1. PICK c \in Buffers : Head(mainQ) = Command("Buffer", c) /\ PortOf(c) \in Ports
      BY <1>1, MainHead DEF Forward
    <2>2. mainQ # <<>> /\ mainQ' = Tail(mainQ) /\ client' = client /\ mod' = mod /\ port' = port
      BY <1>1 DEF Forward
    <2> DEFINE w == worker[PortOf(c)]
               x == [w EXCEPT !.queue = Append(w.queue, Command("Buffer", c))]
    <2>3. worker' = [worker EXCEPT ![PortOf(c)] = x]
      <3>1. Head(mainQ).arg = c
        BY <2>1, TaskIs
      <3>2. worker' = [worker EXCEPT ![PortOf(c)].queue = Append(@, Head(mainQ))]
        BY <1>1, <3>1 DEF Forward
      <3> QED BY <2>1, <3>2
    <2>4. w \in WorkerRecords(PortOf(c)) /\ Command("Buffer", c) \in Tasks
      BY <2>1, TypesSplit, WorkerTypesAre, KindsOfTasks, TaskSets
    <2>5. x.queue = Append(w.queue, Command("Buffer", c)) /\ x.busy = w.busy /\ w.queue \in Seq(Tasks)
      BY <2>4 DEF WorkerRecords
    <2> HIDE DEF x
    <2>6. ASSUME NEW b \in Buffers PROVE AddUp(b)' = OneIf(b \in Allocated')
      <3>1. WithClient(b)' = WithClient(b) /\ WithModule(b)' = WithModule(b) /\ Allocated' = Allocated
        BY <2>2, SamePlaces, AllocatedSame
      <3>2. InMainQ(b) = InMainQ(b)' + OneIf(b = c)
        BY <2>1, <2>2, MainQPlaces, TaskIs
      <3>3. InWorker(b)' = InWorker(b) + OneIf(b = c) /\ InHands(b)' = InHands(b)
        <4>1. CASE PortOf(b) = PortOf(c)
          <5>1. InWorker(b)' = InQueue(x.queue, b) /\ InHands(b)' = OneIf(x.busy = Command("Buffer", b))
            BY <2>1, <2>3, <4>1, WorkerPlaces
          <5>2. InQueue(x.queue, b) = InQueue(w.queue, b) + OneIf(Command("Buffer", c) = Command("Buffer", b))
            BY <2>4, <2>5, QueuedMore
          <5>3. OneIf(Command("Buffer", c) = Command("Buffer", b)) = OneIf(b = c)
            BY TaskIs DEF OneIf
          <5> QED BY <4>1, <5>1, <5>2, <5>3, <2>5 DEF InWorker, InHands
        <4>2. CASE PortOf(b) # PortOf(c)
          <5>1. InWorker(b)' = InWorker(b) /\ InHands(b)' = InHands(b) /\ OneIf(b = c) = 0
            BY <2>1, <2>3, <4>2, WorkerPlaces DEF OneIf
          <5>2. InWorker(b) \in Nat
            BY AddUpNow
          <5> QED BY <5>1, <5>2
        <4> QED BY <4>1, <4>2
      <3>4. InMainQ(b)' \in Nat /\ InWorker(b) \in Nat /\ OneIf(b = c) \in {0, 1}
            /\ InHands(b) \in {0, 1} /\ WithClient(b) \in {0, 1} /\ WithModule(b) \in {0, 1}
        BY PlacesAreNext, PlacesAre DEF PlacesCounted, OneIf
      <3>5. AddUp(b)' = AddUp(b)
        BY <3>1, <3>2, <3>3, <3>4 DEF AddUp
      <3> QED BY <3>1, <3>5, AddUpNow
    <2> QED BY <2>6, AddUpNext
  <1>2. CASE ~Forward
    <2>1. \A b \in Buffers : InMainQ(b)' = InMainQ(b) /\ InWorker(b)' = InWorker(b) /\ InHands(b)' = InHands(b)
      BY <1>2, MainQueues
    <2>2. Allocated' = Allocated
      BY MainAllocated
    <2>3. CASE client' = Done(client, Returned(mod'))
      <3>1. PICK S \in SUBSET Held(mod) : client' = Done(client, S) /\ Held(mod)' = Held(mod) \ S
        <4>1. mod'.in \subseteq mod.in /\ mod'.out \subseteq mod.out
          BY MainModule
        <4>2. Returned(mod') \in SUBSET Held(mod) /\ Held(mod)' = Held(mod) \ Returned(mod')
          BY <4>1 DEF Returned, Held
        <4> QED BY <2>3, <4>2
      <3> QED BY <2>1, <2>2, <3>1, FromModule
    <2>4. CASE mod'.in = mod.in /\ mod'.out = mod.out /\ client'.held = client.held
      <3>1. ASSUME NEW b \in Buffers PROVE AddUp(b)' = OneIf(b \in Allocated')
        <4>1. WithClient(b)' = WithClient(b) /\ WithModule(b)' = WithModule(b)
          BY <2>4, SamePlaces
        <4> QED BY <4>1, <2>1, <2>2, AddUpNow DEF AddUp
      <3> QED BY <3>1, AddUpNext
    <2> QED BY <2>3, <2>4, MainModule, AnsweredIs
  <1> QED BY <1>1, <1>2

\* Every step keeps each buffer in one place.
LEMMA OnePlaceKept ==
  ASSUME Types, Types', OneCommand, Places4Task, Destructors, OnePlaceEach, ModuleHolds, Next
  PROVE  OnePlaceEach'
  <1>1. CASE UNCHANGED vars
    BY <1>1 DEF vars, OnePlaceEach, Running, Places, Allocated, Held
  <1> QED BY <1>1, NextCases, ClientOnePlace, DecoderOnePlace, WorkersOnePlace, MainOnePlace

\* The module keeps what it held when only a buffer it does not hold was returned.
LEMMA ModuleHoldsFrame ==
  ASSUME Types, ModuleHolds, Running, client'.eos = client.eos \/ client.eos \notin mod.in,
         mod'.in = mod.in, mod'.out = mod.out, mod'.eosIn = mod.eosIn, mod'.eosOut = mod.eosOut,
         mod'.decoder <=> mod.decoder
  PROVE  ModuleHolds'
  <1>1. mod.in \subseteq InBuffers
    BY TypesSplit DEF ModTypes
  <1>2. CASE client'.eos = client.eos
    BY <1>2 DEF ModuleHolds
  <1>3. CASE client.eos \notin mod.in
    <2>1. mod.eosIn = None
      BY <1>3 DEF ModuleHolds
    <2>2. ~mod.decoder => mod.in = {} /\ mod.out = {}
      BY <1>3 DEF ModuleHolds
    <2> QED BY <2>1, <2>2 DEF ModuleHolds
  <1> QED BY <1>2, <1>3

\* A buffer that is elsewhere is not in the module.
LEMMA NotInModule ==
  ASSUME Types, OnePlaceEach, Running, NEW b \in Buffers,
         WithClient(b) = 1 \/ InHands(b) = 1 \/ InWorker(b) > 0 \/ InMainQ(b) > 0 \/ b \notin Allocated
  PROVE  b \notin mod.in /\ b \notin mod.out
  <1>1. WithModule(b) = 0
    BY OneAt
  <1> QED BY <1>1 DEF WithModule, OneIf, Held

\* What a worker takes, or has in hands, is not in the module.
LEMMA WorkerTaskOut ==
  ASSUME Types, OnePlaceEach, Running, NEW p \in Ports, NEW b \in OfPort(p),
         \/ worker[p].busy = Command("Buffer", b)
         \/ worker[p].queue # <<>> /\ Head(worker[p].queue) = Command("Buffer", b)
  PROVE  b \in Buffers /\ b \notin mod.in /\ b \notin mod.out
  <1>1. b \in Buffers /\ PortOf(b) = p
    BY PortsAre
  <1>2. CASE worker[p].busy = Command("Buffer", b)
    <2>1. InHands(b) = 1
      BY <1>1, <1>2 DEF InHands, OneIf
    <2> QED BY <1>1, <2>1, NotInModule
  <1>3. CASE worker[p].queue # <<>> /\ Head(worker[p].queue) = Command("Buffer", b)
    <2>1. worker[p].queue \in Seq(Tasks)
      BY TypesSplit, WorkerTypesAre DEF WorkerRecords
    <2>2. Tail(worker[p].queue) \in Seq(Tasks)
      BY <1>3, <2>1, QueueHead
    <2>3. InQueue(Tail(worker[p].queue), b) \in Nat
      BY <2>2, QueuedFinite
    <2>4. InWorker(b) = InQueue(Tail(worker[p].queue), b) + 1
      BY <1>1, <1>3, <2>1, QueuedLess DEF InWorker, OneIf
    <2>5. InWorker(b) > 0
      BY <2>3, <2>4
    <2> QED BY <1>1, <2>5, NotInModule
  <1> QED BY <1>2, <1>3

\* The client's, the decoder's and the workers' steps keep what the module holds.
LEMMA OthersModuleHolds ==
  ASSUME Types, OnePlaceEach, ModuleHolds, Running, ClientActs \/ Decoder \/ WorkerActs
  PROVE  ModuleHolds'
  <1>m. mod \in ModRecords /\ None \notin Buffers /\ InBuffers \subseteq Buffers /\ OutBuffers \subseteq Buffers
        /\ InBuffers \cap OutBuffers = {}
    BY TypesSplit, PortsAre DEF ModTypes, ModRecords
  <1>1. CASE ClientActs
    <2>0. mod' = mod
      BY <1>1, ClientFrame
    <2>1. client'.eos = client.eos \/ client.eos \notin mod.in
      <3>1. ASSUME NEW b \in Buffers, GiveStep(b) PROVE client'.eos = client.eos \/ client.eos \notin mod.in
        BY <1>m, <3>1 DEF GiveStep, ModRecords
      <3>2. CASE AllocStep
        <4>1. CASE client' = client
          BY <4>1
        <4>2. ASSUME NEW b \in Buffers, b \notin port[PortOf(b)].buffers, client' = Done(client, {b})
              PROVE  client'.eos = client.eos \/ client.eos \notin mod.in
          <5>1. /\ port["in"].buffers \subseteq InBuffers /\ port["out"].buffers \subseteq OutBuffers
                /\ b \in InBuffers => PortOf(b) = "in" /\ b \notin OutBuffers
                /\ b \in OutBuffers => PortOf(b) = "out" /\ b \notin InBuffers
                /\ b \in InBuffers \cup OutBuffers
            BY TypesSplit, PortsAre DEF OwnBuffers, PortOf
          <5>2. b \notin Allocated
            BY <4>2, <5>1 DEF Allocated
          <5>3. b \notin mod.in
            BY <5>2, NotInModule
          <5> QED BY <4>2, <5>3, DoneIs
        <4>3. ASSUME NEW b \in client.held, client' = [client EXCEPT !.held = @ \ {b}]
              PROVE  client'.eos = client.eos
          BY <4>3, TypesSplit DEF ClientTypes
        <4> QED BY <3>2, <4>1, <4>2, <4>3 DEF AllocStep
      <3> QED BY <1>1, <3>1, <3>2, ClientMoves DEF SendStep
    <2> QED BY <2>0, <2>1, ModuleHoldsFrame
  <1>2. CASE Decoder
    <2>1. ASSUME NEW b \in Buffers, Consume(b) PROVE ModuleHolds'
      <3>1. /\ mod'.in = mod.in \ {b} /\ mod'.out = mod.out /\ mod'.eosIn = mod.eosIn
            /\ mod'.eosOut = mod.eosOut /\ mod'.decoder /\ b # mod.eosIn /\ b # None
            /\ client' = Done(client, {b})
        BY <1>m, <2>1 DEF Consume, ModRecords
      <3>2. client'.eos = IF client.eos = b THEN None ELSE client.eos
        BY <3>1, DoneIs
      <3> QED BY <3>1, <3>2 DEF ModuleHolds
    <2>2. ASSUME NEW b \in Buffers, Display(b) PROVE ModuleHolds'
      <3>1. /\ mod'.in = mod.in /\ mod'.out = mod.out \ {b} /\ mod'.eosIn = mod.eosIn
            /\ mod'.eosOut = mod.eosOut /\ mod'.decoder /\ b # mod.eosOut /\ b \in OutBuffers
            /\ client' = Done(client, {b})
        BY <1>m, <2>2 DEF Display, ModRecords
      <3>2. client'.eos = IF client.eos = b THEN None ELSE client.eos
        BY <3>1, DoneIs
      <3>3. mod.eosIn \in mod.in => mod.eosIn # b
        BY <1>m, <3>1 DEF ModRecords
      <3> QED BY <3>1, <3>2, <3>3 DEF ModuleHolds
    <2>3. CASE EndOfStream
      <3>1. CASE mod.eosOut = None
        BY <2>3, <3>1 DEF EndOfStream, ModuleHolds, Running
      <3>2. CASE mod.eosOut # None
        <4>1. mod'.eosIn = None /\ mod'.eosOut = None /\ mod'.decoder
          BY <1>m, <2>3, <3>2 DEF EndOfStream, ModRecords
        <4> QED BY <4>1 DEF ModuleHolds
      <3> QED BY <3>1, <3>2
    <2>4. CASE DecoderFails
      BY <2>4, ModuleHoldsFrame DEF DecoderFails
    <2> QED BY <1>2, <2>1, <2>2, <2>3, <2>4 DEF Decoder
  <1>3. ASSUME NEW p \in Ports, Worker(p) PROVE ModuleHolds'
    <2> DEFINE w == worker[p]
               t == Head(w.queue)
    <2>w. /\ w.busy \in BufferTasks(OfPort(p)) \cup Fences \cup {NoCommand} /\ OfPort(p) \subseteq Buffers
          /\ p = "in" => OfPort(p) = InBuffers
          /\ p # "in" => OfPort(p) = OutBuffers
      BY TypesSplit, PortsAre DEF WorkerTypes
    <2>1. CASE TakeTask(p)
      <3>1. mod' = mod /\ w.queue # <<>>
            /\ client' = IF t.cmd = "Buffer" /\ w.delete THEN Done(client, {t.arg}) ELSE client
        BY <2>1 DEF TakeTask
      <3>2. CASE t.cmd = "Buffer"
        <4>1. t \in BufferTasks(OfPort(p))
          <5>1. t \in BufferTasks(OfPort(p)) \cup Fences \cup {Quit}
            BY <3>1, WorkerHead
          <5> HIDE DEF t
          <5> QED BY <3>2, <5>1, KindsOfTasks
        <4>2. t.arg \in OfPort(p) /\ t = Command("Buffer", t.arg)
          BY <4>1, KindsOfTasks
        <4>3. t.arg \notin mod.in
          BY <3>1, <4>2, WorkerTaskOut
        <4>4. client'.eos = client.eos \/ client.eos = t.arg
          BY <3>1, DoneIs
        <4> HIDE DEF t
        <4> QED BY <3>1, <4>3, <4>4, ModuleHoldsFrame
      <3>3. CASE t.cmd # "Buffer"
        BY <3>1, <3>3, ModuleHoldsFrame
      <3> QED BY <3>2, <3>3
    <2>2. CASE TreatBuffer(p)
      <3>1. PICK c \in OfPort(p) : w.busy = Command("Buffer", c) /\ c = w.busy.arg
        <4>1. w.busy \in BufferTasks(OfPort(p))
          BY <2>2, <2>w, KindsOfTasks DEF TreatBuffer
        <4> QED BY <4>1, KindsOfTasks
      <3>2. c \in Buffers /\ c \notin mod.in /\ c \notin mod.out
        BY <3>1, WorkerTaskOut
      <3>3. CASE client' = Done(client, {c}) /\ mod' = mod
        <4>1. client'.eos = client.eos \/ client.eos = c
          BY <3>3, DoneIs
        <4> QED BY <3>2, <3>3, <4>1, ModuleHoldsFrame
      <3>4. CASE mod.decoder /\ client' = client /\ p = "in" /\ mod' = Empty(mod, c, c = client.eos)
        <4>1. /\ mod'.in = mod.in \cup {c} /\ mod'.out = mod.out /\ mod'.decoder
              /\ mod'.eosIn = IF c = client.eos THEN c ELSE mod.eosIn
              /\ mod'.eosOut = mod.eosOut
          BY <1>m, <3>4 DEF Empty, ModRecords
        <4> QED BY <3>4, <4>1 DEF ModuleHolds
      <3>5. CASE mod.decoder /\ client' = client /\ mod' = Fill(mod, c)
        <4>1. /\ mod'.in = mod.in /\ mod'.out = mod.out \cup {c} /\ mod'.decoder
              /\ mod'.eosIn = mod.eosIn
              /\ mod'.eosOut = IF mod.eosOut = None THEN c ELSE mod.eosOut
          BY <1>m, <3>5 DEF Fill, ModRecords
        <4> QED BY <3>5, <4>1 DEF ModuleHolds
      <3>6. CASE crash' = "assert"
        BY <3>6 DEF ModuleHolds, Running
      <3> QED BY <2>2, <3>1, <3>3, <3>4, <3>5, <3>6 DEF TreatBuffer
    <2>3. CASE PassFence(p)
      BY <2>3, ModuleHoldsFrame DEF PassFence
    <2> QED BY <1>3, <2>1, <2>2, <2>3 DEF Worker
  <1> QED BY <1>1, <1>2, <1>3 DEF WorkerActs

\* The commands keep it: what ends the stream stays in the module until a decoder takes it.
LEMMA MainModuleHolds ==
  ASSUME Types, ModuleHolds, Running, Main
  PROVE  ModuleHolds'
  <1>m. mod \in ModRecords /\ None \notin InBuffers
    BY TypesSplit, PortsAre DEF ModTypes, ModRecords
  <1>c. client'.eos = client.eos \/ (client' = Done(client, Returned(mod'))
                                     /\ (client.eos \in Returned(mod') => client'.eos = None)
                                     /\ (client.eos \notin Returned(mod') => client'.eos = client.eos))
    BY MainModule, AnsweredIs, DoneIs
  <1>r. Returned(mod') = (mod.in \cup mod.out) \ (mod'.in \cup mod'.out)
    BY DEF Returned, Held
  <1>o. mod.out \subseteq OutBuffers /\ mod.in \subseteq InBuffers /\ InBuffers \cap OutBuffers = {}
    BY <1>m, PortsAre DEF ModRecords
  <1>1. CASE mod'.in = mod.in /\ mod'.out = mod.out /\ mod'.eosIn = mod.eosIn /\ mod'.eosOut = mod.eosOut
             /\ (mod'.decoder <=> mod.decoder)
    <2>1. client'.eos = client.eos
      BY <1>1, <1>c, <1>r
    <2> QED BY <1>1, <2>1, ModuleHoldsFrame
  <1>2. CASE mod'.decoder /\ mod'.eosIn = None /\ mod'.eosOut = None
    BY <1>2 DEF ModuleHolds
  <1>3. CASE mod.decoder /\ mod'.in = mod.in \cap {mod.eosIn} /\ mod'.out = {} /\ mod'.eosOut = None
             /\ mod'.eosIn \in {None, mod.eosIn}
    <2>1. CASE mod.eosIn = None
      <3>1. mod'.in = {} /\ mod'.eosIn = None
        BY <1>3, <2>1, <1>m, <1>o
      <3> QED BY <1>3, <3>1 DEF ModuleHolds
    <2>2. CASE mod.eosIn # None
      <3>1. mod.eosIn \in mod.in /\ mod.eosIn = client.eos
        BY <2>2 DEF ModuleHolds
      <3>2. mod'.in = {mod.eosIn}
        BY <1>3, <3>1
      <3>3. client.eos \notin Returned(mod')
        BY <1>r, <3>1, <3>2
      <3>4. client'.eos = client.eos
        BY <1>c, <3>3
      <3> QED BY <1>3, <3>1, <3>2, <3>4 DEF ModuleHolds
    <2> QED BY <2>1, <2>2
  <1>4. CASE ~mod.decoder /\ mod'.in = mod.in /\ mod'.out = mod.out \ {mod.eosOut}
             /\ mod'.eosIn = mod.eosIn /\ mod'.eosOut = None /\ ~mod'.decoder
    <2>1. mod.out = {} /\ mod.in \subseteq {client.eos}
      BY <1>4 DEF ModuleHolds
    <2>2. Returned(mod') = {}
      BY <1>4, <2>1, <1>r
    <2>3. client'.eos = client.eos
      BY <1>c, <2>2
    <2> QED BY <1>4, <2>1, <2>3 DEF ModuleHolds
  <1>5. Stop(mod) \in ModRecords /\ Run(Stop(mod)) \in ModRecords
    BY <1>m, StopIs
  <1>6. CASE mod' = mod \/ mod' = [mod EXCEPT !.created = TRUE] \/ mod' = [mod EXCEPT !.created = FALSE]
    BY <1>1, <1>6, <1>m DEF ModRecords
  <1>7. CASE mod' = Run(mod) \/ mod' = Run(Stop(mod))
    <2>1. /\ Run(mod).decoder /\ Run(mod).eosIn = None /\ Run(mod).eosOut = None
          /\ Run(Stop(mod)).decoder /\ Run(Stop(mod)).eosIn = None /\ Run(Stop(mod)).eosOut = None
      BY <1>5, <1>m, StopIs
    <2> QED BY <1>2, <1>7, <2>1
  <1>8. CASE mod' = Stop(mod) \/ mod' = [Stop(mod) EXCEPT !.created = FALSE]
    <2>1. /\ mod'.in = Stop(mod).in /\ mod'.out = Stop(mod).out /\ mod'.eosIn = Stop(mod).eosIn
          /\ mod'.eosOut = Stop(mod).eosOut /\ (mod'.decoder <=> Stop(mod).decoder)
      BY <1>5, <1>8 DEF ModRecords
    <2>2. CASE mod.decoder
      BY <1>3, <1>m, <2>1, <2>2, StopIs
    <2>3. CASE ~mod.decoder
      BY <1>1, <1>m, <2>1, <2>3, StopIs
    <2> QED BY <2>2, <2>3
  <1>9. CASE mod.decoder /\ mod' = [Run(Stop(mod)) EXCEPT !.decoder = FALSE]
    <2>1. /\ mod'.in = Run(Stop(mod)).in /\ mod'.out = Run(Stop(mod)).out
          /\ mod'.eosIn = Run(Stop(mod)).eosIn /\ mod'.eosOut = Run(Stop(mod)).eosOut
      BY <1>5, <1>9 DEF ModRecords
    <2>2. /\ Run(Stop(mod)).in = Stop(mod).in /\ Run(Stop(mod)).out = Stop(mod).out
          /\ Run(Stop(mod)).eosIn = None /\ Run(Stop(mod)).eosOut = None
          /\ Stop(mod).in = mod.in \cap {mod.eosIn} /\ Stop(mod).out = {}
      BY <1>5, <1>9, <1>m, StopIs
    <2> QED BY <1>3, <1>9, <2>1, <2>2
  <1>10. CASE ~mod.decoder /\ mod' = [mod EXCEPT !.out = @ \ {mod.eosOut}, !.eosOut = None]
    BY <1>4, <1>10, <1>m DEF ModRecords
  <1> QED BY <1>6, <1>7, <1>8, <1>9, <1>10, MainModule DEF ModChange

\* What the module keeps for the end of the stream it holds after every step.
LEMMA ModuleHoldsKept ==
  ASSUME Types, OnePlaceEach, ModuleHolds, Next
  PROVE  ModuleHolds'
  <1>1. CASE UNCHANGED vars
    BY <1>1 DEF vars, ModuleHolds, Running
  <1> QED BY <1>1, NextCases, OthersModuleHolds, MainModuleHolds

\* A decoder is created by a transition to Executing or Pause and destroyed on the way back.
LEMMA DecoderWhenKept ==
  ASSUME Types, Places4Task, DecoderWhen, Next
  PROVE  DecoderWhen'
  <1>m. mod \in ModRecords /\ state \in States /\ main \in [pc : MainPlaces, task : ClientOrders \cup {FromDecoder, NoCommand}]
    BY TypesSplit DEF ModTypes, ModRecords, SmallTypes, MainTypes
  <1>1. CASE (mod'.decoder => mod.decoder) /\ state' = state /\ main' = main
    BY <1>1 DEF DecoderWhen, New
  <1>2. CASE ClientActs
    BY <1>1, <1>2, ClientFrame
  <1>3. CASE Decoder
    <2>1. mod'.decoder => mod.decoder
      BY <1>3, <1>m DEF Decoder, Consume, Display, EndOfStream, DecoderFails, ModRecords
    <2> QED BY <1>1, <1>3, <2>1, DecoderFrame
  <1>4. CASE WorkerActs
    <2>1. mod'.decoder => mod.decoder
      BY <1>4, <1>m DEF WorkerActs, Worker, TakeTask, TreatBuffer, PassFence, Empty, Fill, ModRecords
    <2> QED BY <1>1, <1>4, <2>1, WorkerFrame
  <1>5. CASE Main
    <2>1. (mod'.decoder => mod.decoder) \/ (RunModule /\ mod' = Run(mod))
      <3>1. Stop(mod) \in ModRecords /\ Run(Stop(mod)) \in ModRecords /\ (Stop(mod).decoder => mod.decoder)
        BY <1>m, StopIs DEF Stop
      <3> QED BY <1>5, <1>m, <3>1, MainModule DEF ModChange, ModRecords
    <2>a. ASSUME mod'.decoder => mod.decoder, state' = state, main'.pc \notin {"complete", "invalid"},
                 main.pc # "complete"
          PROVE  DecoderWhen'
      BY <2>a DEF DecoderWhen
    <2>b. ASSUME NEW pc \in MainPlaces, Goto(pc) PROVE main'.pc = pc /\ New' = New
      BY <2>b, <1>m DEF Goto, New
    <2>2. CASE Forward
      BY <2>1, <2>2, <1>1 DEF Forward, RunModule, Treats
    <2>3. CASE StartCommand
      BY <2>3, <2>a DEF StartCommand
    <2>4. CASE (JoinFill \/ JoinEmpty \/ StartPopulating \/ FlushModule \/ DestroyModule) /\ ~RunModule
      <3>1. /\ main.pc \in {"joinFill", "joinEmpty", "treat"} /\ state' = state
            /\ \E pc \in {"joinEmpty", "treat", "populateIn", "flushed", "unpopulateIn"} : Goto(pc)
        BY <2>4 DEF JoinFill, JoinEmpty, StartPopulating, FlushModule, DestroyModule, Treats
      <3>2. main'.pc \notin {"complete", "invalid"}
        BY <3>1, <2>b DEF MainPlaces
      <3> QED BY <2>1, <2>4, <2>a, <3>1, <3>2
    <2>5. CASE NextTask /\ ~Complete /\ ~BecomeInvalid
      <3>1. main'.pc = "pop" /\ state' = state
        BY <2>5, <1>5, MainFrame DEF NextTask
      <3>2. main.pc # "complete" /\ ((mod'.decoder => mod.decoder) \/ main.pc = "treat")
        BY <2>5, <2>1, <1>5 DEF Main, Forward, StartCommand, JoinFill, JoinEmpty,
             RefuseTransition, StartPopulating, Populate, CreateModule, DestroyModule, Unpopulate,
             RunModule, StopModule, OtherTransition, StopInvalid,
             FlushModule, FlushComplete, DisablePort, EnablePort, Treats
      <3>3. mod'.decoder => mod.decoder
        <4>1. CASE RunModule
          <5>1. ~Goto("complete")
            BY <2>5, <1>m DEF Goto, NextTask
          <5> QED BY <4>1, <5>1 DEF RunModule
        <4> QED BY <2>1, <4>1
      <3> QED BY <2>a, <3>1, <3>2, <3>3
    <2>6. CASE Populate("in", "populateIn", "populateOut") /\ Goto("populateOut")
      <3>1. main'.pc = "populateOut" /\ mod' = mod /\ state' = state /\ main.pc = "populateIn"
        BY <2>6, <2>b DEF Populate, MainPlaces
      <3> QED BY <2>a, <3>1
    <2>7. CASE Populate("out", "populateOut", "create") /\ Goto("create")
      <3>1. main'.pc = "create" /\ mod' = mod /\ state' = state /\ main.pc = "populateOut"
        BY <2>7, <2>b DEF Populate, MainPlaces
      <3> QED BY <2>a, <3>1
    <2>8. CASE Unpopulate("in", "unpopulateIn", "unpopulateOut") /\ Goto("unpopulateOut")
      <3>1. main'.pc = "unpopulateOut" /\ mod' = mod /\ state' = state /\ main.pc = "unpopulateIn"
        BY <2>8, <2>b DEF Unpopulate, MainPlaces
      <3> QED BY <2>a, <3>1
    <2>9. CASE CreateModule
      <3>1. main.pc = "create" /\ ToIdle /\ mod' = [mod EXCEPT !.created = TRUE]
        BY <2>9 DEF CreateModule, Places4Task
      <3>2. ~mod.decoder
        BY <3>1 DEF DecoderWhen, ToIdle
      <3> QED BY <1>m, <3>1, <3>2 DEF DecoderWhen, ModRecords
    <2>10. CASE Unpopulate("out", "unpopulateOut", "complete")
      <3>1. main.pc = "unpopulateOut" /\ ToLoaded /\ mod' = mod
        BY <2>10 DEF Unpopulate, Places4Task
      <3>2. ~mod.decoder
        BY <3>1 DEF DecoderWhen, ToLoaded
      <3> QED BY <3>1, <3>2 DEF DecoderWhen
    <2>11. CASE RunModule /\ Goto("complete")
      <3>1. state' = state /\ state = "Idle" /\ New \in {"Executing", "Pause"}
        BY <2>11 DEF RunModule, ToRun
      <3>2. main'.pc = "complete" /\ New' = New
        BY <2>11, <2>b DEF MainPlaces
      <3> QED BY <3>1, <3>2 DEF DecoderWhen
    <2>12. CASE StopModule \/ StopInvalid
      <3>1. mod' = Stop(mod) \/ mod' = [Stop(mod) EXCEPT !.created = FALSE]
        BY <2>12 DEF StopModule, StopInvalid
      <3>2. Stop(mod) \in ModRecords /\ ~Stop(mod).decoder
        BY <1>m, StopIs
      <3> QED BY <3>1, <3>2 DEF DecoderWhen, ModRecords
    <2>13. CASE OtherTransition
      <3>1. main'.pc = "complete" /\ New' = New /\ state' = state /\ mod' = mod /\ main.pc = "treat"
            /\ ~ToStop
        BY <2>13, <2>b DEF OtherTransition, Treats, MainPlaces
      <3>2. mod.decoder => state \in {"Executing", "Pause"} /\ New # "Idle"
        BY <3>1 DEF DecoderWhen, ToStop
      <3> QED BY <3>1, <3>2 DEF DecoderWhen
    <2>14. CASE Complete
      <3>1. main.pc = "complete" /\ state' = New /\ mod' = mod /\ main'.pc = "pop"
            /\ Legal(state, New) /\ New # "Invalid"
        BY <2>14 DEF Complete, Fails, NextTask, Places4Task
      <3>2. main.task \in ClientOrders \cup {FromDecoder} /\ main.task.cmd = "SetState"
        BY <3>1, <1>m DEF Places4Task
      <3>3. New \in States
        BY <3>2, KindsOfTasks, TaskSets DEF New
      <3>4. mod.decoder => New \in {"Executing", "Pause"}
        BY <3>1, <3>3 DEF DecoderWhen, Legal, States
      <3> QED BY <3>1, <3>4 DEF DecoderWhen
    <2>15. CASE BecomeInvalid
      <3>1. ~mod.decoder /\ mod' = mod
        BY <2>15 DEF BecomeInvalid, DecoderWhen
      <3> QED BY <3>1 DEF DecoderWhen
    <2>16. RunModule => Goto("complete") \/ NextTask
      BY DEF RunModule, Fails
    <2>17. /\ RunModule => ~Complete /\ ~BecomeInvalid
           /\ RefuseTransition \/ FlushComplete \/ DisablePort \/ EnablePort => NextTask /\ ~Complete /\ ~BecomeInvalid
      BY DEF RunModule, Complete, BecomeInvalid, RefuseTransition, FlushComplete, DisablePort,
             EnablePort, Fails, Treats
    <2>18. /\ Populate("in", "populateIn", "populateOut") => Goto("populateOut") \/ (NextTask /\ ~Complete /\ ~BecomeInvalid)
           /\ Populate("out", "populateOut", "create") => Goto("create") \/ (NextTask /\ ~Complete /\ ~BecomeInvalid)
           /\ Unpopulate("in", "unpopulateIn", "unpopulateOut") =>
                 Goto("unpopulateOut") \/ (NextTask /\ ~Complete /\ ~BecomeInvalid)
      BY DEF Populate, Unpopulate, Fails, Complete, BecomeInvalid
    <2> QED BY <1>5, <2>2, <2>3, <2>4, <2>5, <2>6, <2>7, <2>8, <2>9, <2>10, <2>11, <2>12, <2>13,
               <2>14, <2>15, <2>16, <2>17, <2>18 DEF Main
  <1>6. CASE UNCHANGED vars
    BY <1>1, <1>6 DEF vars
  <1> QED BY <1>2, <1>3, <1>4, <1>5, <1>6, NextCases

\* The fence is closed and opened where a pause begins and ends.
LEMMA FenceWhenKept ==
  ASSUME Types, Places4Task, FenceWhen, Next
  PROVE  FenceWhen'
  <1>m. /\ pause \in [on : BOOLEAN, n : 0 .. 2 * MaxCommands] /\ state \in States
        /\ main \in [pc : MainPlaces, task : ClientOrders \cup {FromDecoder, NoCommand}]
        /\ NoCommand.cmd # "Flush"
    BY TypesSplit, KindsOfTasks DEF SmallTypes, MainTypes
  <1>1. CASE UNCHANGED <<state, pause, main>> /\ (Running' => Running)
    BY <1>1 DEF FenceWhen
  <1>2. CASE ClientActs \/ Decoder \/ WorkerActs \/ UNCHANGED vars
    <2>1. UNCHANGED <<state, pause, main>>
      BY <1>2, ClientFrame, DecoderFrame, WorkerFrame DEF vars
    <2>2. Running' => Running
      BY <1>2, ClientFrame DEF vars, Running, Decoder, Consume, Display, EndOfStream, DecoderFails,
         WorkerActs, Worker, TakeTask, TreatBuffer, PassFence, Next
    <2> QED BY <1>1, <2>1, <2>2
  <1>3. CASE Running /\ Main
    <2>1. CASE Forward
      BY <1>1, <1>3, <2>1 DEF Forward
    <2>2. CASE StartCommand
      <3>1. /\ main.pc = "pop" /\ state' = state /\ main'.task = Head(mainQ)
            /\ main'.pc \in {"joinFill", "treat"} /\ (Running' => Running)
            /\ pause' = IF Head(mainQ).cmd = "Flush" /\ state = "Pause" THEN Unblock(pause) ELSE pause
        BY <2>2 DEF StartCommand, Running
      <3>2. ~Unblock(pause).on
        BY <1>m DEF Unblock
      <3> QED BY <3>1, <3>2 DEF FenceWhen
    <2>3. ASSUME NEW pc \in MainPlaces \ {"pop"}, Goto(pc), UNCHANGED <<state, pause>>, main.pc # "pop"
          PROVE  FenceWhen'
      <3>1. main'.pc # "pop" /\ main'.task = main.task
        BY <2>3, <1>m DEF Goto
      <3> QED BY <1>3, <2>3, <3>1 DEF FenceWhen
    <2>4. ASSUME NextTask, UNCHANGED <<state, pause>>, main.task.cmd # "Flush"
          PROVE  FenceWhen'
      <3>1. main'.pc = "pop" /\ main'.task = NoCommand
        BY <2>4 DEF NextTask
      <3> QED BY <1>3, <2>4, <3>1 DEF FenceWhen
    <2>5. CASE Complete
      <3>1. /\ main.task.cmd = "SetState" /\ state # "Invalid" /\ New # "Invalid" /\ state' = New
            /\ main'.task = NoCommand /\ main'.pc = "pop"
        BY <2>5 DEF Complete, Places4Task, Legal, Fails, NextTask
      <3>2. pause.on <=> state = "Pause"
        BY <1>3, <3>1 DEF FenceWhen
      <3>3. pause'.on <=> New = "Pause"
        <4>1. CASE New = "Pause"
          <5>1. pause' = [on |-> TRUE, n |-> pause.n + 1]
            BY <2>5, <4>1 DEF Complete, Block
          <5> QED BY <4>1, <5>1
        <4>2. CASE New # "Pause" /\ state = "Pause"
          <5>1. pause' = Unblock(pause)
            BY <2>5, <4>2 DEF Complete
          <5> QED BY <1>m, <4>2, <5>1 DEF Unblock
        <4>3. CASE New # "Pause" /\ state # "Pause"
          <5>1. pause' = pause
            BY <2>5, <4>3 DEF Complete
          <5> QED BY <3>2, <4>3, <5>1
        <4> QED BY <4>1, <4>2, <4>3
      <3> QED BY <1>m, <3>1, <3>3 DEF FenceWhen
    <2>6. CASE BecomeInvalid
      BY <2>6 DEF BecomeInvalid, FenceWhen
    <2>7. CASE FlushComplete
      <3>1. /\ state' = state /\ main'.task = NoCommand /\ main'.pc = "pop"
            /\ main.task.cmd = "Flush" /\ main.pc = "flushed"
        BY <2>7 DEF FlushComplete, Fails, NextTask, Places4Task
      <3>2. CASE state = "Pause"
        <4>1. pause' = [on |-> TRUE, n |-> pause.n + 1]
          BY <2>7, <3>2 DEF FlushComplete, Block
        <4> QED BY <1>m, <3>1, <3>2, <4>1 DEF FenceWhen
      <3>3. CASE state # "Pause"
        <4>1. pause' = pause
          BY <2>7, <3>3 DEF FlushComplete
        <4> QED BY <1>3, <1>m, <3>1, <3>3, <4>1 DEF FenceWhen
      <3> QED BY <3>2, <3>3
    <2>8. CASE ~Forward /\ ~StartCommand /\ ~Complete /\ ~BecomeInvalid /\ ~FlushComplete
      <3>1. UNCHANGED <<state, pause>>
        BY <1>3, <2>8, MainFrame
      <3>2. main.pc # "pop"
        BY <1>3, <2>8 DEF Main, JoinFill, JoinEmpty,
             RefuseTransition, StartPopulating, Populate, CreateModule, DestroyModule, Unpopulate,
             RunModule, StopModule, OtherTransition, StopInvalid,
             FlushModule, DisablePort, EnablePort, Treats
      <3>3. NextTask => main.task.cmd # "Flush"
        <4>1. Goto("joinEmpty") \/ Goto("treat") \/ Goto("flushed") => ~NextTask
          BY <1>m DEF Goto, NextTask
        <4> QED BY <1>3, <2>8, <4>1 DEF Main, JoinFill, JoinEmpty,
             RefuseTransition, StartPopulating, Populate, CreateModule, DestroyModule, Unpopulate,
             RunModule, StopModule, OtherTransition, StopInvalid,
             FlushModule, DisablePort, EnablePort, Treats, Places4Task
      <3> QED BY <1>3, <2>3, <2>4, <2>8, <3>1, <3>2, <3>3, MainMoves
    <2> QED BY <1>3, <2>1, <2>2, <2>5, <2>6, <2>7, <2>8
  <1> QED BY <1>2, <1>3, NextCases

\* The component starts with no buffer and an empty queue in front of every thread.
LEMMA OmxInit == Init => OmxInv
  <1> SUFFICES ASSUME Init PROVE OmxInv
    OBVIOUS
  <1>0. /\ Ports = {"in", "out"} /\ MaxCommands \in Nat /\ MaxFaults \in Nat
        /\ 0 \in 0 .. MaxCommands /\ 0 \in 0 .. MaxFaults /\ 0 \in 0 .. 2 * MaxCommands
        /\ NoCommand \in Tasks /\ NoCommand \in Orders
    BY OmxAssumption, TaskSets DEF Ports
  <1>1. Types
    <2>1. PortTypes /\ OwnBuffers
      BY <1>0 DEF Init, PortTypes, OwnBuffers
    <2>2. ClientTypes /\ ModTypes
      BY <1>0 DEF Init, ClientTypes, ModTypes
    <2>3. MainQTypes /\ MainTypes
      BY EmptySeq DEF Init, MainQTypes, MainTypes, MainPlaces
    <2>4. WorkerTypes
      BY <1>0, EmptySeq DEF Init, WorkerTypes, NewProcessor
    <2>5. SmallTypes
      BY <1>0 DEF Init, SmallTypes, States
    <2> QED BY <2>1, <2>2, <2>3, <2>4, <2>5, TypesSplit
  <1>2. OneCommand
    <2>1. DOMAIN mainQ = {} /\ main.task = NoCommand /\ pause.n = 0 /\ client.pending = NoCommand
          /\ client.sent = 0
      BY DEF Init
    <2> QED BY <2>1, KindsOfTasks DEF OneCommand
  <1>3. Places4Task
    BY DEF Init, Places4Task
  <1>4. Destructors
    <2>1. \A p \in Ports : worker[p] = NewProcessor
      BY DEF Init
    <2>2. EndsInOrder(NewProcessor) /\ ~NewProcessor.delete
      BY DEF NewProcessor, EndsInOrder
    <2> QED BY <2>1, <2>2, <1>0 DEF Init, Destructors
  <1>5. OnePlaceEach
    <2>1. Allocated = {} /\ Held(mod) = {} /\ client.held = {} /\ mainQ = <<>>
      BY <1>0 DEF Init, Allocated, Held
    <2>2. \A p \in Ports : worker[p].queue = <<>> /\ worker[p].busy = NoCommand
      BY DEF Init, NewProcessor
    <2>3. ASSUME NEW b \in Buffers PROVE Places(b) = 0
      <3>1. PortOf(b) \in Ports
        BY PortsAre
      <3>2. NoCommand # Command("Buffer", b)
        BY KindsOfTasks, TaskIs
      <3>3. QueuedIn(<<>>, b) = {}
        BY DEF QueuedIn
      <3>4. Cardinality(QueuedIn(mainQ, b)) = 0 /\ Cardinality(QueuedIn(worker[PortOf(b)].queue, b)) = 0
        BY <2>1, <2>2, <3>1, <3>3, FS_EmptySet
      <3> QED BY <2>1, <2>2, <3>1, <3>2, <3>4 DEF Places
    <2> QED BY <2>1, <2>3 DEF OnePlaceEach
  <1>6. ModuleHolds
    BY DEF Init, ModuleHolds
  <1>7. DecoderWhen
    BY DEF Init, DecoderWhen
  <1>8. FenceWhen
    BY DEF Init, FenceWhen
  <1> QED BY <1>1, <1>2, <1>3, <1>4, <1>5, <1>6, <1>7, <1>8 DEF OmxInv, Types

\* A step keeps the invariant.
LEMMA OmxStep == OmxInv /\ [Next]_vars => OmxInv'
  <1>1. ASSUME OmxInv, Next PROVE OmxInv'
    <2>0. Types /\ OneCommand /\ Places4Task /\ Destructors /\ OnePlaceEach /\ ModuleHolds
          /\ DecoderWhen /\ FenceWhen
      BY <1>1 DEF OmxInv, Types
    <2>1. Types' /\ OneCommand' /\ Places4Task' /\ Destructors'
      BY <1>1, <2>0, TypesKept, OneCommandKept, PlacesKept, DestructorsKept
    <2>2. OnePlaceEach' /\ ModuleHolds' /\ DecoderWhen' /\ FenceWhen'
      BY <1>1, <2>0, <2>1, OnePlaceKept, ModuleHoldsKept, DecoderWhenKept, FenceWhenKept
    <2> QED BY <2>1, <2>2 DEF OmxInv, Types
  <1>2. ASSUME OmxInv, UNCHANGED vars PROVE OmxInv'
    <2>1. TypeOK' /\ TaskTypes'
      BY <1>2 DEF OmxInv, vars, TypeOK, TaskTypes
    <2>2. OneCommand' /\ Destructors'
      BY <1>2 DEF OmxInv, vars, OneCommand, Destructors
    <2>3. Places4Task' /\ DecoderWhen'
      BY <1>2 DEF OmxInv, vars, Places4Task, DecoderWhen, New, ToIdle, ToLoaded
    <2>4. OnePlaceEach'
      BY <1>2 DEF OmxInv, vars, OnePlaceEach, Places, Allocated, Running, Held
    <2>5. ModuleHolds' /\ FenceWhen'
      BY <1>2 DEF OmxInv, vars, ModuleHolds, FenceWhen, Running
    <2> QED BY <2>1, <2>2, <2>3, <2>4, <2>5 DEF OmxInv
  <1> QED BY <1>1, <1>2

\* The invariant of the component, for every client.
THEOREM OmxInvariant == Spec => []OmxInv
  BY OmxInit, OmxStep, PTL DEF Spec

\* No buffer is lost between the queues, the workers and the decoder, handed to the decoder
\* twice or returned twice, whatever is flushed, paused, stopped or fails.
THEOREM EachBufferOnceTheorem == Spec => []EachBufferOnce
  <1>1. OmxInv => EachBufferOnce
    <2>1. Allocated \subseteq Buffers \/ ~Types
      BY TypesSplit, PortsAre DEF OwnBuffers, Allocated
    <2> QED BY <2>1 DEF OmxInv, Types, OnePlaceEach, EachBufferOnce
  <1> QED BY <1>1, OmxInvariant, PTL

-----------------------------------------------------------------------------
\* What is not in a queue stays out of it, but for what is put there.
Without(q, T) == \A i \in DOMAIN q : q[i] \notin T

\* An empty queue lacks everything, a shorter one no less, a longer one all but the new task.
LEMMA WithoutIs ==
  ASSUME NEW A, NEW q \in Seq(A), NEW T
  PROVE  /\ Without(<<>>, T)
         /\ q # <<>> /\ Without(q, T) => Without(Tail(q), T) /\ Head(q) \notin T
         /\ \A t \in A : Without(q, T) /\ t \notin T => Without(Append(q, t), T)
  <1>1. ASSUME q # <<>>, Without(q, T) PROVE Without(Tail(q), T) /\ Head(q) \notin T
    <2>1. /\ Len(q) \in Nat /\ Len(q) > 0 /\ DOMAIN q = 1 .. Len(q) /\ Head(q) = q[1]
          /\ DOMAIN Tail(q) = 1 .. Len(q) - 1
          /\ \A i \in 1 .. Len(q) - 1 : Tail(q)[i] = q[i + 1]
      BY <1>1, QueueHead
    <2>2. ASSUME NEW i \in DOMAIN Tail(q) PROVE Tail(q)[i] \notin T
      <3>1. i + 1 \in DOMAIN q /\ Tail(q)[i] = q[i + 1]
        BY <2>1, <2>2
      <3> QED BY <1>1, <3>1 DEF Without
    <2>3. 1 \in DOMAIN q
      BY <2>1
    <2> QED BY <1>1, <2>1, <2>2, <2>3 DEF Without
  <1>2. ASSUME NEW t \in A, Without(q, T), t \notin T PROVE Without(Append(q, t), T)
    <2>1. /\ DOMAIN q = 1 .. Len(q) /\ Len(q) \in Nat /\ DOMAIN Append(q, t) = 1 .. Len(q) + 1
          /\ \A i \in 1 .. Len(q) : Append(q, t)[i] = q[i]
          /\ Append(q, t)[Len(q) + 1] = t
      BY QueueEnd
    <2>2. \A i \in 1 .. Len(q) + 1 : i \in 1 .. Len(q) \/ i = Len(q) + 1
      BY <2>1
    <2> QED BY <1>2, <2>1, <2>2 DEF Without
  <1>3. Without(<<>>, T)
    BY DEF Without
  <1> QED BY <1>1, <1>2, <1>3

\* A processor without any buffer of a set, and processorMain's queue without.
Lacks(S, w) == Without(w.queue, BufferTasks(S)) /\ w.busy \notin BufferTasks(S)
MainLacks(S) == Without(mainQ, BufferTasks(S))

LackFacts ==
  /\ \A p \in Ports : /\ WorkerQuiet(p) <=> Lacks(Buffers, worker[p])
                      /\ \A S \in SUBSET Buffers : WorkerWithout(S, p) <=> Lacks(S, worker[p])
  /\ NoBuffer(mainQ) <=> MainLacks(Buffers)
  /\ \A S \in SUBSET Buffers : NoneIn(S, mainQ) <=> MainLacks(S)

\* A quiet processor lacks every buffer of the port.
LEMMA WorkerLacksAre ==
  ASSUME Types
  PROVE  \A p \in Ports : /\ WorkerQuiet(p) <=> Lacks(Buffers, worker[p])
                          /\ \A S \in SUBSET Buffers : WorkerWithout(S, p) <=> Lacks(S, worker[p])
  <1> SUFFICES ASSUME NEW p \in Ports
               PROVE  /\ WorkerQuiet(p) <=> Lacks(Buffers, worker[p])
                      /\ \A S \in SUBSET Buffers : WorkerWithout(S, p) <=> Lacks(S, worker[p])
    OBVIOUS
  <1> DEFINE w == worker[p]
  <1>1. /\ w.busy \in BufferTasks(OfPort(p)) \cup Fences \cup {NoCommand}
        /\ w.queue \in Seq(BufferTasks(OfPort(p)) \cup Fences \cup {Quit})
        /\ OfPort(p) \subseteq Buffers
    BY TypesSplit, PortsAre DEF WorkerTypes
  <1>2. \A i \in DOMAIN w.queue : w.queue[i] \in BufferTasks(OfPort(p)) \cup Fences \cup {Quit}
    BY <1>1, ElementOfSeq, LenProperties
  <1> HIDE DEF w
  <1>3. \A t \in BufferTasks(OfPort(p)) \cup Fences \cup {Quit, NoCommand} :
           t.cmd = "Buffer" <=> t \in BufferTasks(Buffers)
    <2>1. BufferTasks(OfPort(p)) \subseteq BufferTasks(Buffers)
      BY <1>1 DEF BufferTasks
    <2>2. \A t \in BufferTasks(Buffers) : t.cmd = "Buffer"
      BY KindsOfTasks
    <2>3. \A t \in Fences \cup {Quit, NoCommand} : t.cmd # "Buffer"
      BY KindsOfTasks
    <2> QED BY <2>1, <2>2, <2>3
  <1>4. WorkerQuiet(p) <=> Lacks(Buffers, w)
    BY <1>1, <1>2, <1>3 DEF WorkerQuiet, NoBuffer, Lacks, Without, w
  <1>5. ASSUME NEW S \in SUBSET Buffers PROVE WorkerWithout(S, p) <=> Lacks(S, w)
    <2>1. \A t : t \in BufferTasks(S) <=> \E b \in S : t = Command("Buffer", b)
      BY DEF BufferTasks
    <2> QED BY <2>1 DEF WorkerWithout, NoneIn, QueuedIn, Lacks, Without, w
  <1> QED BY <1>4, <1>5 DEF w

\* The invariants, said with what the queues lack.
LEMMA LacksAre == Types => LackFacts
  <1> SUFFICES ASSUME Types PROVE LackFacts
    OBVIOUS
  <1>1. \A i \in DOMAIN mainQ : mainQ[i].cmd = "Buffer" <=> mainQ[i] \in BufferTasks(Buffers)
    BY MainQIs, OrderIs
  <1>2. ASSUME NEW S \in SUBSET Buffers PROVE NoneIn(S, mainQ) <=> MainLacks(S)
    <2>1. \A t : t \in BufferTasks(S) <=> \E b \in S : t = Command("Buffer", b)
      BY DEF BufferTasks
    <2> QED BY <2>1 DEF NoneIn, QueuedIn, MainLacks, Without
  <1>3. NoBuffer(mainQ) <=> MainLacks(Buffers)
    BY <1>1 DEF NoBuffer, MainLacks, Without
  <1> QED BY <1>2, <1>3, WorkerLacksAre DEF LackFacts

\* The same after a step.
LEMMA LacksAreNext == Types' => LackFacts'
  BY LacksAre, PTL

\* A processor that is told to wait or to end has no more buffers, a new one has none.
LEMMA ProcessorLacks ==
  ASSUME NEW p \in Ports, NEW w \in WorkerRecords(p), NEW S \in SUBSET Buffers
  PROVE  /\ Lacks(S, NewProcessor)
         /\ Lacks(S, w) => Lacks(S, Deleted(w))
         /\ Lacks(S, w) => \A t \in Fences : Lacks(S, [w EXCEPT !.queue = Append(w.queue, t)])
  <1>0. w.queue \in Seq(Tasks)
    BY DEF WorkerRecords
  <1>t. \A t \in Fences \cup {Quit, NoCommand} : t \notin BufferTasks(S) /\ t \in Tasks
    BY KindsOfTasks, TaskSets
  <1>1. ASSUME NEW t \in Fences \cup {Quit}, NEW x, x.queue = Append(w.queue, t), x.busy = w.busy, Lacks(S, w)
        PROVE  Lacks(S, x)
    BY <1>0, <1>1, <1>t, WithoutIs DEF Lacks
  <1>2. Lacks(S, w) => Lacks(S, Deleted(w))
    <2>1. Deleted(w).queue = Append(w.queue, Quit) /\ Deleted(w).busy = w.busy
      BY DEF Deleted, WorkerRecords
    <2> QED BY <1>1, <2>1
  <1>3. ASSUME NEW t \in Fences, Lacks(S, w) PROVE Lacks(S, [w EXCEPT !.queue = Append(w.queue, t)])
    <2> DEFINE x == [w EXCEPT !.queue = Append(w.queue, t)]
    <2>1. x.queue = Append(w.queue, t) /\ x.busy = w.busy
      BY DEF WorkerRecords
    <2> HIDE DEF x
    <2>2. Lacks(S, x)
      BY <1>1, <1>3, <2>1
    <2> QED BY <2>2 DEF x
  <1>4. Lacks(S, NewProcessor)
    <2>1. NewProcessor.queue = <<>> /\ NewProcessor.busy = NoCommand
      BY DEF NewProcessor
    <2>2. Without(<<>>, BufferTasks(S))
      BY DEF Without
    <2> QED BY <2>1, <2>2, <1>t DEF Lacks
  <1> QED BY <1>2, <1>3, <1>4

\* No worker finds a buffer it was not given.
LEMMA WorkersLack ==
  ASSUME Types, WorkerActs, NEW p \in Ports, NEW S \in SUBSET Buffers, Lacks(S, worker[p])
  PROVE  Lacks(S, worker'[p])
  <1>0. worker = [r \in Ports |-> worker[r]] /\ \A r \in Ports : worker[r] \in WorkerRecords(r)
    BY TypesSplit, WorkerTypesAre
  <1>1. PICK r \in Ports : Worker(r)
    BY DEF WorkerActs
  <1> DEFINE w == worker[r]
  <1>2. \E x : worker' = [worker EXCEPT ![r] = x]
    BY <1>1 DEF Worker, TakeTask, TreatBuffer, PassFence
  <1>3. CASE r # p
    <2>1. worker'[p] = worker[p]
      BY <1>0, <1>2, <1>3
    <2> QED BY <2>1
  <1>4. CASE r = p
    <2>n. NoCommand \notin BufferTasks(S)
      BY KindsOfTasks
    <2>a. ASSUME NEW x, worker' = [worker EXCEPT ![r] = x], Lacks(S, x) PROVE Lacks(S, worker'[p])
      BY <1>0, <1>4, <2>a
    <2>1. CASE TakeTask(r) /\ Head(w.queue) = Quit
      <3>1. worker' = [worker EXCEPT ![r] = [w EXCEPT !.ended = TRUE]]
        BY <2>1 DEF TakeTask
      <3>2. [w EXCEPT !.ended = TRUE].queue = w.queue /\ [w EXCEPT !.ended = TRUE].busy = w.busy
        BY <1>0 DEF WorkerRecords
      <3>3. Lacks(S, [w EXCEPT !.ended = TRUE])
        BY <1>4, <3>2 DEF Lacks
      <3> QED BY <2>a, <3>1, <3>3
    <2>2. CASE TakeTask(r) /\ Head(w.queue) # Quit
      <3> DEFINE x == [w EXCEPT !.queue = Tail(@), !.busy = IF w.delete THEN NoCommand ELSE Head(w.queue)]
      <3>1. worker' = [worker EXCEPT ![r] = x] /\ w.queue # <<>>
        BY <2>2 DEF TakeTask
      <3>2. x.queue = Tail(w.queue) /\ x.busy \in {NoCommand, Head(w.queue)} /\ w.queue \in Seq(Tasks)
        BY <1>0 DEF WorkerRecords
      <3> HIDE DEF x
      <3>3. Without(Tail(w.queue), BufferTasks(S)) /\ Head(w.queue) \notin BufferTasks(S)
        BY <1>4, <3>1, <3>2, WithoutIs DEF Lacks
      <3>4. Lacks(S, x)
        BY <2>n, <3>2, <3>3 DEF Lacks
      <3> QED BY <2>a, <3>1, <3>4
    <2>3. CASE TreatBuffer(r) \/ PassFence(r)
      <3> DEFINE x == [w EXCEPT !.busy = NoCommand]
      <3>1. worker' = [worker EXCEPT ![r] = x]
        BY <2>3 DEF TreatBuffer, PassFence
      <3>2. x.queue = w.queue /\ x.busy = NoCommand
        BY <1>0 DEF WorkerRecords
      <3> HIDE DEF x
      <3>3. Lacks(S, x)
        BY <1>4, <2>n, <3>2 DEF Lacks
      <3> QED BY <2>a, <3>1, <3>3
    <2> QED BY <1>1, <2>1, <2>2, <2>3 DEF Worker
  <1> QED BY <1>3, <1>4

\* processorMain gives a processor a buffer by Forward only.
LEMMA MainLeaves ==
  ASSUME Types, OneCommand, Places4Task, Main, ~Forward, NEW S \in SUBSET Buffers
  PROVE  /\ \A p \in Ports : Lacks(S, worker[p]) => Lacks(S, worker'[p])
         /\ JoinFill => Lacks(S, worker'["out"])
         /\ JoinEmpty => Lacks(S, worker'["in"])
         /\ MainLacks(S) => MainLacks(S)'
  <1>0. /\ worker = [p \in Ports |-> worker[p]] /\ \A p \in Ports : worker[p] \in WorkerRecords(p)
        /\ Ports = {"in", "out"}
    BY TypesSplit, WorkerTypesAre DEF Ports
  <1>p. \A p \in Ports : /\ Lacks(S, NewProcessor)
                         /\ Lacks(S, worker[p]) => Lacks(S, Deleted(worker[p]))
    BY <1>0, ProcessorLacks
  <1>2. CASE StartCommand
    <2>1. worker' = worker \/ worker' = [worker EXCEPT !["out"] = Deleted(worker["out"])]
      BY <1>2 DEF StartCommand
    <2>2. worker'["in"] = worker["in"] /\ worker'["out"] \in {worker["out"], Deleted(worker["out"])}
      BY <1>0, <2>1
    <2>3. mainQ # <<>> /\ mainQ' = Tail(mainQ)
      BY <1>2 DEF StartCommand
    <2>4. MainLacks(S) => MainLacks(S)'
      BY <2>3, TypesSplit, WithoutIs DEF MainLacks, MainQTypes
    <2> QED BY <1>0, <1>2, <1>p, <2>2, <2>4 DEF StartCommand, JoinFill, JoinEmpty
  <1>3. CASE JoinFill
    <2>1. worker'["out"] = NewProcessor /\ worker'["in"] = Deleted(worker["in"]) /\ mainQ' = mainQ
      BY <1>0, <1>3 DEF JoinFill
    <2> QED BY <1>0, <1>3, <1>p, <2>1 DEF JoinFill, JoinEmpty, MainLacks
  <1>4. CASE JoinEmpty
    <2>1. worker'["in"] = NewProcessor /\ worker'["out"] = worker["out"] /\ mainQ' = mainQ
      BY <1>0, <1>4 DEF JoinEmpty
    <2> QED BY <1>0, <1>4, <1>p, <2>1 DEF JoinFill, JoinEmpty, MainLacks
  <1>5. CASE ((Complete /\ New = "Pause") \/ FlushComplete) /\ Block
    <2> DEFINE t == FenceTask(pause.n + 1)
    <2>1. t \in Fences
      BY <1>5, FenceCounted DEF Complete, FlushComplete, Fences
    <2>2. worker' = [p \in Ports |-> [worker[p] EXCEPT !.queue = Append(worker[p].queue, t)]]
      BY <1>5, <1>0 DEF Block, Fence
    <2> HIDE DEF t
    <2>3. \A p \in Ports : Lacks(S, worker[p]) => Lacks(S, [worker[p] EXCEPT !.queue = Append(worker[p].queue, t)])
      BY <1>0, <2>1, ProcessorLacks
    <2>4. mainQ' = mainQ /\ ~JoinFill /\ ~JoinEmpty
      BY <1>5 DEF Complete, FlushComplete, JoinFill, JoinEmpty
    <2> QED BY <2>2, <2>3, <2>4 DEF MainLacks
  <1>6. Complete => UNCHANGED worker \/ (New = "Pause" /\ Block)
    BY DEF Complete
  <1>7. FlushComplete => UNCHANGED worker \/ Block
    BY DEF FlushComplete
  <1>8. CASE UNCHANGED worker /\ ~StartCommand /\ ~JoinFill /\ ~JoinEmpty
    <2>1. mainQ' = mainQ
      BY <1>8, MainFrame
    <2> QED BY <1>8, <2>1 DEF MainLacks
  <1> QED BY <1>2, <1>3, <1>4, <1>5, <1>6, <1>7, <1>8, MainFrame

\* QuietWhen, with what the queues lack.
Behind == \A i, j \in DOMAIN mainQ :
             i < j /\ IsOrder(mainQ[i]) /\ mainQ[i].cmd = "SetState" => mainQ[j].cmd # "Buffer"
QuietLacks ==
  /\ state \notin {"Executing", "Invalid"} =>
        MainLacks(Buffers) /\ \A p \in Ports : Lacks(Buffers, worker[p])
  /\ Behind
  /\ state = "Executing" /\ main.task.cmd = "SetState" /\ main.task # FromDecoder =>
        /\ MainLacks(Buffers)
        /\ main.pc = "joinEmpty" => Lacks(Buffers, worker["out"])
        /\ main.pc \in {"treat", "complete"} /\ Legal(state, New) =>
              \A p \in Ports : Lacks(Buffers, worker[p])

\* That is QuietWhen.
LEMMA QuietIs == Types => (QuietWhen <=> (Running => QuietLacks))
  <1>1. "out" \in Ports
    BY DEF Ports
  <1> QED BY <1>1, LacksAre DEF QuietWhen, QuietLacks, Behind, LackFacts

\* The same after a step.
LEMMA QuietIsNext == Types' => (QuietWhen' <=> (Running' => QuietLacks'))
  BY QuietIs, PTL

\* The queue of processorMain lacks what it lacked, after a step of another that puts no buffer there.
LEMMA MainStillLacks ==
  ASSUME Types, NEW S \in SUBSET Buffers, MainLacks(S),
         \/ mainQ' = mainQ
         \/ \E t \in ClientOrders \cup {FromDecoder} \cup BufferTasks(Buffers) :
               t \notin BufferTasks(S) /\ mainQ' = Append(mainQ, t)
  PROVE  MainLacks(S)'
  <1>q. mainQ \in Seq(ClientOrders \cup {FromDecoder} \cup BufferTasks(Buffers))
    BY TypesSplit DEF MainQTypes
  <1>1. CASE mainQ' = mainQ
    BY <1>1 DEF MainLacks
  <1>2. ASSUME NEW t \in ClientOrders \cup {FromDecoder} \cup BufferTasks(Buffers),
               t \notin BufferTasks(S), mainQ' = Append(mainQ, t)
        PROVE  MainLacks(S)'
    <2>1. Without(mainQ, BufferTasks(S))
      BY DEF MainLacks
    <2>2. Without(Append(mainQ, t), BufferTasks(S))
      BY <1>q, <1>2, <2>1, WithoutIs
    <2> QED BY <1>2, <2>2 DEF MainLacks
  <1> QED BY <1>1, <1>2

\* A change of state stays behind the buffers that were given before it.
LEMMA BehindKept ==
  ASSUME Types, OneCommand, Behind, Careful, Running, Next
  PROVE  Behind'
  <1>q. mainQ \in Seq(ClientOrders \cup {FromDecoder} \cup BufferTasks(Buffers))
    BY TypesSplit DEF MainQTypes
  <1>1. CASE mainQ' = mainQ
    BY <1>1 DEF Behind
  <1>2. ASSUME NEW t \in ClientOrders \cup {FromDecoder} \cup BufferTasks(Buffers), mainQ' = Append(mainQ, t),
               t.cmd = "Buffer" => client.pending.cmd # "SetState"
        PROVE  Behind'
    <2>1. /\ Len(mainQ) \in Nat /\ DOMAIN mainQ = 1 .. Len(mainQ)
          /\ DOMAIN mainQ' = 1 .. Len(mainQ) + 1
          /\ \A i \in 1 .. Len(mainQ) : mainQ'[i] = mainQ[i]
          /\ mainQ'[Len(mainQ) + 1] = t
      BY <1>2, MainQMore
    <2>2. ASSUME NEW i \in DOMAIN mainQ', NEW j \in DOMAIN mainQ', i < j, IsOrder(mainQ'[i]),
                 mainQ'[i].cmd = "SetState"
          PROVE  mainQ'[j].cmd # "Buffer"
      <3>1. i \in DOMAIN mainQ /\ mainQ'[i] = mainQ[i] /\ (j \in DOMAIN mainQ \/ j = Len(mainQ) + 1)
        BY <2>1, <2>2
      <3>2. CASE j \in DOMAIN mainQ
        BY <2>1, <2>2, <3>1, <3>2 DEF Behind
      <3>3. CASE j = Len(mainQ) + 1
        <4>1. client.pending.cmd = "SetState"
          BY <2>2, <3>1 DEF OneCommand
        <4> QED BY <1>2, <2>1, <3>3, <4>1
      <3> QED BY <3>1, <3>2, <3>3
    <2> QED BY <2>2 DEF Behind
  <1>3. CASE mainQ # <<>> /\ mainQ' = Tail(mainQ)
    <2>1. /\ Len(mainQ) \in Nat /\ DOMAIN mainQ = 1 .. Len(mainQ) /\ DOMAIN mainQ' = 1 .. Len(mainQ) - 1
          /\ \A i \in 1 .. Len(mainQ) - 1 : mainQ'[i] = mainQ[i + 1]
      BY <1>3, MainQLess
    <2>2. ASSUME NEW i \in DOMAIN mainQ', NEW j \in DOMAIN mainQ', i < j, IsOrder(mainQ'[i]),
                 mainQ'[i].cmd = "SetState"
          PROVE  mainQ'[j].cmd # "Buffer"
      <3>1. i + 1 \in DOMAIN mainQ /\ j + 1 \in DOMAIN mainQ /\ i + 1 < j + 1
            /\ mainQ'[i] = mainQ[i + 1] /\ mainQ'[j] = mainQ[j + 1]
        BY <2>1, <2>2
      <3> QED BY <2>2, <3>1 DEF Behind
    <2> QED BY <2>2 DEF Behind
  <1>4. CASE ClientActs
    <2>1. \A b \in Buffers : Command("Buffer", b) \in BufferTasks(Buffers)
      BY KindsOfTasks
    <2>2. \A t \in ClientOrders : t.cmd # "Buffer"
      BY KindsOfTasks
    <2>3. ASSUME NEW b \in Buffers, GiveStep(b) PROVE Behind'
      <3>1. mainQ' = Append(mainQ, Command("Buffer", b)) /\ client.pending.cmd # "SetState"
        BY <2>3 DEF GiveStep
      <3> QED BY <1>2, <2>1, <3>1
    <2>4. ASSUME NEW t \in ClientOrders, SendStep(t) PROVE Behind'
      BY <1>2, <2>2, <2>4 DEF SendStep
    <2>5. CASE AllocStep
      BY <1>1, <2>5 DEF AllocStep
    <2> QED BY <1>4, <2>3, <2>4, <2>5, ClientMoves
  <1>5. CASE Decoder
    <2>1. mainQ' = mainQ \/ mainQ' = Append(mainQ, FromDecoder)
      BY <1>5 DEF Decoder, Consume, Display, EndOfStream, DecoderFails
    <2> QED BY <1>1, <1>2, <2>1, KindsOfTasks
  <1>6. CASE WorkerActs
    BY <1>1, <1>6, WorkerFrame
  <1>7. CASE Main
    <2>1. mainQ' = mainQ \/ (mainQ # <<>> /\ mainQ' = Tail(mainQ))
      BY <1>7, MainFrame DEF Forward, StartCommand
    <2> QED BY <1>1, <1>3, <2>1
  <1> QED BY <1>1, <1>4, <1>5, <1>6, <1>7, NextCases DEF vars

\* What the command that is treated says of it: the task and the place change together.
LEMMA MainPasses ==
  ASSUME Types, Places4Task, Main, ~Forward, ~StartCommand, ~JoinFill, ~JoinEmpty
  PROVE  /\ main.pc \notin {"pop", "joinFill", "joinEmpty"} /\ main.task # NoCommand
         /\ \/ NextTask
            \/ /\ main'.task = main.task /\ state' = state
               /\ main'.pc \notin {"pop", "joinFill", "joinEmpty", "treat"}
               /\ main'.pc = "complete" => \/ main.pc = "treat" /\ Legal(state, New)
                                           \/ state # "Executing"
  <1>m. main \in [pc : MainPlaces, task : ClientOrders \cup {FromDecoder, NoCommand}]
    BY TypesSplit DEF MainTypes
  <1>b. ASSUME NEW pc \in MainPlaces, Goto(pc) PROVE main'.pc = pc /\ main'.task = main.task
    BY <1>b, <1>m DEF Goto
  <1>1. main.pc \notin {"pop", "joinFill", "joinEmpty"}
    BY DEF Main, RefuseTransition, StartPopulating, Populate, CreateModule, DestroyModule, Unpopulate,
           RunModule, StopModule, OtherTransition, Complete, StopInvalid, BecomeInvalid,
           FlushModule, FlushComplete, DisablePort, EnablePort, Treats
  <1>2. main.task # NoCommand
    BY <1>1, <1>m DEF Places4Task
  <1>3. CASE ~NextTask
    <2>1. state' = state
      BY <1>3, MainFrame DEF Complete, BecomeInvalid, Fails
    <2>2. \/ \E pc \in {"populateIn", "populateOut", "create", "unpopulateIn", "unpopulateOut",
                        "invalid", "flushed"} : Goto(pc)
          \/ Goto("complete") /\ \/ main.pc = "treat" /\ Legal(state, New)
                                 \/ main.pc \in {"create", "unpopulateOut"}
      BY <1>3 DEF Main, RefuseTransition, StartPopulating, Populate, CreateModule, DestroyModule, Unpopulate,
           RunModule, StopModule, OtherTransition, Complete, StopInvalid, BecomeInvalid,
           FlushModule, FlushComplete, DisablePort, EnablePort, Treats, Fails
    <2>3. main.pc \in {"create", "unpopulateOut"} => state # "Executing"
      BY DEF Places4Task, ToIdle, ToLoaded
    <2>4. CASE \E pc \in {"populateIn", "populateOut", "create", "unpopulateIn", "unpopulateOut",
                        "invalid", "flushed"} : Goto(pc)
      <3>1. PICK pc \in {"populateIn", "populateOut", "create", "unpopulateIn", "unpopulateOut",
                        "invalid", "flushed"} : Goto(pc)
        BY <2>4
      <3>2. main'.pc = pc /\ main'.task = main.task
        BY <1>b, <3>1 DEF MainPlaces
      <3> QED BY <1>1, <1>2, <2>1, <3>1, <3>2
    <2>5. CASE Goto("complete") /\ \/ main.pc = "treat" /\ Legal(state, New)
                                   \/ main.pc \in {"create", "unpopulateOut"}
      <3>1. main'.pc = "complete" /\ main'.task = main.task
        BY <1>b, <2>5 DEF MainPlaces
      <3> QED BY <1>1, <1>2, <2>1, <2>3, <2>5, <3>1
    <2> QED BY <2>2, <2>4, <2>5
  <1> QED BY <1>1, <1>2, <1>3

\* A careful client gives its buffers in Executing only.
LEMMA QuietKept ==
  ASSUME Types, Types', OneCommand, Places4Task, QuietWhen, Careful, Next
  PROVE  QuietWhen'
  <1>0. "in" \in Ports /\ "out" \in Ports /\ Ports = {"in", "out"}
    BY DEF Ports
  <1>q. mainQ \in Seq(ClientOrders \cup {FromDecoder} \cup BufferTasks(Buffers))
    BY TypesSplit DEF MainQTypes
  <1>m. /\ main \in [pc : MainPlaces, task : ClientOrders \cup {FromDecoder, NoCommand}]
        /\ state \in States
    BY TypesSplit DEF MainTypes, SmallTypes
  <1>c. main.task.cmd = "SetState" /\ main.task # FromDecoder => client.pending = main.task
    BY <1>m, KindsOfTasks DEF OneCommand
  <1>1. CASE UNCHANGED vars
    BY <1>1 DEF vars, QuietWhen, NoBuffer, WorkerQuiet, Running, New
  <1>2. CASE Running /\ ClientActs
    <2>0. QuietLacks
      BY <1>2, QuietIs
    <2>1. state' = state /\ main' = main /\ worker' = worker
      BY <1>2, ClientFrame
    <2>2. Behind'
      BY <1>2, <2>0, BehindKept DEF QuietLacks
    <2>3. ASSUME NEW b \in Buffers, GiveStep(b) PROVE QuietLacks'
      <3>1. state = "Executing" /\ client.pending.cmd # "SetState"
        BY <2>3 DEF GiveStep
      <3> QED BY <1>c, <2>1, <2>2, <3>1 DEF QuietLacks
    <2>4. ASSUME MainLacks(Buffers) => MainLacks(Buffers)' PROVE QuietLacks'
      BY <2>0, <2>1, <2>2, <2>4 DEF QuietLacks, New
    <2>5. ASSUME NEW t \in ClientOrders, SendStep(t) PROVE QuietLacks'
      <3>1. mainQ' = Append(mainQ, t) /\ t \notin BufferTasks(Buffers)
        BY <2>5, KindsOfTasks DEF SendStep
      <3> QED BY <2>4, <3>1, MainStillLacks
    <2>6. CASE AllocStep
      <3>1. mainQ' = mainQ
        BY <2>6 DEF AllocStep
      <3>2. QuietLacks'
        BY <2>4, <3>1, MainStillLacks
      <3> QED BY <3>2, QuietIsNext
    <2> QED BY <1>2, <2>3, <2>5, <2>6, ClientMoves, QuietIsNext
  <1>3. CASE Running /\ Decoder
    <2>0. QuietLacks
      BY <1>3, QuietIs
    <2>1. state' = state /\ main' = main /\ worker' = worker
      BY <1>3, DecoderFrame
    <2>2. Behind'
      BY <1>3, <2>0, BehindKept DEF QuietLacks
    <2>3. mainQ' = mainQ \/ mainQ' = Append(mainQ, FromDecoder)
      BY <1>3 DEF Decoder, Consume, Display, EndOfStream, DecoderFails
    <2>4. FromDecoder \notin BufferTasks(Buffers)
      BY KindsOfTasks
    <2>5. MainLacks(Buffers) => MainLacks(Buffers)'
      BY <2>3, <2>4, MainStillLacks
    <2>6. QuietLacks'
      BY <2>0, <2>1, <2>2, <2>5 DEF QuietLacks, New
    <2> QED BY <2>6, QuietIsNext
  <1>4. CASE Running /\ WorkerActs
    <2>0. QuietLacks
      BY <1>4, QuietIs
    <2>1. state' = state /\ main' = main /\ mainQ' = mainQ
      BY <1>4, WorkerFrame
    <2>2. \A p \in Ports : Lacks(Buffers, worker[p]) => Lacks(Buffers, worker'[p])
      BY <1>4, WorkersLack
    <2>3. QuietLacks'
      BY <1>0, <2>0, <2>1, <2>2 DEF QuietLacks, MainLacks, Behind, New
    <2> QED BY <2>3, QuietIsNext
  <1>5. CASE Running /\ Main
    <2>0. QuietLacks /\ Behind
      BY <1>5, QuietIs DEF QuietLacks
    <2>1. Behind'
      BY <1>5, <2>0, BehindKept
    <2>2. CASE Forward
      <3>1. mainQ # <<>> /\ Head(mainQ) \in BufferTasks(Buffers)
        BY <2>2, MainHead, KindsOfTasks DEF Forward
      <3>2. ~MainLacks(Buffers)
        BY <1>q, <3>1, WithoutIs DEF MainLacks
      <3>3. state' = state /\ main' = main /\ main.task = NoCommand
        BY <2>2 DEF Forward, Places4Task
      <3>4. QuietLacks'
        BY <2>0, <2>1, <3>2, <3>3, KindsOfTasks DEF QuietLacks
      <3> QED BY <3>4, QuietIsNext
    <2>3. CASE ~Forward
      <3>0. /\ \A p \in Ports : Lacks(Buffers, worker[p]) => Lacks(Buffers, worker'[p])
            /\ JoinFill => Lacks(Buffers, worker'["out"])
            /\ JoinEmpty => Lacks(Buffers, worker'["in"])
            /\ MainLacks(Buffers) => MainLacks(Buffers)'
        BY <1>5, <2>3, MainLeaves
      <3>1. CASE StartCommand
        <4> DEFINE t == Head(mainQ)
        <4>1. /\ mainQ # <<>> /\ mainQ' = Tail(mainQ) /\ state' = state /\ main'.task = t
              /\ main'.pc = IF t.cmd = "Flush" \/ (t.cmd = "SetState" /\ IsFlushingRequired(state, t.arg))
                            THEN "joinFill" ELSE "treat"
              /\ t \in ClientOrders \cup {FromDecoder} /\ New' = t.arg
          BY <3>1, MainHead DEF StartCommand, New
        <4>2. ASSUME t.cmd = "SetState", t # FromDecoder PROVE MainLacks(Buffers)'
          <5>1. IsOrder(t) /\ mainQ[1] = t /\ 1 \in DOMAIN mainQ
            <6>1. IsOrder(t)
              BY <4>1, <4>2, OrderIs
            <6> QED BY <4>1, <6>1, MainQLess
          <5>2. /\ Len(mainQ) \in Nat /\ DOMAIN mainQ = 1 .. Len(mainQ) /\ DOMAIN mainQ' = 1 .. Len(mainQ) - 1
                /\ \A i \in 1 .. Len(mainQ) - 1 : mainQ'[i] = mainQ[i + 1]
            BY <4>1, MainQLess
          <5>3. ASSUME NEW i \in DOMAIN mainQ' PROVE mainQ'[i] \notin BufferTasks(Buffers)
            <6>1. i + 1 \in DOMAIN mainQ /\ 1 < i + 1 /\ mainQ'[i] = mainQ[i + 1]
              BY <5>2, <5>3
            <6>2. mainQ[i + 1].cmd # "Buffer"
              BY <2>0, <4>2, <5>1, <6>1 DEF Behind
            <6> QED BY <6>1, <6>2, KindsOfTasks
          <5> QED BY <5>3 DEF MainLacks, Without
        <4>3. ASSUME t.cmd = "SetState", t # FromDecoder, state = "Executing", Legal(state, t.arg)
              PROVE  IsFlushingRequired(state, t.arg)
          <5>1. t.arg \in States \ {"Invalid"}
            BY <4>1, <4>3, KindsOfTasks
          <5> QED BY <4>3, <5>1 DEF Legal, IsFlushingRequired, States
        <4> HIDE DEF t
        <4>4. QuietLacks'
          <5>1. state' \notin {"Executing", "Invalid"} =>
                   MainLacks(Buffers)' /\ \A p \in Ports : Lacks(Buffers, worker'[p])
            BY <2>0, <3>0, <4>1 DEF QuietLacks
          <5>2. state' = "Executing" /\ main'.task.cmd = "SetState" /\ main'.task # FromDecoder =>
                   MainLacks(Buffers)' /\ ~(main'.pc = "joinEmpty")
                   /\ ~(main'.pc \in {"treat", "complete"} /\ Legal(state', New'))
            BY <4>1, <4>2, <4>3
          <5> QED BY <2>1, <5>1, <5>2 DEF QuietLacks
        <4> QED BY <4>4, QuietIsNext
      <3>2. CASE JoinFill
        <4>1. state' = state /\ main'.task = main.task /\ main'.pc = "joinEmpty"
          BY <1>m, <3>2 DEF JoinFill, Goto
        <4>2. QuietLacks'
          BY <2>0, <2>1, <3>0, <3>2, <4>1 DEF QuietLacks
        <4> QED BY <4>2, QuietIsNext
      <3>3. CASE JoinEmpty
        <4>1. state' = state /\ main'.task = main.task /\ main'.pc = "treat" /\ main.pc = "joinEmpty"
          BY <1>m, <3>3 DEF JoinEmpty, Goto
        <4>2. QuietLacks'
          BY <1>0, <2>0, <2>1, <3>0, <3>3, <4>1 DEF QuietLacks
        <4> QED BY <4>2, QuietIsNext
      <3>4. CASE ~StartCommand /\ ~JoinFill /\ ~JoinEmpty
        <4>0. /\ \/ NextTask
                 \/ /\ main'.task = main.task /\ state' = state
                    /\ main'.pc \notin {"pop", "joinFill", "joinEmpty", "treat"}
                    /\ main'.pc = "complete" => \/ main.pc = "treat" /\ Legal(state, New)
                                                \/ state # "Executing"
          BY <1>5, <2>3, <3>4, MainPasses
        <4>1. CASE NextTask /\ state' = state
          <5>1. main'.task.cmd # "SetState"
            BY <4>1, KindsOfTasks DEF NextTask
          <5>2. QuietLacks'
            BY <2>0, <2>1, <3>0, <4>1, <5>1 DEF QuietLacks
          <5> QED BY <5>2, QuietIsNext
        <4>2. CASE Complete
          <5>1. /\ main.pc = "complete" /\ main.task.cmd = "SetState" /\ Legal(state, New)
                /\ New # "Invalid" /\ state' = New /\ NextTask
            BY <4>2 DEF Complete, Places4Task, Fails
          <5>2. main'.task.cmd # "SetState" /\ state # "Invalid" /\ main.task # FromDecoder
            BY <5>1, KindsOfTasks DEF NextTask, Legal, New
          <5>3. MainLacks(Buffers) /\ \A p \in Ports : Lacks(Buffers, worker[p])
            BY <2>0, <5>1, <5>2 DEF QuietLacks
          <5>4. QuietLacks'
            BY <2>1, <3>0, <5>2, <5>3 DEF QuietLacks
          <5> QED BY <5>4, QuietIsNext
        <4>3. CASE BecomeInvalid
          <5>1. main'.task.cmd # "SetState" /\ state' = "Invalid"
            BY <4>3, KindsOfTasks DEF BecomeInvalid, Fails, NextTask
          <5>2. QuietLacks'
            BY <2>1, <5>1 DEF QuietLacks
          <5> QED BY <5>2, QuietIsNext
        <4>4. CASE ~NextTask
          <5>1. New' = New
            BY <4>0, <4>4 DEF New
          <5>2. QuietLacks'
            BY <1>0, <2>0, <2>1, <3>0, <4>0, <4>4, <5>1 DEF QuietLacks
          <5> QED BY <5>2, QuietIsNext
        <4> QED BY <1>5, <4>1, <4>2, <4>3, <4>4, MainFrame
      <3> QED BY <3>1, <3>2, <3>3, <3>4
    <2> QED BY <2>2, <2>3
  <1> QED BY <1>1, <1>2, <1>3, <1>4, <1>5, NextCases

\* Faults are counted and never forgotten.
LEMMA FaultsCount ==
  ASSUME Types, Next
  PROVE  /\ faults \in Nat /\ faults' \in {faults, faults + 1}
         /\ faults' = 0 => faults = 0
         /\ (Running' => Running)
  <1>1. faults \in Nat
    BY TypesSplit, OmxAssumption DEF SmallTypes
  <1>2. ClientActs => faults' \in {faults, faults + 1}
    BY DEF ClientActs, Commands, SendState, SendFlush, SendDisable, SendEnable, Send, Data, GiveBuffer,
           Allocation, AllocateBuffer, FreeBuffer
  <1>3. Decoder \/ WorkerActs => faults' \in {faults, faults + 1}
    BY DEF Decoder, Consume, Display, EndOfStream, DecoderFails, WorkerActs, Worker, TakeTask, TreatBuffer,
           PassFence
  <1>4. Main => faults' \in {faults, faults + 1}
    BY DEF Main, Forward, StartCommand, JoinFill, JoinEmpty, RefuseTransition, StartPopulating,
         Populate, CreateModule, DestroyModule, Unpopulate, RunModule, StopModule,
         OtherTransition, Complete, StopInvalid, BecomeInvalid, FlushModule, FlushComplete,
         DisablePort, EnablePort
  <1>5. faults' \in {faults, faults + 1}
    BY <1>2, <1>3, <1>4, NextCases DEF vars
  <1>6. Running' => Running
    BY NextCases DEF vars, Running
  <1> QED BY <1>1, <1>5, <1>6

\* The decoder is destroyed where it has to be only, unless one fails.
LEMMA NoFaultKept ==
  ASSUME Types, OneCommand, Places4Task, NoFault, Next
  PROVE  NoFault'
  <1> SUFFICES ASSUME Running', faults' = 0
               PROVE  /\ state' # "Invalid" /\ main'.task # FromDecoder
                      /\ \A i \in DOMAIN mainQ' : mainQ'[i] # FromDecoder
                      /\ state' \in {"Executing", "Pause"} =>
                            mod'.decoder \/ (main'.pc = "complete" /\ New' = "Idle")
                      /\ state' = "Idle" /\ main'.pc = "complete" /\ New' \in {"Executing", "Pause"} => mod'.decoder
    BY DEF NoFault
  <1>0. faults = 0 /\ faults' = faults /\ Running
    BY FaultsCount
  <1>1. /\ state # "Invalid" /\ main.task # FromDecoder
        /\ \A i \in DOMAIN mainQ : mainQ[i] # FromDecoder
        /\ state \in {"Executing", "Pause"} => mod.decoder \/ (main.pc = "complete" /\ New = "Idle")
        /\ state = "Idle" /\ main.pc = "complete" /\ New \in {"Executing", "Pause"} => mod.decoder
    BY <1>0 DEF NoFault
  <1>m. /\ mod \in ModRecords /\ state \in States
        /\ main \in [pc : MainPlaces, task : ClientOrders \cup {FromDecoder, NoCommand}]
    BY TypesSplit DEF ModTypes, ModRecords, SmallTypes, MainTypes
  <1>q. \A i \in DOMAIN mainQ' : mainQ'[i] # FromDecoder
    <2>1. CASE mainQ' = mainQ
      BY <1>1, <2>1
    <2>2. ASSUME NEW t \in ClientOrders \cup BufferTasks(Buffers), mainQ' = Append(mainQ, t)
          PROVE  \A i \in DOMAIN mainQ' : mainQ'[i] # FromDecoder
      <3>1. t # FromDecoder
        <4>1. t \in BufferTasks(Buffers) => t.cmd = "Buffer"
          BY KindsOfTasks
        <4> QED BY <2>2, <4>1, KindsOfTasks
      <3>2. /\ DOMAIN mainQ = 1 .. Len(mainQ) /\ DOMAIN mainQ' = 1 .. Len(mainQ) + 1 /\ Len(mainQ) \in Nat
            /\ \A i \in 1 .. Len(mainQ) : mainQ'[i] = mainQ[i]
            /\ mainQ'[Len(mainQ) + 1] = t
        BY <2>2, MainQMore
      <3>3. \A i \in 1 .. Len(mainQ) + 1 : i \in 1 .. Len(mainQ) \/ i = Len(mainQ) + 1
        BY <3>2
      <3> QED BY <1>1, <3>1, <3>2, <3>3
    <2>3. CASE mainQ # <<>> /\ mainQ' = Tail(mainQ)
      <3>1. /\ Len(mainQ) \in Nat /\ DOMAIN mainQ = 1 .. Len(mainQ) /\ DOMAIN mainQ' = 1 .. Len(mainQ) - 1
            /\ \A i \in 1 .. Len(mainQ) - 1 : mainQ'[i] = mainQ[i + 1]
        BY <2>3, MainQLess
      <3>2. \A i \in 1 .. Len(mainQ) - 1 : i + 1 \in 1 .. Len(mainQ)
        BY <3>1
      <3> QED BY <1>1, <3>1, <3>2
    <2>4. CASE ClientActs
      <3>1. \A b \in Buffers : Command("Buffer", b) \in BufferTasks(Buffers)
        BY KindsOfTasks
      <3>2. CASE AllocStep
        BY <2>1, <3>2 DEF AllocStep
      <3>3. ASSUME NEW b \in Buffers, GiveStep(b) PROVE \A i \in DOMAIN mainQ' : mainQ'[i] # FromDecoder
        BY <2>2, <3>1, <3>3 DEF GiveStep
      <3>4. ASSUME NEW t \in ClientOrders, SendStep(t) PROVE \A i \in DOMAIN mainQ' : mainQ'[i] # FromDecoder
        BY <2>2, <3>4 DEF SendStep
      <3> QED BY <2>4, <3>2, <3>3, <3>4, ClientMoves
    <2>5. CASE Decoder
      <3>1. faults' = faults + 1 \/ mainQ' = mainQ
        BY <2>5 DEF Decoder, Consume, Display, EndOfStream, DecoderFails
      <3> QED BY <1>0, <2>1, <3>1
    <2>6. CASE WorkerActs
      BY <2>1, <2>6, WorkerFrame
    <2>7. CASE Main
      BY <2>1, <2>3, <2>7, MainFrame DEF Forward, StartCommand
    <2> QED BY <2>1, <2>4, <2>5, <2>6, <2>7, NextCases DEF vars
  <1>a. CASE (mod.decoder => mod'.decoder) /\ state' = state /\ main' = main
    BY <1>1, <1>a, <1>q DEF New
  <1>2. CASE ClientActs
    BY <1>2, <1>a, ClientFrame
  <1>3. CASE Decoder
    <2>1. mod.decoder => mod'.decoder
      BY <1>3, <1>m DEF Decoder, Consume, Display, EndOfStream, DecoderFails, ModRecords
    <2> QED BY <1>3, <1>a, <2>1, DecoderFrame
  <1>4. CASE WorkerActs
    <2>1. mod.decoder => mod'.decoder
      BY <1>4, <1>m DEF WorkerActs, Worker, TakeTask, TreatBuffer, PassFence, Empty, Fill, ModRecords
    <2> QED BY <1>4, <1>a, <2>1, WorkerFrame
  <1>5. CASE Main
    <2>1. \/ mod.decoder => mod'.decoder
          \/ StopModule \/ StopInvalid
      <3>1. CASE mod' = mod \/ mod' = [mod EXCEPT !.created = TRUE] \/ mod' = [mod EXCEPT !.created = FALSE]
                 \/ mod' = [mod EXCEPT !.out = @ \ {mod.eosOut}, !.eosOut = None]
        BY <3>1, <1>m DEF ModRecords
      <3>2. CASE mod' = Run(mod) \/ mod' = Run(Stop(mod))
        <4>1. Stop(mod) \in ModRecords /\ Run(Stop(mod)).decoder = TRUE /\ Run(mod).decoder = TRUE
          BY <1>m, StopIs
        <4> QED BY <3>2, <4>1
      <3>3. CASE FlushModule /\ mod' = [Run(Stop(mod)) EXCEPT !.decoder = FALSE] /\ mod.decoder
        <4>1. Run(Stop(mod)).decoder = TRUE /\ Run(Stop(mod)) \in ModRecords
          BY <1>m, StopIs
        <4>2. mod' # Run(Stop(mod))
          BY <3>3, <4>1 DEF ModRecords
        <4>3. faults' = faults + 1
          BY <3>3, <4>2 DEF FlushModule
        <4> QED BY <1>0, <4>3
      <3> QED BY <1>5, <3>1, <3>2, <3>3, MainModule DEF ModChange
    <2>2. CASE Forward
      BY <1>a, <2>1, <2>2 DEF Forward
    <2>3. CASE StartCommand
      <3>1. Head(mainQ) # FromDecoder
        <4>1. 1 \in DOMAIN mainQ /\ Head(mainQ) = mainQ[1]
          BY <2>3, MainQLess DEF StartCommand
        <4> QED BY <1>1, <4>1
      <3>2. main.pc = "pop" /\ main'.task = Head(mainQ) /\ main'.pc # "complete" /\ state' = state /\ mod' = mod
        BY <2>3 DEF StartCommand
      <3> QED BY <1>1, <1>q, <3>1, <3>2
    <2>4. CASE JoinFill \/ JoinEmpty
      <3>1. main'.task = main.task /\ main'.pc # "complete" /\ main.pc # "complete" /\ state' = state /\ mod' = mod
        BY <2>4, <1>m DEF JoinFill, JoinEmpty, Goto
      <3> QED BY <1>1, <1>q, <3>1
    <2>5. CASE ~Forward /\ ~StartCommand /\ ~JoinFill /\ ~JoinEmpty
      <3>0. /\ \/ NextTask
               \/ /\ main'.task = main.task /\ state' = state
                  /\ main'.pc \notin {"pop", "joinFill", "joinEmpty", "treat"}
                  /\ main'.pc = "complete" => \/ main.pc = "treat" /\ Legal(state, New)
                                              \/ state # "Executing"
        BY <1>5, <2>5, MainPasses
      <3>1. main'.task # FromDecoder
        <4>1. NoCommand # FromDecoder
          BY KindsOfTasks
        <4> QED BY <3>0, <4>1, <1>1 DEF NextTask
      <3>2. ~StopInvalid /\ ~BecomeInvalid
        <4>1. main.task \in ClientOrders \cup {NoCommand}
          BY <1>1, <1>m
        <4>2. main.task.cmd = "SetState" => New # "Invalid"
          BY <4>1, KindsOfTasks DEF New
        <4> QED BY <1>1, <4>2 DEF StopInvalid, BecomeInvalid, Treats, Places4Task
      <3>3. CASE Complete
        <4>1. /\ main.pc = "complete" /\ Legal(state, New) /\ New # "Invalid" /\ state' = New /\ mod' = mod
              /\ main'.pc = "pop"
          BY <3>3 DEF Complete, Places4Task, Fails, NextTask
        <4>2. New \in {"Executing", "Pause"} => mod.decoder
          BY <1>1, <1>m, <4>1 DEF Legal, States
        <4> QED BY <1>q, <3>1, <4>1, <4>2
      <3>4. CASE StopModule
        <4>1. state' = state /\ main'.pc = "complete" /\ New' = New /\ New = "Idle" /\ state \in {"Executing", "Pause"}
          BY <3>4, <1>m DEF StopModule, Goto, ToStop, New
        <4> QED BY <1>q, <3>1, <4>1
      <3>5. CASE NextTask /\ ~Complete
        <4>1. state' = state /\ main'.pc = "pop"
          BY <3>5, <3>2, <1>5, MainFrame DEF NextTask
        <4>2. main.pc # "complete"
          BY <1>5, <2>5, <3>5 DEF Main, RefuseTransition, Populate, CreateModule, StartPopulating,
             DestroyModule, Unpopulate, RunModule, StopModule, OtherTransition, StopInvalid,
             BecomeInvalid, FlushModule, FlushComplete, DisablePort, EnablePort, Treats
        <4>3. ~StopModule
          BY <3>5, <1>m DEF StopModule, NextTask, Goto
        <4> QED BY <1>1, <1>q, <2>1, <3>1, <3>2, <4>1, <4>2, <4>3
      <3>6. CASE ~NextTask /\ ~StopModule
        <4>1. state' = state /\ main'.task = main.task /\ New' = New /\ (mod.decoder => mod'.decoder)
          BY <2>1, <3>0, <3>2, <3>6 DEF New
        <4>2. main.pc # "complete"
          BY <1>5, <2>5, <3>6 DEF Main, RefuseTransition, Populate, CreateModule, StartPopulating,
             DestroyModule, Unpopulate, RunModule, StopModule, OtherTransition, StopInvalid, Complete,
             BecomeInvalid, FlushModule, FlushComplete, DisablePort, EnablePort, Treats, Fails
        <4>3. state = "Idle" /\ main'.pc = "complete" /\ New \in {"Executing", "Pause"} => mod'.decoder
          <5>1. CASE RunModule
            <6>1. ~Fails /\ mod' = Run(mod)
              BY <3>6, <5>1, <1>m DEF RunModule, Fails
            <6>2. Run(mod).decoder
              BY <1>m, StopIs
            <6> QED BY <6>1, <6>2
          <5>2. CASE ~RunModule
            <6>1. Populate("in", "populateIn", "populateOut") \/ Populate("out", "populateOut", "create")
                  \/ Unpopulate("in", "unpopulateIn", "unpopulateOut")
                  \/ StartPopulating \/ DestroyModule \/ FlushModule => main'.pc # "complete"
              BY <3>6, <1>m DEF Populate, Unpopulate, StartPopulating, DestroyModule, FlushModule, Goto, Fails
            <6>2. Unpopulate("out", "unpopulateOut", "complete") => New = "Loaded"
              BY DEF Unpopulate, Places4Task, ToLoaded
            <6>3. CreateModule => state # "Idle"
              BY DEF CreateModule, Places4Task, ToIdle
            <6>4. OtherTransition => ~(state = "Idle" /\ New \in {"Executing", "Pause"})
              BY DEF OtherTransition, ToRun
            <6> QED BY <1>5, <2>5, <3>2, <3>6, <5>2, <6>1, <6>2, <6>3, <6>4 DEF Main, Fails,
                  RefuseTransition, Complete, FlushComplete, DisablePort, EnablePort
          <5> QED BY <5>1, <5>2
        <4> QED BY <1>1, <1>q, <3>1, <4>1, <4>2, <4>3
      <3> QED BY <3>3, <3>4, <3>5, <3>6
    <2> QED BY <2>2, <2>3, <2>4, <2>5
  <1>6. CASE UNCHANGED vars
    BY <1>6, <1>a DEF vars
  <1> QED BY <1>2, <1>3, <1>4, <1>5, <1>6, NextCases

\* No assertion fails before a decoder does.
LEMMA AssertionsKept ==
  ASSUME Types, Types', Places4Task, DecoderWhen, FenceWhen, QuietWhen, NoFault, AssertionsHold, Next
  PROVE  AssertionsHold'
  <1> SUFFICES ASSUME crash' = "assert", faults' = 0 PROVE FALSE
    BY TypesSplit, TypesJoin, OmxAssumption, FaultsCount DEF AssertionsHold, SmallTypes
  <1>0. faults = 0
    BY FaultsCount
  <1>1. crash # "assert"
    BY <1>0 DEF AssertionsHold
  <1>2. Running /\ (ClientActs \/ Decoder \/ Main \/ WorkerActs)
    BY <1>1, NextCases DEF vars
  <1>3. CASE ClientActs
    BY <1>1, <1>3, ClientFrame
  <1>4. CASE Decoder
    BY <1>1, <1>4 DEF Decoder, Consume, Display, EndOfStream, DecoderFails
  <1>m. /\ state \in States /\ main \in [pc : MainPlaces, task : ClientOrders \cup {FromDecoder, NoCommand}]
    BY TypesSplit DEF SmallTypes, MainTypes
  <1>5. CASE WorkerActs
    <2>1. PICK p \in Ports : Worker(p)
      BY <1>5 DEF WorkerActs
    <2>2. TreatBuffer(p) /\ state # "Invalid" /\ ~mod.decoder
      BY <1>1, <2>1 DEF Worker, TakeTask, TreatBuffer, PassFence
    <2>3. ~WorkerQuiet(p)
      BY <2>2 DEF TreatBuffer, WorkerQuiet
    <2>4. state = "Executing"
      BY <1>2, <2>2, <2>3 DEF QuietWhen
    <2>5. main.pc = "complete" /\ New = "Idle" /\ main.task # FromDecoder
      BY <1>0, <1>2, <2>2, <2>4 DEF NoFault
    <2>6. main.task.cmd = "SetState" /\ Legal(state, New)
      BY <2>5 DEF Places4Task
    <2>7. WorkerQuiet(p)
      BY <1>2, <2>4, <2>5, <2>6 DEF QuietWhen
    <2> QED BY <2>3, <2>7
  <1>6. CASE Main
    <2>1. CASE DestroyModule
      <3>1. mod.decoder /\ state = "Idle" /\ main.pc = "treat"
        BY <1>1, <2>1 DEF DestroyModule, ToLoaded, Treats
      <3> QED BY <3>1 DEF DecoderWhen
    <2>2. CASE Complete
      <3>1. main.pc = "complete" /\ main.task.cmd = "SetState" /\ Legal(state, New)
        BY <2>2 DEF Complete, Places4Task
      <3>2. pause.on <=> state = "Pause"
        BY <1>2, <3>1 DEF FenceWhen, Legal
      <3> QED BY <1>1, <2>2, <3>1, <3>2 DEF Complete, Block, Legal
    <2>3. CASE FlushComplete
      <3>1. main.pc = "flushed" /\ main.task.cmd = "Flush" /\ state = "Pause" /\ pause.on
        BY <1>1, <2>3 DEF FlushComplete, Places4Task, Block
      <3> QED BY <1>2, <3>1 DEF FenceWhen
    <2> QED BY <1>1, <1>6, <2>1, <2>2, <2>3, MainFrame
  <1> QED BY <1>2, <1>3, <1>4, <1>5, <1>6

\* BeforeAhead for a set of buffers, the part of the client and that of the queues.
BehindIt(B) == \A i, j \in DOMAIN mainQ : i < j /\ IsOrder(mainQ[i]) => mainQ[j] \notin BufferTasks(B)
HasOrder == \E i \in DOMAIN mainQ : IsOrder(mainQ[i])
NoOrderTreated == main.task \in {NoCommand, FromDecoder}
ClientAhead(B) ==
  B \subseteq Allocated \ client.held /\ client.eos \notin B /\ GivesBack(client.pending)
QueueAhead(B) ==
  /\ NoOrderTreated \/ /\ MainLacks(B)
                       /\ main.pc \in {"joinFill", "joinEmpty", "treat"}
                       /\ main.pc = "joinEmpty" => Lacks(B, worker["out"])
                       /\ main.pc = "treat" => \A p \in Ports : Lacks(B, worker[p])
  /\ NoOrderTreated => HasOrder
  /\ BehindIt(B)

BeforeFacts ==
  \A B \in SUBSET Buffers : client.before = B =>
     (BeforeAhead <=> (Running /\ state # "Invalid" /\ B # {} => ClientAhead(B) /\ QueueAhead(B)))

\* The two parts are BeforeAhead.
LEMMA BeforeIs == Types => BeforeFacts
  <1> SUFFICES ASSUME Types, NEW B \in SUBSET Buffers, client.before = B
               PROVE  BeforeAhead <=> (Running /\ state # "Invalid" /\ B # {} => ClientAhead(B) /\ QueueAhead(B))
    BY DEF BeforeFacts
  <1>1. NoneIn(B, mainQ) <=> MainLacks(B)
    BY LacksAre DEF LackFacts
  <1>2. \A p \in Ports : WorkerWithout(B, p) <=> Lacks(B, worker[p])
    BY LacksAre DEF LackFacts
  <1>3. "out" \in Ports
    BY DEF Ports
  <1>4. (\A i, j \in DOMAIN mainQ : i < j /\ IsOrder(mainQ[i]) => \A b \in B : mainQ[j] # Command("Buffer", b))
          <=> BehindIt(B)
    BY DEF BehindIt, BufferTasks
  <1> QED BY <1>1, <1>2, <1>3, <1>4 DEF BeforeAhead, ClientAhead, QueueAhead, NoOrderTreated, HasOrder

\* The same after a step.
LEMMA BeforeIsNext == Types' => BeforeFacts'
  BY BeforeIs, PTL

\* Fewer buffers are no less ahead.
LEMMA FewerAhead ==
  ASSUME NEW A, NEW B \in SUBSET A, QueueAhead(A)
  PROVE  QueueAhead(B)
  <1>1. BufferTasks(B) \subseteq BufferTasks(A)
    BY DEF BufferTasks
  <1>2. \A w : Lacks(A, w) => Lacks(B, w)
    BY <1>1 DEF Lacks, Without
  <1>3. MainLacks(A) => MainLacks(B)
    BY <1>1 DEF MainLacks, Without
  <1>4. BehindIt(A) => BehindIt(B)
    BY <1>1 DEF BehindIt
  <1> QED BY <1>2, <1>3, <1>4 DEF QueueAhead

\* What is returned is no longer waited for.
LEMMA DoneAhead ==
  ASSUME Types, NEW A \in SUBSET Buffers, ClientAhead(A), NEW S, client' = Done(client, S),
         Allocated \subseteq Allocated', client.before = A, NEW B, client'.before = B
  PROVE  B \subseteq A /\ ClientAhead(B)'
  <1>1. /\ client'.before = A \ S /\ client'.held = client.held \cup S
        /\ client'.pending = client.pending /\ client'.eos \in {None, client.eos}
    BY DoneIs
  <1>2. None \notin A
    BY PortsAre
  <1> QED BY <1>1, <1>2 DEF ClientAhead

\* One more task behind it, or a step of a worker.
LEMMA QueueStillAhead ==
  ASSUME Types, NEW A \in SUBSET Buffers, QueueAhead(A), main' = main,
         \/ mainQ' = mainQ
         \/ \E t \in ClientOrders \cup {FromDecoder} \cup BufferTasks(Buffers) :
               t \notin BufferTasks(A) /\ mainQ' = Append(mainQ, t),
         \A p \in Ports : Lacks(A, worker[p]) => Lacks(A, worker'[p])
  PROVE  QueueAhead(A)'
  <1>1. MainLacks(A) => MainLacks(A)'
    BY MainStillLacks
  <1>2. (HasOrder => HasOrder') /\ BehindIt(A)'
    <2>1. CASE mainQ' = mainQ
      BY <2>1 DEF HasOrder, BehindIt, QueueAhead
    <2>2. ASSUME NEW t \in ClientOrders \cup {FromDecoder} \cup BufferTasks(Buffers),
                 t \notin BufferTasks(A), mainQ' = Append(mainQ, t)
          PROVE  (HasOrder => HasOrder') /\ BehindIt(A)'
      <3>1. /\ Len(mainQ) \in Nat /\ DOMAIN mainQ = 1 .. Len(mainQ) /\ DOMAIN mainQ' = 1 .. Len(mainQ) + 1
            /\ \A i \in 1 .. Len(mainQ) : mainQ'[i] = mainQ[i]
            /\ mainQ'[Len(mainQ) + 1] = t
        BY <2>2, MainQMore
      <3>2. HasOrder => HasOrder'
        <4>1. \A i \in 1 .. Len(mainQ) : i \in 1 .. Len(mainQ) + 1
          BY <3>1
        <4> QED BY <3>1, <4>1 DEF HasOrder
      <3>3. ASSUME NEW i \in DOMAIN mainQ', NEW j \in DOMAIN mainQ', i < j, IsOrder(mainQ'[i])
            PROVE  mainQ'[j] \notin BufferTasks(A)
        <4>1. i \in DOMAIN mainQ /\ mainQ'[i] = mainQ[i] /\ (j \in DOMAIN mainQ \/ j = Len(mainQ) + 1)
          BY <3>1, <3>3
        <4> QED BY <2>2, <3>1, <3>3, <4>1 DEF BehindIt, QueueAhead
      <3> QED BY <3>2, <3>3 DEF BehindIt
    <2> QED BY <2>1, <2>2
  <1>3. "out" \in Ports
    BY DEF Ports
  <1> QED BY <1>1, <1>2, <1>3 DEF QueueAhead, NoOrderTreated

\* The queue without its head.
LEMMA QueueTailAhead ==
  ASSUME Types, NEW A \in SUBSET Buffers, BehindIt(A), mainQ # <<>>, mainQ' = Tail(mainQ)
  PROVE  /\ BehindIt(A)'
         /\ ~IsOrder(Head(mainQ)) /\ HasOrder => HasOrder'
         /\ IsOrder(Head(mainQ)) => MainLacks(A)'
  <1>1. /\ Len(mainQ) \in Nat /\ DOMAIN mainQ = 1 .. Len(mainQ) /\ DOMAIN mainQ' = 1 .. Len(mainQ) - 1
        /\ \A i \in 1 .. Len(mainQ) - 1 : mainQ'[i] = mainQ[i + 1]
        /\ Head(mainQ) = mainQ[1] /\ 1 \in DOMAIN mainQ
    BY MainQLess
  <1>2. \A i \in DOMAIN mainQ' : i + 1 \in DOMAIN mainQ /\ 1 < i + 1 /\ mainQ'[i] = mainQ[i + 1]
    BY <1>1
  <1>3. BehindIt(A)'
    <2>1. ASSUME NEW i \in DOMAIN mainQ', NEW j \in DOMAIN mainQ', i < j, IsOrder(mainQ'[i])
          PROVE  mainQ'[j] \notin BufferTasks(A)
      <3>1. i + 1 < j + 1 /\ i + 1 \in DOMAIN mainQ /\ j + 1 \in DOMAIN mainQ
            /\ mainQ'[i] = mainQ[i + 1] /\ mainQ'[j] = mainQ[j + 1]
        BY <1>1, <1>2, <2>1
      <3> QED BY <2>1, <3>1 DEF BehindIt
    <2> QED BY <2>1 DEF BehindIt
  <1>4. ASSUME ~IsOrder(Head(mainQ)), HasOrder PROVE HasOrder'
    <2>1. PICK i \in DOMAIN mainQ : IsOrder(mainQ[i])
      BY <1>4 DEF HasOrder
    <2>2. i - 1 \in DOMAIN mainQ' /\ mainQ'[i - 1] = mainQ[i]
      <3>1. i # 1
        BY <1>1, <1>4, <2>1
      <3>2. i - 1 \in 1 .. Len(mainQ) - 1 /\ (i - 1) + 1 = i
        BY <1>1, <3>1
      <3> QED BY <1>1, <3>2
    <2> QED BY <2>1, <2>2 DEF HasOrder
  <1>5. ASSUME IsOrder(Head(mainQ)) PROVE MainLacks(A)'
    <2>1. \A i \in DOMAIN mainQ' : mainQ'[i] \notin BufferTasks(A)
      BY <1>1, <1>2, <1>5 DEF BehindIt
    <2> QED BY <2>1 DEF MainLacks, Without
  <1> QED BY <1>3, <1>4, <1>5

\* When a command is treated, what was given before it is in the module, which returns it.
LEMMA TreatedReturns ==
  ASSUME Types, OneCommand, Places4Task, OnePlaceEach, ModuleHolds, DecoderWhen, Running,
         state # "Invalid", NEW A \in SUBSET Buffers, A # {}, client.before = A,
         ClientAhead(A), QueueAhead(A),
         Main, ~Forward, ~StartCommand, ~JoinFill, ~JoinEmpty
  PROVE  client'.before = {} \/ StopInvalid \/ BecomeInvalid
  <1>m. /\ main \in [pc : MainPlaces, task : ClientOrders \cup {FromDecoder, NoCommand}]
        /\ state \in States /\ mod \in ModRecords
    BY TypesSplit DEF MainTypes, SmallTypes, ModTypes, ModRecords
  <1>p. main.pc \notin {"pop", "joinFill", "joinEmpty"} /\ main.task # NoCommand
    BY MainPasses
  <1>1. CASE main.task = FromDecoder
    <2>1. main.task.cmd = "SetState" /\ New = "Invalid" /\ Legal(state, New)
      BY <1>1, KindsOfTasks DEF New, Legal
    <2>2. main.pc \in {"treat", "invalid"}
      BY <1>m, <1>p, <2>1 DEF Places4Task, ToIdle, ToLoaded, MainPlaces
    <2> QED BY <2>1, <2>2 DEF Main, RefuseTransition, StartPopulating, Populate, CreateModule, DestroyModule,
           Unpopulate, RunModule, StopModule, OtherTransition, Complete,
           FlushModule, FlushComplete, DisablePort, EnablePort, Treats, ToIdle, ToLoaded, ToRun, ToStop
  <1>2. CASE main.task \in ClientOrders
    <2>1. ~NoOrderTreated
      BY <1>2, <1>p, KindsOfTasks DEF NoOrderTreated
    <2>2. main.pc = "treat" /\ MainLacks(A) /\ \A p \in Ports : Lacks(A, worker[p])
      BY <1>p, <2>1 DEF QueueAhead
    <2>3. A \subseteq Held(mod)
      <3>1. SUFFICES ASSUME NEW b \in A PROVE b \in Held(mod)
        OBVIOUS
      <3>2. b \in Buffers /\ Command("Buffer", b) \in BufferTasks(A) /\ PortOf(b) \in Ports
        BY KindsOfTasks, PortsAre
      <3>3. InMainQ(b) = 0
        <4>1. \A i \in DOMAIN mainQ : mainQ[i] # Command("Buffer", b)
          BY <2>2, <3>2 DEF MainLacks, Without
        <4> QED BY <4>1, TypesSplit, QueuedFinite DEF InMainQ, MainQTypes
      <3>4. InWorker(b) = 0 /\ InHands(b) = 0
        <4>1. Lacks(A, worker[PortOf(b)])
          BY <2>2, <3>2
        <4>2. \A i \in DOMAIN worker[PortOf(b)].queue : worker[PortOf(b)].queue[i] # Command("Buffer", b)
          BY <3>2, <4>1 DEF Lacks, Without
        <4>3. worker[PortOf(b)].queue \in Seq(Tasks)
          BY <3>2, TypesSplit, WorkerTypesAre DEF WorkerRecords
        <4>4. InWorker(b) = 0
          BY <4>2, <4>3, QueuedFinite DEF InWorker
        <4>5. InHands(b) = 0
          BY <3>2, <4>1 DEF InHands, OneIf, Lacks
        <4> QED BY <4>4, <4>5
      <3>5. WithClient(b) = 0 /\ b \in Allocated
        BY DEF WithClient, OneIf, ClientAhead
      <3>6. WithModule(b) = 1
        <4>1. WithClient(b) + WithModule(b) + InMainQ(b) + InWorker(b) + InHands(b) = 1
          BY <3>2, <3>5, OneAt DEF OneIf
        <4>2. WithModule(b) \in {0, 1}
          BY DEF WithModule, OneIf
        <4> QED BY <3>3, <3>4, <3>5, <4>1, <4>2
      <3> QED BY <3>6 DEF WithModule, OneIf
    <2>4. mod.decoder
      <3>1. ASSUME ~mod.decoder PROVE FALSE
        <4>1. Held(mod) \subseteq {client.eos}
          BY <3>1 DEF ModuleHolds, Held
        <4> QED BY <2>3, <4>1 DEF ClientAhead
      <3> QED BY <3>1
    <2>5. state \in {"Executing", "Pause"}
      BY <2>2, <2>4 DEF DecoderWhen
    <2>6. main.task.cmd = "Flush" \/ (main.task.cmd = "SetState" /\ New = "Idle")
      <3>1. client.pending = main.task
        BY <1>2 DEF OneCommand
      <3> QED BY <3>1, TaskIs DEF ClientAhead, GivesBack, New
    <2>7. FlushModule \/ StopModule
      <3>1. New = "Idle" => Legal(state, New) /\ ToStop
        BY <2>5 DEF Legal, ToStop
      <3> QED BY <2>2, <2>5, <2>6, <3>1 DEF Main, RefuseTransition, StartPopulating, Populate, CreateModule,
           DestroyModule, Unpopulate, RunModule, StopModule, OtherTransition, Complete, StopInvalid,
           BecomeInvalid, FlushComplete, DisablePort, EnablePort, Treats, ToIdle, ToLoaded, ToRun
    <2>8. client' = Done(client, Returned(mod'))
      BY <2>7 DEF FlushModule, StopModule
    <2>9. Held(mod') \subseteq {mod.eosIn}
      <3>1. Stop(mod) \in ModRecords /\ Stop(mod).in = mod.in \cap {mod.eosIn} /\ Stop(mod).out = {}
        BY <1>m, <2>4, StopIs
      <3>2. Run(Stop(mod)) \in ModRecords /\ Run(Stop(mod)).in = Stop(mod).in /\ Run(Stop(mod)).out = Stop(mod).out
        BY <1>m, StopIs
      <3>3. mod' = Stop(mod) \/ mod' = Run(Stop(mod)) \/ mod' = [Run(Stop(mod)) EXCEPT !.decoder = FALSE]
        BY <2>4, <2>7 DEF FlushModule, StopModule
      <3>4. mod'.in = Stop(mod).in /\ mod'.out = Stop(mod).out
        BY <3>1, <3>2, <3>3 DEF ModRecords
      <3> QED BY <3>1, <3>4 DEF Held
    <2>10. mod.eosIn \notin A
      <3>1. None \notin A
        BY PortsAre
      <3> QED BY <3>1 DEF ModuleHolds, ClientAhead
    <2>11. client'.before = A \ Returned(mod')
      BY <2>8, DoneIs
    <2> QED BY <2>3, <2>9, <2>10, <2>11 DEF Returned
  <1> QED BY <1>m, <1>p, <1>1, <1>2

\* Only the client asks for more buffers to be returned.
LEMMA BeforeShrinks ==
  ASSUME Types, Decoder \/ WorkerActs \/ Main
  PROVE  client'.before \subseteq client.before
  <1>1. client' = client \/ client' = Answered(client) \/ \E S : client' = Done(client, S)
    <2>1. CASE Decoder
      BY <2>1 DEF Decoder, Consume, Display, EndOfStream, DecoderFails
    <2>2. CASE WorkerActs
      BY <2>2 DEF WorkerActs, Worker, TakeTask, TreatBuffer, PassFence
    <2>3. CASE Main
      BY <2>3 DEF Main, Forward, StartCommand, JoinFill, JoinEmpty, RefuseTransition, StartPopulating,
         Populate, CreateModule, DestroyModule, Unpopulate, RunModule, StopModule,
         OtherTransition, Complete, StopInvalid, BecomeInvalid, FlushModule, FlushComplete,
         DisablePort, EnablePort, Fails
    <2> QED BY <2>1, <2>2, <2>3
  <1>2. ASSUME NEW S, client' = Done(client, S) PROVE client'.before \subseteq client.before
    BY <1>2, DoneIs
  <1> QED BY <1>1, <1>2, AnsweredIs

\* What a flush returns is ahead of it when the client sends it, and stays so.
LEMMA ClientBefore ==
  ASSUME Types, Types', OneCommand, Careful, NEW A \in SUBSET Buffers, client.before = A,
         A # {} => ClientAhead(A) /\ QueueAhead(A),
         NEW B \in SUBSET Buffers, client'.before = B, B # {}, ClientActs
  PROVE  ClientAhead(B)' /\ QueueAhead(B)'
  <1>f. main' = main /\ worker' = worker
    BY ClientFrame
  <1>n. None \notin Buffers
    BY PortsAre
  <1>1. ASSUME NEW b \in Buffers, GiveStep(b) PROVE ClientAhead(B)' /\ QueueAhead(B)'
    <2>1. A = B /\ ClientAhead(A) /\ QueueAhead(A)
      BY <1>1 DEF GiveStep
    <2>2. b \in client.held /\ b \notin A
      BY <1>1, <2>1 DEF GiveStep, ClientAhead
    <2>3. Allocated' = Allocated
      BY <1>1 DEF GiveStep, Allocated
    <2>4. ClientAhead(B)'
      BY <1>1, <2>1, <2>2, <2>3 DEF GiveStep, ClientAhead
    <2>5. Command("Buffer", b) \in BufferTasks(Buffers) /\ Command("Buffer", b) \notin BufferTasks(A)
      BY <2>2, TaskIs DEF BufferTasks
    <2>6. mainQ' = Append(mainQ, Command("Buffer", b))
      BY <1>1 DEF GiveStep
    <2>7. QueueAhead(A)'
      BY <1>f, <2>1, <2>5, <2>6, QueueStillAhead
    <2> QED BY <2>1, <2>4, <2>7
  <1>2. ASSUME NEW t \in ClientOrders, SendStep(t) PROVE ClientAhead(B)' /\ QueueAhead(B)'
    <2>1. client.pending = NoCommand /\ mainQ' = Append(mainQ, t)
      BY <1>2 DEF SendStep
    <2>2. ~GivesBack(NoCommand)
      BY TaskIs DEF GivesBack, NoCommand
    <2>3. A = {}
      BY <2>1, <2>2 DEF ClientAhead
    <2>4. GivesBack(t) /\ B = Allocated \ client.held /\ client.eos = None
      BY <1>2, <2>3 DEF SendStep
    <2>5. Allocated' = Allocated
      BY <1>2 DEF SendStep, Allocated, Ports
    <2>6. ClientAhead(B)'
      <3>1. client'.held = client.held /\ client'.eos = None /\ client'.pending = t
        BY <1>2, <2>4 DEF SendStep
      <3> QED BY <1>n, <2>4, <2>5, <3>1 DEF ClientAhead
    <2>7. NoOrderTreated
      <3>1. main.task \in ClientOrders \cup {FromDecoder, NoCommand}
        BY TypesSplit DEF MainTypes
      <3>2. main.task \in ClientOrders => main.task # NoCommand
        BY KindsOfTasks
      <3> QED BY <2>1, <3>1, <3>2 DEF OneCommand, NoOrderTreated
    <2>8. /\ Len(mainQ) \in Nat /\ DOMAIN mainQ = 1 .. Len(mainQ)
          /\ DOMAIN mainQ' = 1 .. Len(mainQ) + 1
          /\ \A i \in 1 .. Len(mainQ) : mainQ'[i] = mainQ[i]
          /\ mainQ'[Len(mainQ) + 1] = t
      BY <2>1, MainQMore
    <2>9. \A i \in 1 .. Len(mainQ) : ~IsOrder(mainQ'[i])
      <3>1. \A i \in DOMAIN mainQ : mainQ[i] # NoCommand
        BY MainQIs
      <3> QED BY <2>1, <2>8, <3>1 DEF OneCommand
    <2>10. BehindIt(B)'
      <3>1. ASSUME NEW i \in DOMAIN mainQ', NEW j \in DOMAIN mainQ', i < j, IsOrder(mainQ'[i])
            PROVE  FALSE
        <4>1. i \notin 1 .. Len(mainQ)
          BY <2>9, <3>1
        <4> QED BY <2>8, <3>1, <4>1
      <3> QED BY <3>1 DEF BehindIt
    <2>11. HasOrder'
      <3>1. IsOrder(t)
        BY OrderIs
      <3>2. Len(mainQ) + 1 \in DOMAIN mainQ'
        BY <2>8
      <3> QED BY <2>8, <3>1, <3>2 DEF HasOrder
    <2> QED BY <1>f, <2>6, <2>7, <2>10, <2>11 DEF QueueAhead, NoOrderTreated
  <1>3. CASE AllocStep
    <2>q. mainQ' = mainQ
      BY <1>3 DEF AllocStep
    <2>k. ASSUME B \subseteq A PROVE QueueAhead(B)'
      <3>1. QueueAhead(B)
        BY <2>k, FewerAhead
      <3> QED BY <1>f, <2>q, <3>1, QueueStillAhead
    <2>1. CASE client' = client /\ \A p \in Ports : port'[p].buffers = port[p].buffers
      <3>1. Allocated' = Allocated
        BY <2>1 DEF Allocated, Ports
      <3>2. A = B /\ ClientAhead(B)'
        BY <2>1, <3>1 DEF ClientAhead
      <3> QED BY <2>k, <3>2
    <2>2. ASSUME NEW b \in Buffers, client' = Done(client, {b}),
                 \A p \in Ports : port'[p].buffers = IF p = PortOf(b) THEN port[p].buffers \cup {b}
                                                                      ELSE port[p].buffers
          PROVE  ClientAhead(B)' /\ QueueAhead(B)'
      <3>1. Allocated \subseteq Allocated'
        BY <2>2 DEF Allocated, Ports
      <3>2. A # {}
        BY <2>2, DoneIs
      <3>3. B \subseteq A /\ ClientAhead(B)'
        BY <2>2, <3>1, <3>2, DoneAhead
      <3> QED BY <2>k, <3>3
    <2>3. ASSUME NEW b \in client.held, client' = [client EXCEPT !.held = @ \ {b}],
                 \A p \in Ports : port'[p].buffers = IF p = PortOf(b) THEN port[p].buffers \ {b}
                                                                      ELSE port[p].buffers
          PROVE  ClientAhead(B)' /\ QueueAhead(B)'
      <3>1. Allocated \ {b} \subseteq Allocated'
        BY <2>3 DEF Allocated, Ports
      <3>2. /\ client'.before = client.before /\ client'.held = client.held \ {b}
            /\ client'.eos = client.eos /\ client'.pending = client.pending
        BY <2>3, TypesSplit DEF ClientTypes
      <3>3. A = B /\ b \notin A
        BY <3>2 DEF ClientAhead
      <3>4. ClientAhead(B)'
        BY <3>1, <3>2, <3>3 DEF ClientAhead
      <3> QED BY <2>k, <3>3, <3>4
    <2> QED BY <1>3, <2>1, <2>2, <2>3 DEF AllocStep
  <1> QED BY <1>1, <1>2, <1>3, ClientMoves

\* The decoder and the workers only give buffers back.
LEMMA OthersBefore ==
  ASSUME Types, Types', NEW A \in SUBSET Buffers, client.before = A,
         ClientAhead(A), QueueAhead(A),
         NEW B \in SUBSET Buffers, client'.before = B, Running', Decoder \/ WorkerActs
  PROVE  ClientAhead(B)' /\ QueueAhead(B)'
  <1>1. port' = port /\ main' = main
    BY DecoderFrame, WorkerFrame
  <1>2. Allocated' = Allocated
    BY <1>1 DEF Allocated
  <1>3. B \subseteq A /\ ClientAhead(B)'
    <2>1. client' = client \/ \E S : client' = Done(client, S)
      BY DEF Running, Decoder, Consume, Display, EndOfStream, DecoderFails,
             WorkerActs, Worker, TakeTask, TreatBuffer, PassFence
    <2>2. CASE client' = client
      BY <1>2, <2>2 DEF ClientAhead
    <2>3. ASSUME NEW S, client' = Done(client, S) PROVE B \subseteq A /\ ClientAhead(B)'
      BY <1>2, <2>3, DoneAhead
    <2> QED BY <2>1, <2>2, <2>3
  <1>4. QueueAhead(B)
    BY <1>3, FewerAhead
  <1>5. CASE Decoder
    <2>1. mainQ' = mainQ \/ mainQ' = Append(mainQ, FromDecoder)
      BY <1>5 DEF Decoder, Consume, Display, EndOfStream, DecoderFails
    <2>2. FromDecoder \notin BufferTasks(B)
      BY KindsOfTasks
    <2>3. worker' = worker
      BY <1>5, DecoderFrame
    <2>4. QueueAhead(B)'
      BY <1>1, <1>4, <2>1, <2>2, <2>3, QueueStillAhead
    <2> QED BY <1>3, <2>4
  <1>6. CASE WorkerActs
    <2>1. mainQ' = mainQ
      BY <1>6, WorkerFrame
    <2>2. \A p \in Ports : Lacks(B, worker[p]) => Lacks(B, worker'[p])
      BY <1>6, WorkersLack
    <2>3. QueueAhead(B)'
      BY <1>1, <1>4, <2>1, <2>2, QueueStillAhead
    <2> QED BY <1>3, <2>3
  <1> QED BY <1>5, <1>6

\* processorMain forwards what is ahead, then ends the processors one after the other.
LEMMA MainBefore ==
  ASSUME Types, Types', OneCommand, Places4Task, OnePlaceEach, ModuleHolds, DecoderWhen, QuietWhen,
         Running, state # "Invalid", state' # "Invalid",
         NEW A \in SUBSET Buffers, A # {}, client.before = A, ClientAhead(A), QueueAhead(A),
         NEW B \in SUBSET Buffers, B # {}, client'.before = B, Main
  PROVE  ClientAhead(B)' /\ QueueAhead(B)'
  <1>m. main \in [pc : MainPlaces, task : ClientOrders \cup {FromDecoder, NoCommand}]
    BY TypesSplit DEF MainTypes
  <1>a. Allocated' = Allocated
    BY MainAllocated
  <1>s. ASSUME client' = client PROVE A = B /\ ClientAhead(B)'
    BY <1>a, <1>s DEF ClientAhead
  <1>p. "in" \in Ports /\ "out" \in Ports /\ Ports = {"in", "out"}
    BY DEF Ports
  <1>1. CASE Forward
    <2>1. /\ mainQ # <<>> /\ mainQ' = Tail(mainQ) /\ main' = main /\ client' = client
          /\ main.task = NoCommand /\ Head(mainQ).cmd = "Buffer"
      BY <1>1 DEF Forward, Places4Task
    <2>2. HasOrder /\ BehindIt(A) /\ ~IsOrder(Head(mainQ))
      BY <2>1 DEF QueueAhead, NoOrderTreated, IsOrder
    <2>3. HasOrder' /\ BehindIt(A)'
      BY <2>1, <2>2, QueueTailAhead
    <2>4. QueueAhead(A)'
      BY <2>1, <2>3 DEF QueueAhead, NoOrderTreated
    <2> QED BY <1>s, <2>1, <2>4
  <1>2. CASE StartCommand
    <2> DEFINE t == Head(mainQ)
               flushes == t.cmd = "Flush" \/ (t.cmd = "SetState" /\ IsFlushingRequired(state, t.arg))
    <2>1. /\ mainQ # <<>> /\ mainQ' = Tail(mainQ) /\ client' = client /\ main.task = NoCommand
          /\ main'.task = t /\ main'.pc = (IF flushes THEN "joinFill" ELSE "treat")
          /\ ~flushes => worker' = worker
      BY <1>2 DEF StartCommand, Places4Task
    <2>2. t \in ClientOrders \cup {FromDecoder}
      BY <1>2, MainHead DEF StartCommand
    <2>3. HasOrder /\ BehindIt(A)
      BY <2>1 DEF QueueAhead, NoOrderTreated
    <2>4. BehindIt(A)' /\ (~IsOrder(t) => HasOrder') /\ (IsOrder(t) => MainLacks(A)')
      BY <2>1, <2>3, QueueTailAhead
    <2>5. IsOrder(t) <=> t \in ClientOrders
      BY <2>2, OrderIs
    <2>6. CASE t = FromDecoder
      <3>1. NoOrderTreated'
        BY <2>1, <2>6 DEF NoOrderTreated
      <3>2. HasOrder'
        BY <2>4, <2>5, <2>6, KindsOfTasks
      <3>3. QueueAhead(A)'
        BY <2>4, <3>1, <3>2 DEF QueueAhead
      <3> QED BY <1>s, <2>1, <3>3
    <2>7. CASE t \in ClientOrders
      <3>1. t = client.pending
        <4>1. mainQ[1] = t /\ 1 \in DOMAIN mainQ
          BY <2>1, MainQLess
        <4> QED BY <2>5, <2>7, <4>1 DEF OneCommand
      <3>2. GivesBack(t)
        BY <3>1 DEF ClientAhead
      <3>3. ~NoOrderTreated'
        BY <2>1, <2>7, OrderIs, KindsOfTasks DEF NoOrderTreated
      <3>4. MainLacks(A)'
        BY <2>4, <2>5, <2>7
      <3>5. ASSUME ~flushes PROVE \A p \in Ports : Lacks(A, worker'[p])
        <4>1. t.cmd = "SetState" /\ t.arg = "Idle"
          BY <3>2, <3>5, TaskIs DEF GivesBack
        <4>2. state # "Executing"
          BY <3>5, <4>1 DEF IsFlushingRequired
        <4>3. \A p \in Ports : WorkerQuiet(p)
          BY <4>2 DEF QuietWhen
        <4>4. \A p \in Ports : Lacks(Buffers, worker[p])
          BY <4>3, LacksAre DEF LackFacts
        <4>5. BufferTasks(A) \subseteq BufferTasks(Buffers)
          BY DEF BufferTasks
        <4> QED BY <2>1, <3>5, <4>4, <4>5 DEF Lacks, Without
      <3>6. main'.pc \in {"joinFill", "treat"} /\ (main'.pc = "treat" => ~flushes)
        BY <2>1
      <3> HIDE DEF flushes
      <3>7. QueueAhead(A)'
        BY <2>4, <3>3, <3>4, <3>5, <3>6 DEF QueueAhead
      <3> QED BY <1>s, <2>1, <3>7
    <2> QED BY <2>2, <2>6, <2>7
  <1>3. CASE JoinFill \/ JoinEmpty
    <2>1. client' = client /\ mainQ' = mainQ /\ main'.task = main.task
      BY <1>3, <1>m DEF JoinFill, JoinEmpty, Goto
    <2>2. /\ \A p \in Ports : Lacks(A, worker[p]) => Lacks(A, worker'[p])
          /\ JoinFill => Lacks(A, worker'["out"])
          /\ JoinEmpty => Lacks(A, worker'["in"])
      <3>1. ~Forward
        BY <1>3 DEF Forward, JoinFill, JoinEmpty
      <3> QED BY <3>1, MainLeaves
    <2>3. \/ JoinFill /\ main.pc = "joinFill" /\ main'.pc = "joinEmpty"
          \/ JoinEmpty /\ main.pc = "joinEmpty" /\ main'.pc = "treat"
      BY <1>3, <1>m DEF JoinFill, JoinEmpty, Goto, MainPlaces
    <2>4. BehindIt(A)' /\ (MainLacks(A) => MainLacks(A)') /\ (HasOrder => HasOrder')
          /\ (NoOrderTreated' <=> NoOrderTreated)
      BY <2>1 DEF QueueAhead, BehindIt, MainLacks, HasOrder, NoOrderTreated
    <2>5. ASSUME ~NoOrderTreated
          PROVE  /\ MainLacks(A)' /\ main'.pc \in {"joinEmpty", "treat"}
                 /\ main'.pc = "joinEmpty" => Lacks(A, worker'["out"])
                 /\ main'.pc = "treat" => \A p \in Ports : Lacks(A, worker'[p])
      BY <1>p, <2>2, <2>3, <2>4, <2>5 DEF QueueAhead
    <2>6. QueueAhead(A)'
      BY <2>4, <2>5 DEF QueueAhead
    <2> QED BY <1>s, <2>1, <2>6
  <1>4. CASE ~Forward /\ ~StartCommand /\ ~JoinFill /\ ~JoinEmpty
    <2>1. StopInvalid \/ BecomeInvalid
      BY <1>4, TreatedReturns
    <2>2. StopInvalid
      BY <2>1 DEF BecomeInvalid
    <2>3. /\ client' = Done(client, Returned(mod')) /\ mainQ' = mainQ
          /\ main'.task = main.task /\ main.task.cmd = "SetState" /\ New = "Invalid"
      BY <1>m, <2>2 DEF StopInvalid, Treats, Goto
    <2>4. NoOrderTreated /\ NoOrderTreated'
      BY <1>m, <2>3, KindsOfTasks DEF NoOrderTreated, New
    <2>5. B \subseteq A /\ ClientAhead(B)'
      BY <1>a, <2>3, DoneAhead
    <2>6. QueueAhead(B)
      BY <2>5, FewerAhead
    <2>7. HasOrder' /\ BehindIt(B)'
      BY <2>3, <2>4, <2>6 DEF QueueAhead, HasOrder, BehindIt
    <2> QED BY <2>4, <2>5, <2>7 DEF QueueAhead
  <1> QED BY <1>1, <1>2, <1>3, <1>4

\* What a flush has to return is ahead of it until it is returned.
LEMMA BeforeKept ==
  ASSUME Types, Types', OneCommand, Places4Task, OnePlaceEach, ModuleHolds, DecoderWhen, QuietWhen,
         BeforeAhead, Careful, Next
  PROVE  BeforeAhead'
  <1>1. CASE UNCHANGED vars
    BY <1>1 DEF vars, BeforeAhead, Running, Allocated, WorkerWithout, NoneIn
  <1>2. CASE Running /\ (ClientActs \/ Decoder \/ Main \/ WorkerActs)
    <2>1. client.before \in SUBSET Buffers /\ client'.before \in SUBSET Buffers
      BY TypesSplit, TypesJoin DEF ClientTypes
    <2>2. PICK A \in SUBSET Buffers : client.before = A
      BY <2>1
    <2>3. PICK B \in SUBSET Buffers : client'.before = B
      BY <2>1
    <2>4. ASSUME Running', state' # "Invalid", B # {} PROVE ClientAhead(B)' /\ QueueAhead(B)'
      <3>1. state # "Invalid"
        <4>1. Main /\ Complete => state # "Invalid"
          BY DEF Complete, Places4Task, Legal
        <4>2. Main => state' = state \/ Complete \/ BecomeInvalid
          BY MainFrame
        <4>3. BecomeInvalid => state' = "Invalid"
          BY DEF BecomeInvalid
        <4> QED BY <1>2, <2>4, <4>1, <4>2, <4>3, ClientFrame, DecoderFrame, WorkerFrame
      <3>2. A # {} => ClientAhead(A) /\ QueueAhead(A)
        BY <1>2, <2>2, <3>1, BeforeIs DEF BeforeFacts
      <3>3. CASE ClientActs
        BY <2>2, <2>3, <2>4, <3>2, <3>3, ClientBefore
      <3>4. CASE ~ClientActs
        <4>1. A # {}
          BY <1>2, <2>2, <2>3, <2>4, <3>4, BeforeShrinks
        <4>2. CASE Main
          BY <1>2, <2>2, <2>3, <2>4, <3>1, <3>2, <4>1, <4>2, MainBefore
        <4>3. CASE Decoder \/ WorkerActs
          BY <2>2, <2>3, <2>4, <3>2, <4>1, <4>3, OthersBefore
        <4> QED BY <1>2, <3>4, <4>2, <4>3
      <3> QED BY <3>3, <3>4
    <2>5. BeforeFacts'
      BY BeforeIsNext
    <2> QED BY <2>3, <2>4, <2>5 DEF BeforeFacts
  <1> QED BY <1>1, <1>2, NextCases

\* A flush that is answered has returned what it had to, even in the step that ends the process.
LEMMA FlushKept ==
  ASSUME Types, Types', OneCommand, Places4Task, OnePlaceEach, ModuleHolds, DecoderWhen,
         BeforeAhead, BeforeAhead', FlushReturnsBuffers, Next
  PROVE  FlushReturnsBuffers'
  <1>n. ~GivesBack(NoCommand)
    BY TaskIs DEF GivesBack, NoCommand
  <1>1. CASE UNCHANGED vars
    BY <1>1 DEF vars, FlushReturnsBuffers
  <1>2. CASE Running'
    BY <1>n, <1>2 DEF BeforeAhead, FlushReturnsBuffers
  <1>3. CASE Running /\ ~Running' /\ (ClientActs \/ Decoder \/ Main \/ WorkerActs)
    <2>1. crash' # crash
      BY <1>3 DEF Running
    <2>2. CASE Decoder \/ WorkerActs
      <3>1. client' = client /\ state' = state
        BY <2>1, <2>2 DEF Decoder, Consume, Display, EndOfStream, DecoderFails,
           WorkerActs, Worker, TakeTask, TreatBuffer, PassFence
      <3> QED BY <3>1 DEF FlushReturnsBuffers
    <2>3. CASE Main /\ DestroyModule
      <3>1. client' = client /\ state' = state
        BY <2>3 DEF DestroyModule
      <3> QED BY <3>1 DEF FlushReturnsBuffers
    <2>4. CASE Main /\ (Complete \/ FlushComplete)
      <3>1. client'.before \subseteq client.before
        BY <2>4, BeforeShrinks
      <3>2. CASE client.before = {}
        BY <3>1, <3>2 DEF FlushReturnsBuffers
      <3>3. CASE client.before # {}
        <4>1. PICK A \in SUBSET Buffers : client.before = A
          BY TypesSplit DEF ClientTypes
        <4>2. main.pc \in {"complete", "flushed"}
          BY <2>4 DEF Complete, FlushComplete
        <4>3. ~Forward /\ ~StartCommand /\ ~JoinFill /\ ~JoinEmpty /\ ~StopInvalid /\ ~BecomeInvalid
          BY <4>2 DEF Forward, StartCommand, JoinFill, JoinEmpty, StopInvalid, BecomeInvalid, Treats
        <4>4. CASE state # "Invalid"
          <5>1. ClientAhead(A) /\ QueueAhead(A)
            BY <1>3, <3>3, <4>1, <4>4, BeforeIs DEF BeforeFacts
          <5>2. client'.before = {}
            BY <1>3, <2>4, <3>3, <4>1, <4>3, <4>4, <5>1, TreatedReturns
          <5> QED BY <5>2 DEF FlushReturnsBuffers
        <4>5. CASE state = "Invalid"
          <5>1. FlushComplete
            BY <2>4, <4>5 DEF Complete, Places4Task, Legal
          <5>2. state' = state
            BY <5>1 DEF FlushComplete
          <5> QED BY <4>5, <5>2 DEF FlushReturnsBuffers
        <4> QED BY <4>4, <4>5
      <3> QED BY <3>2, <3>3
    <2> QED BY <1>3, <2>1, <2>2, <2>3, <2>4, ClientFrame, MainFrame
  <1> QED BY <1>1, <1>2, <1>3, NextCases

\* At first the client waits for nothing and nothing was given.
LEMMA CarefulInit == Init => CarefulInv
  <1> SUFFICES ASSUME Init PROVE CarefulInv
    OBVIOUS
  <1>1. /\ state = "Loaded" /\ mainQ = <<>> /\ main = [pc |-> "pop", task |-> NoCommand]
        /\ worker = [p \in Ports |-> NewProcessor] /\ crash = "no" /\ client.before = {}
    BY DEF Init
  <1>2. NoBuffer(mainQ) /\ \A i \in DOMAIN mainQ : FALSE
    BY <1>1 DEF NoBuffer
  <1>3. \A p \in Ports : WorkerQuiet(p)
    BY <1>1, KindsOfTasks DEF WorkerQuiet, NewProcessor, NoBuffer
  <1>4. main.task = NoCommand /\ main.pc = "pop"
    BY <1>1
  <1>5. QuietWhen
    BY <1>1, <1>2, <1>3 DEF QuietWhen
  <1>6. BeforeAhead /\ FlushReturnsBuffers
    BY <1>1 DEF BeforeAhead, FlushReturnsBuffers
  <1>7. NoFault
    BY <1>1, <1>2, <1>4, KindsOfTasks DEF NoFault
  <1>8. AssertionsHold
    BY <1>1 DEF AssertionsHold
  <1> QED BY <1>5, <1>6, <1>7, <1>8 DEF CarefulInv

\* The invariants of a careful client are kept by every step.
LEMMA CarefulStep == Careful /\ OmxInv /\ CarefulInv /\ [Next]_vars => CarefulInv'
  <1>1. ASSUME Careful, OmxInv, CarefulInv, Next PROVE CarefulInv'
    <2>0. /\ Types /\ OneCommand /\ Places4Task /\ OnePlaceEach /\ ModuleHolds
          /\ DecoderWhen /\ FenceWhen
      BY <1>1 DEF OmxInv, Types
    <2>1. QuietWhen /\ BeforeAhead /\ NoFault /\ FlushReturnsBuffers /\ AssertionsHold
      BY <1>1 DEF CarefulInv
    <2>2. Types'
      BY <1>1, <2>0, TypesKept
    <2>3. QuietWhen' /\ NoFault' /\ AssertionsHold'
      BY <1>1, <2>0, <2>1, <2>2, QuietKept, NoFaultKept, AssertionsKept
    <2>4. BeforeAhead'
      BY <1>1, <2>0, <2>1, <2>2, BeforeKept
    <2>5. FlushReturnsBuffers'
      BY <1>1, <2>0, <2>1, <2>2, <2>4, FlushKept
    <2> QED BY <2>3, <2>4, <2>5 DEF CarefulInv
  <1>2. ASSUME CarefulInv, UNCHANGED vars PROVE CarefulInv'
    <2>1. QuietWhen'
      BY <1>2 DEF CarefulInv, vars, QuietWhen, NoBuffer, WorkerQuiet, Running, New
    <2>2. BeforeAhead'
      BY <1>2 DEF CarefulInv, vars, BeforeAhead, Running, Allocated, WorkerWithout, NoneIn
    <2>3. NoFault'
      BY <1>2 DEF CarefulInv, vars, NoFault, Running, New
    <2>4. FlushReturnsBuffers' /\ AssertionsHold'
      BY <1>2 DEF CarefulInv, vars, FlushReturnsBuffers, AssertionsHold
    <2> QED BY <2>1, <2>2, <2>3, <2>4 DEF CarefulInv
  <1> QED BY <1>1, <1>2

\* The invariant of the component, for a client that gives no buffer in Pause and sends no
\* flush nor change of state while the buffer that ends its stream is out.
THEOREM CarefulInvariant == Careful => (Spec => [](OmxInv /\ CarefulInv))
  <1> SUFFICES ASSUME Careful PROVE Spec => [](OmxInv /\ CarefulInv)
    OBVIOUS
  <1>1. Init => OmxInv /\ CarefulInv
    BY OmxInit, CarefulInit
  <1>2. OmxInv /\ CarefulInv /\ [Next]_vars => (OmxInv /\ CarefulInv)'
    BY OmxStep, CarefulStep
  <1> QED BY <1>1, <1>2, PTL DEF Spec

\* When a Flush or a transition to Idle is complete a careful client holds every buffer it
\* had given before.
THEOREM FlushTheorem == Careful => (Spec => []FlushReturnsBuffers)
  <1>1. CarefulInv => FlushReturnsBuffers
    BY DEF CarefulInv
  <1> QED BY <1>1, CarefulInvariant, PTL

\* With a careful client no assertion of the component fails unless a decoder failed or was
\* refused.
THEOREM AssertionsTheorem == Careful => (Spec => []AssertionsHold)
  <1>1. CarefulInv => AssertionsHold
    BY DEF CarefulInv
  <1> QED BY <1>1, CarefulInvariant, PTL
=============================================================================
