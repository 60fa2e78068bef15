---------------------------- MODULE OmxComponent ----------------------------
(***************************************************************************)
(* The OMX decoder component (vcu-omx-il-xilinx-v2018-3/base): its state   *)
(* machine, its two ports, the thread that treats commands (processorMain),*)
(* the threads that hand buffers to the module (processorEmpty for the     *)
(* port "in", processorFill for the port "out"), the module over the       *)
(* decoder library, and a client.                                          *)
(*                                                                         *)
(* The decoder library is what the module takes it to be: it consumes      *)
(* inputs, displays outputs, signals the end of the stream after a flush,  *)
(* may report an error, and gives everything back when it is destroyed.    *)
(***************************************************************************)
EXTENDS Integers, Sequences, FiniteSets

CONSTANTS
    InBuffers, OutBuffers,  \* buffer headers of each port
    None,
    Careful,        \* the client gives no buffer in Pause, and stops or flushes
                    \* nothing while the buffer that ends its stream is out
    MaxCommands,    \* bound: commands of the client
    MaxFaults       \* bound: failed allocations, refused and failing decoders

ASSUME OmxAssumption ==
    /\ InBuffers \cap OutBuffers = {} /\ None \notin InBuffers \cup OutBuffers
    /\ InBuffers # {} /\ OutBuffers # {}
    /\ Careful \in BOOLEAN /\ MaxCommands \in Nat /\ MaxFaults \in Nat

Ports == {"in", "out"}
Buffers == InBuffers \cup OutBuffers
OfPort(p) == IF p = "in" THEN InBuffers ELSE OutBuffers

\* The port whose index a header carries
PortOf(b) == IF b \in InBuffers THEN "in" ELSE "out"

NoTransition == <<"none", "none">>   \* TransientMax
States == {"Loaded", "WaitForResources", "Idle", "Executing", "Pause", "Invalid"}

VARIABLES
    state, transientState,
    port,           \* Port: enable, playable, error, isTransientToEnable / ToDisable, buffers
    pause,          \* pausePromise: whether there is one, and its number
    mainQ,          \* tasks of processorMain
    main,           \* place of processorMain and its task
    worker,         \* ProcessorFifo of each port
    mod,            \* DecModule: isCreated, decoder, handlesIn, handlesOut, eosHandles
    client,         \* what the client holds and waits for
    crash,          \* "no", or what ended the process
    faults

vars == <<state, transientState, port, pause, mainQ, main, worker, mod, client, crash, faults>>

Command(cmd, arg) == [cmd |-> cmd, arg |-> arg, fence |-> 0]
FenceTask(n) == [cmd |-> "fence", arg |-> None, fence |-> n]
NoCommand == Command("none", None)
FromDecoder == Command("SetState", "Invalid")
Quit == Command("quit", None)

NewProcessor == [queue |-> <<>>, delete |-> FALSE, busy |-> NoCommand, ended |-> FALSE]

Init ==
    /\ state = "Loaded" /\ transientState = NoTransition
    /\ port = [p \in Ports |-> [enable |-> TRUE, playable |-> FALSE, error |-> FALSE,
                                toEnable |-> FALSE, toDisable |-> FALSE, buffers |-> {}]]
    /\ pause = [on |-> FALSE, n |-> 0]
    /\ mainQ = <<>> /\ main = [pc |-> "pop", task |-> NoCommand]
    /\ worker = [p \in Ports |-> NewProcessor]
    /\ mod = [created |-> FALSE, decoder |-> FALSE, in |-> {}, out |-> {},
              eosIn |-> None, eosOut |-> None]
    /\ client = [held |-> {}, pending |-> NoCommand, eos |-> None, before |-> {}, sent |-> 0]
    /\ crash = "no" /\ faults = 0
-----------------------------------------------------------------------------
(* Client calls *)

\* EmptyBufferDone and FillBufferDone of the buffers S
Done(c, S) ==
    [c EXCEPT !.held = @ \cup S, !.before = @ \ S, !.eos = IF @ \in S THEN None ELSE @]

GetTransientState(cur, next) ==
    IF <<cur, next>> \in {<<"Loaded", "Idle">>, <<"Idle", "Pause">>, <<"Idle", "Loaded">>,
                          <<"Idle", "Executing">>, <<"Pause", "Executing">>, <<"Pause", "Idle">>,
                          <<"Executing", "Idle">>, <<"Executing", "Pause">>}
    THEN <<cur, next>> ELSE NoTransition

\* SendCommand, whose answer the client waits for before the next
Send(cmd, arg) ==
    /\ client.pending = NoCommand /\ client.sent < MaxCommands
    /\ state # "Invalid"
    /\ mainQ' = Append(mainQ, Command(cmd, arg))
    /\ client' = [client EXCEPT !.pending = Command(cmd, arg), !.sent = @ + 1,
                     !.before = IF cmd = "Flush" \/ (cmd = "SetState" /\ arg = "Idle")
                                THEN (UNION {port[p].buffers : p \in Ports}) \ client.held ELSE @]
    /\ UNCHANGED <<state, pause, main, worker, mod, crash, faults>>

Patient == Careful => client.eos = None

SendState(s) ==
    /\ Patient
    /\ Send("SetState", s)
    /\ transientState' = GetTransientState(state, s)
    /\ UNCHANGED port

SendFlush(p) == Patient /\ Send("Flush", p) /\ UNCHANGED <<port, transientState>>

\* A port is disabled by a client that holds its buffers
SendDisable(p) ==
    /\ port[p].enable /\ port[p].buffers \subseteq client.held
    /\ Send("DisablePort", p)
    /\ port' = [port EXCEPT ![p].enable = FALSE, ![p].toDisable = TRUE]
    /\ UNCHANGED transientState

SendEnable(p) ==
    /\ ~port[p].enable
    /\ Send("EnablePort", p)
    /\ port' = [port EXCEPT ![p].enable = TRUE, ![p].toEnable = TRUE]
    /\ UNCHANGED transientState

\* The client fills a port while a command asks it to
Populates(p) ==
    \/ client.pending = Command("SetState", "Idle") /\ state \in {"Loaded", "WaitForResources"}
       /\ port[p].enable
    \/ client.pending = Command("EnablePort", p) /\ state \notin {"Loaded", "WaitForResources"}

\* AllocateBuffer: refused in another state, or out of memory, it leaves the port in error
AllocateBuffer(b) ==
    LET p == PortOf(b)
        isAllowed == transientState = <<"Loaded", "Idle">> \/ port[p].toEnable
    IN  /\ Populates(p) /\ b \notin port[p].buffers
        /\ \/ /\ isAllowed
              /\ LET added == port[p].buffers \cup {b}
                 IN  port' = [port EXCEPT ![p].buffers = added,
                                          ![p].playable = @ \/ added = OfPort(p)]
              /\ client' = Done(client, {b})
              /\ UNCHANGED faults
           \/ /\ ~isAllowed /\ ~port[p].error
              /\ port' = [port EXCEPT ![p].error = TRUE]
              /\ UNCHANGED <<client, faults>>
           \/ /\ isAllowed /\ faults < MaxFaults
              /\ port' = [port EXCEPT ![p].error = TRUE]
              /\ faults' = faults + 1
              /\ UNCHANGED client
        /\ UNCHANGED <<state, transientState, pause, mainQ, main, worker, mod, crash>>

\* Mutated: the port stays playable
RemoveNothing(q, b) == [q EXCEPT !.buffers = @ \ {b}]

\* Port::Remove
Remove(q, b) ==
    [q EXCEPT !.buffers = @ \ {b}, !.playable = @ /\ q.buffers # {b}]

\* The client frees what it holds while a command asks it to, or to start again
Frees(p) ==
    \/ client.pending \in {Command("SetState", "Loaded"), Command("DisablePort", p)}
    \/ client.pending = NoCommand /\ state \in {"Loaded", "Invalid"}

FreeBuffer(b) ==
    LET p == PortOf(b)
    IN  /\ b \in client.held /\ Frees(p)
        /\ port' = [port EXCEPT ![p] = Remove(@, b)]
        /\ client' = [client EXCEPT !.held = @ \ {b}]
        /\ UNCHANGED <<state, transientState, pause, mainQ, main, worker, mod, crash, faults>>

\* When a client gives buffers
GivesData(p) ==
    /\ port[p].enable /\ client.pending.cmd # "SetState"
    /\ state = "Executing" \/ (state = "Pause" /\ ~Careful)

\* EmptyThisBuffer and FillThisBuffer; a buffer without data ends the stream
GiveBuffer(b, eos) ==
    /\ b \in client.held
    /\ GivesData(PortOf(b))
    /\ state \notin {"Loaded", "WaitForResources", "Invalid"}
    /\ b \in InBuffers => client.eos = None
    /\ eos => b \in InBuffers
    /\ mainQ' = Append(mainQ, Command("Buffer", b))
    /\ client' = [client EXCEPT !.held = @ \ {b}, !.eos = IF eos THEN b ELSE @]
    /\ UNCHANGED <<state, transientState, port, pause, main, worker, mod, crash, faults>>
-----------------------------------------------------------------------------
(* DecModule *)

\* Mutated: the output kept for the end of the stream is not released
StopKeepingOutput(m) ==
    [m EXCEPT !.decoder = FALSE, !.in = @ \cap {m.eosIn}, !.out = @ \cap {m.eosOut}]

\* Stop: the decoder is destroyed and what it holds released, then FlushEosHandles
Stop(m) ==
    IF m.decoder
    THEN [m EXCEPT !.decoder = FALSE, !.in = @ \cap {m.eosIn}, !.out = {}, !.eosOut = None]
    ELSE m

\* Run: a decoder is created, the buffers of the end of the stream forgotten
Run(m) == [m EXCEPT !.decoder = TRUE, !.eosIn = None, !.eosOut = None]

\* Fill: the first output is kept for the end of the stream
Fill(m, b) ==
    [m EXCEPT !.out = @ \cup {b}, !.eosOut = IF @ = None THEN b ELSE @]

\* Empty: a buffer without data flushes the decoder
Empty(m, b, eos) ==
    [m EXCEPT !.in = @ \cup {b}, !.eosIn = IF eos THEN b ELSE @]

Held(m) == m.in \cup m.out

\* What a change of the module gave back
Returned(m) == Held(mod) \ Held(m)

Consume(b) ==
    /\ mod.decoder /\ b \in mod.in \ {mod.eosIn}
    /\ mod' = [mod EXCEPT !.in = @ \ {b}]
    /\ client' = Done(client, {b})
    /\ UNCHANGED <<state, transientState, port, pause, mainQ, main, worker, crash, faults>>

\* Display of a picture
Display(b) ==
    /\ mod.decoder /\ b \in mod.out \ {mod.eosOut}
    /\ mod' = [mod EXCEPT !.out = @ \ {b}]
    /\ client' = Done(client, {b})
    /\ UNCHANGED <<state, transientState, port, pause, mainQ, main, worker, crash, faults>>

\* Display of the end of the stream; a null pointer is used if no output was given yet
EndOfStream ==
    /\ mod.decoder /\ mod.eosIn # None /\ mod.in = {mod.eosIn}
    /\ IF mod.eosOut = None
       THEN crash' = "null" /\ UNCHANGED <<mod, client>>
       ELSE /\ mod' = [mod EXCEPT !.in = {}, !.out = @ \ {mod.eosOut},
                                  !.eosIn = None, !.eosOut = None]
            /\ client' = Done(client, {mod.eosIn, mod.eosOut})
            /\ UNCHANGED crash
    /\ UNCHANGED <<state, transientState, port, pause, mainQ, main, worker, faults>>

\* EndDecoding without a picture, EventCallBack: the component becomes Invalid
DecoderFails ==
    /\ mod.decoder /\ faults < MaxFaults
    /\ faults' = faults + 1
    /\ mainQ' = Append(mainQ, FromDecoder)
    /\ UNCHANGED <<state, transientState, port, pause, main, worker, mod, client, crash>>
-----------------------------------------------------------------------------
(* processorEmpty and processorFill *)

\* A task is taken; a deleted processor gives its buffers back
TakeTask(p) ==
    LET w == worker[p]
        t == Head(w.queue)
    IN  /\ ~w.ended /\ w.busy = NoCommand /\ w.queue # <<>>
        /\ worker' = [worker EXCEPT ![p] =
                         IF t = Quit THEN [w EXCEPT !.ended = TRUE]
                         ELSE [w EXCEPT !.queue = Tail(@),
                                        !.busy = IF w.delete THEN NoCommand ELSE t]]
        /\ client' = IF t.cmd = "Buffer" /\ w.delete THEN Done(client, {t.arg}) ELSE client
        /\ UNCHANGED <<state, transientState, port, pause, mainQ, main, mod, crash, faults>>

\* TreatEmptyBufferCommand, TreatFillBufferCommand
TreatBuffer(p) ==
    LET b == worker[p].busy.arg
    IN  /\ worker[p].busy.cmd = "Buffer"
        /\ worker' = [worker EXCEPT ![p].busy = NoCommand]
        /\ \/ /\ state = "Invalid"
              /\ client' = Done(client, {b})
              /\ UNCHANGED <<mod, crash>>
           \/ /\ state # "Invalid" /\ mod.decoder
              /\ mod' = IF p = "in" THEN Empty(mod, b, b = client.eos) ELSE Fill(mod, b)
              /\ UNCHANGED <<client, crash>>
           \/ /\ state # "Invalid" /\ ~mod.decoder
              /\ crash' = "assert"
              /\ UNCHANGED <<mod, client>>
        /\ UNCHANGED <<state, transientState, port, pause, mainQ, main, faults>>

\* TreatSharedFenceCommand: waits until the promise of its fence is kept
PassFence(p) ==
    /\ worker[p].busy.cmd = "fence"
    /\ ~pause.on \/ worker[p].busy.fence # pause.n
    /\ worker' = [worker EXCEPT ![p].busy = NoCommand]
    /\ UNCHANGED <<state, transientState, port, pause, mainQ, main, mod, client, crash, faults>>

Worker(p) == TakeTask(p) \/ TreatBuffer(p) \/ PassFence(p)
-----------------------------------------------------------------------------
(* processorMain *)

Goto(pc) == main' = [main EXCEPT !.pc = pc]
NextTask == main' = [pc |-> "pop", task |-> NoCommand]

\* CmdComplete or Error: the client that waits for this command goes on
Answered(c) == IF main.task # FromDecoder THEN [c EXCEPT !.pending = NoCommand] ELSE c

\* Mutated: a transition to Idle does not flush
IsFlushingRequiredForPause(cur, next) == <<cur, next>> = <<"Executing", "Pause">>

IsFlushingRequired(cur, next) ==
    <<cur, next>> \in {<<"Executing", "Pause">>, <<"Executing", "Idle">>}

\* Mutated: what is queued is dropped
DeletedWithQueue(w) == [w EXCEPT !.delete = TRUE, !.queue = <<Quit>>]

\* The destructor of a ProcessorFifo, before it joins the thread
Deleted(w) == [w EXCEPT !.delete = TRUE, !.queue = Append(@, Quit)]

\* Mutated: the fence of the pause stays closed
UnblockNever(ps) == ps

\* UnblockFillEmptyBuffers
Unblock(ps) == [ps EXCEPT !.on = FALSE]

\* BlockFillEmptyBuffers: a fence in both queues
Fence(w) == [w EXCEPT !.queue = Append(@, FenceTask(pause.n + 1))]
Block ==
    /\ crash' = IF pause.on THEN "assert" ELSE crash
    /\ pause' = [on |-> TRUE, n |-> pause.n + 1]
    /\ worker' = [p \in Ports |-> Fence(worker[p])]

\* A buffer goes to the processor of its port
Forward ==
    LET t == Head(mainQ)
    IN  /\ main.pc = "pop" /\ mainQ # <<>> /\ t.cmd = "Buffer"
        /\ mainQ' = Tail(mainQ)
        /\ worker' = [worker EXCEPT ![PortOf(t.arg)].queue = Append(@, t)]
        /\ UNCHANGED <<state, transientState, port, pause, main, mod, client, crash, faults>>

\* _ProcessMain: a command that first flushes the processors, or not
StartCommand ==
    LET t == Head(mainQ)
        flushes == t.cmd = "Flush" \/ (t.cmd = "SetState" /\ IsFlushingRequired(state, t.arg))
    IN  /\ main.pc = "pop" /\ mainQ # <<>> /\ t.cmd # "Buffer"
        /\ mainQ' = Tail(mainQ)
        /\ main' = [pc |-> IF flushes THEN "joinFill" ELSE "treat", task |-> t]
        /\ pause' = IF t.cmd = "Flush" /\ state = "Pause" THEN Unblock(pause) ELSE pause
        /\ worker' = IF flushes THEN [worker EXCEPT !["out"] = Deleted(@)] ELSE worker
        /\ UNCHANGED <<state, transientState, port, mod, client, crash, faults>>

\* FlushFillEmptyBuffers: the processor is joined and renewed, then the other one
JoinFill ==
    /\ main.pc = "joinFill" /\ worker["out"].ended
    /\ worker' = [worker EXCEPT !["out"] = NewProcessor, !["in"] = Deleted(@)]
    /\ Goto("joinEmpty")
    /\ UNCHANGED <<state, transientState, port, pause, mainQ, mod, client, crash, faults>>

JoinEmpty ==
    /\ main.pc = "joinEmpty" /\ worker["in"].ended
    /\ worker' = [worker EXCEPT !["in"] = NewProcessor]
    /\ Goto("treat")
    /\ UNCHANGED <<state, transientState, port, pause, mainQ, mod, client, crash, faults>>

Treats(cmd) == main.pc = "treat" /\ main.task.cmd = cmd
New == main.task.arg

\* OMXChecker::CheckStateTransition, but for a transition to Invalid
Legal(cur, next) ==
    /\ cur # next /\ cur # "Invalid"
    /\ cur \in {"Loaded", "WaitForResources"} => next \notin {"Executing", "Pause"}
    /\ cur \in {"Executing", "Pause"} => next \notin {"WaitForResources", "Loaded"}
    /\ cur = "Idle" => next # "WaitForResources"

ToIdle == state \in {"Loaded", "WaitForResources"} /\ New = "Idle"
ToLoaded == state = "Idle" /\ New = "Loaded"
ToRun == state = "Idle" /\ New \in {"Executing", "Pause"}
ToStop == state \in {"Executing", "Pause"} /\ New = "Idle"

\* The command ends with an error, the state is what it was
Fails ==
    /\ client' = Answered(client)
    /\ NextTask

RefuseTransition ==
    /\ Treats("SetState") /\ ~Legal(state, New) /\ Fails
    /\ UNCHANGED <<state, transientState, port, pause, mainQ, worker, mod, crash, faults>>

StartPopulating ==
    /\ Treats("SetState") /\ Legal(state, New) /\ ToIdle /\ Goto("populateIn")
    /\ UNCHANGED <<state, transientState, port, pause, mainQ, worker, mod, client, crash, faults>>

\* PopulatingPorts, one port
Populate(p, from, to) ==
    /\ main.pc = from
    /\ port[p].enable => port[p].playable \/ port[p].error
    /\ IF port[p].error
       THEN port' = [port EXCEPT ![p].error = FALSE] /\ Fails
       ELSE Goto(to) /\ UNCHANGED <<port, client>>
    /\ UNCHANGED <<state, transientState, pause, mainQ, worker, mod, crash, faults>>

\* DecModule::Create
CreateModule ==
    /\ main.pc = "create" /\ Goto("complete")
    /\ mod' = [mod EXCEPT !.created = TRUE]
    /\ UNCHANGED <<state, transientState, port, pause, mainQ, worker, client, crash, faults>>

\* DecModule::Destroy, then UnpopulatingPorts
DestroyModule ==
    /\ Treats("SetState") /\ Legal(state, New) /\ ToLoaded /\ Goto("unpopulateIn")
    /\ crash' = IF mod.decoder THEN "assert" ELSE crash
    /\ mod' = [mod EXCEPT !.created = FALSE]
    /\ UNCHANGED <<state, transientState, port, pause, mainQ, worker, client, faults>>

\* UnpopulatingPorts, one port
Unpopulate(p, from, to) ==
    /\ main.pc = from
    /\ ~port[p].playable \/ port[p].error
    /\ IF port[p].error
       THEN port' = [port EXCEPT ![p].error = FALSE] /\ Fails /\ UNCHANGED transientState
       ELSE /\ Goto(to) /\ UNCHANGED <<port, client>>
            /\ transientState' = IF p = "out" THEN NoTransition ELSE transientState
    /\ UNCHANGED <<state, pause, mainQ, worker, mod, crash, faults>>

\* DecModule::Run, whose decoder may not be created
RunModule ==
    /\ Treats("SetState") /\ Legal(state, New) /\ ToRun
    /\ \/ /\ mod.created /\ ~mod.decoder
          /\ mod' = Run(mod) /\ Goto("complete")
          /\ UNCHANGED <<client, faults>>
       \/ /\ ~mod.created \/ mod.decoder
          /\ Fails /\ UNCHANGED <<mod, faults>>
       \/ /\ faults < MaxFaults /\ faults' = faults + 1
          /\ Fails /\ UNCHANGED mod
    /\ UNCHANGED <<state, transientState, port, pause, mainQ, worker, crash>>

StopModule ==
    /\ Treats("SetState") /\ Legal(state, New) /\ ToStop
    /\ mod' = Stop(mod) /\ client' = Done(client, Returned(mod')) /\ Goto("complete")
    /\ UNCHANGED <<state, transientState, port, pause, mainQ, worker, crash, faults>>

OtherTransition ==
    /\ Treats("SetState") /\ Legal(state, New) /\ New # "Invalid"
    /\ ~ToIdle /\ ~ToLoaded /\ ~ToRun /\ ~ToStop
    /\ Goto("complete")
    /\ UNCHANGED <<state, transientState, port, pause, mainQ, worker, mod, client, crash, faults>>

\* The end of TreatSetStateCommand: fences, the new state and CmdComplete
Complete ==
    /\ main.pc = "complete"
    /\ \/ New = "Pause" /\ Block
       \/ /\ New # "Pause" /\ state = "Pause"
          /\ crash' = IF pause.on THEN crash ELSE "assert"
          /\ pause' = Unblock(pause) /\ UNCHANGED worker
       \/ New # "Pause" /\ state # "Pause" /\ UNCHANGED <<crash, pause, worker>>
    /\ state' = New
    /\ Fails
    /\ UNCHANGED <<transientState, port, mainQ, mod, faults>>

\* A transition to Invalid: the module is stopped and destroyed, then the state changes
StopInvalid ==
    /\ Treats("SetState") /\ Legal(state, New) /\ New = "Invalid"
    /\ mod' = [Stop(mod) EXCEPT !.created = FALSE]
    /\ client' = Done(client, Returned(mod'))
    /\ Goto("invalid")
    /\ UNCHANGED <<state, transientState, port, pause, mainQ, worker, crash, faults>>

BecomeInvalid ==
    /\ main.pc = "invalid"
    /\ state' = "Invalid"
    /\ Fails
    /\ UNCHANGED <<transientState, port, pause, mainQ, worker, mod, crash, faults>>

\* TreatFlushCommand: a decoder is stopped and run again, what it answers is ignored
FlushModule ==
    /\ Treats("Flush")
    /\ LET stopped == Stop(mod)
       IN  \/ ~mod.decoder /\ mod' = [mod EXCEPT !.out = @ \ {mod.eosOut}, !.eosOut = None]
                           /\ UNCHANGED faults
           \/ mod.decoder /\ mod' = Run(stopped) /\ UNCHANGED faults
           \/ /\ mod.decoder /\ faults < MaxFaults /\ faults' = faults + 1
              /\ mod' = [Run(stopped) EXCEPT !.decoder = FALSE]
    /\ client' = Done(client, Returned(mod'))
    /\ Goto("flushed")
    /\ UNCHANGED <<state, transientState, port, pause, mainQ, worker, crash>>

FlushComplete ==
    /\ main.pc = "flushed"
    /\ IF state = "Pause" THEN Block ELSE UNCHANGED <<crash, pause, worker>>
    /\ Fails
    /\ UNCHANGED <<state, transientState, port, mainQ, mod, faults>>

\* TreatDisablePortCommand: a port in error is not answered for
DisablePort ==
    LET p == New
    IN  /\ Treats("DisablePort")
        /\ port[p].toDisable => ~port[p].playable \/ port[p].error
        /\ IF port[p].toDisable /\ port[p].error
           THEN NextTask /\ UNCHANGED <<port, client>>
           ELSE port' = [port EXCEPT ![p].toDisable = FALSE] /\ Fails
        /\ UNCHANGED <<state, transientState, pause, mainQ, worker, mod, crash, faults>>

\* TreatEnablePortCommand
EnablePort ==
    LET p == New
    IN  /\ Treats("EnablePort")
        /\ (port[p].toEnable /\ state \notin {"Loaded", "WaitForResources"}) =>
              port[p].playable \/ port[p].error
        /\ IF port[p].toEnable /\ port[p].error
           THEN NextTask /\ UNCHANGED <<port, client>>
           ELSE port' = [port EXCEPT ![p].toEnable = FALSE] /\ Fails
        /\ UNCHANGED <<state, transientState, pause, mainQ, worker, mod, crash, faults>>

Main ==
    \/ Forward \/ StartCommand \/ JoinFill \/ JoinEmpty
    \/ RefuseTransition \/ StartPopulating
    \/ Populate("in", "populateIn", "populateOut") \/ Populate("out", "populateOut", "create")
    \/ CreateModule \/ DestroyModule
    \/ Unpopulate("in", "unpopulateIn", "unpopulateOut")
    \/ Unpopulate("out", "unpopulateOut", "complete")
    \/ RunModule \/ StopModule \/ OtherTransition \/ Complete \/ StopInvalid \/ BecomeInvalid
    \/ FlushModule \/ FlushComplete \/ DisablePort \/ EnablePort
-----------------------------------------------------------------------------
Commands ==
    \/ \E s \in States \ {"Invalid"} : SendState(s)
    \/ \E p \in Ports : SendFlush(p) \/ SendDisable(p) \/ SendEnable(p)

Data == \E b \in Buffers, eos \in BOOLEAN : GiveBuffer(b, eos)

Allocation == \E b \in Buffers : AllocateBuffer(b) \/ FreeBuffer(b)

Decoder == (\E b \in Buffers : Consume(b) \/ Display(b)) \/ EndOfStream \/ DecoderFails

Running == crash = "no"

\* Nobody opens the fence of a pause once the component is Invalid
FenceAbandoned == state = "Invalid" /\ pause.on

\* The process has ended, or the client is done and nothing is under way
Ended ==
    /\ \/ crash # "no"
       \/ client.sent = MaxCommands /\ client.pending = NoCommand
       \/ state = "Invalid" /\ client.pending = NoCommand
       \/ FenceAbandoned
       \/ \E p \in Ports : port[p].error
    /\ UNCHANGED vars

Next ==
    \/ Running /\ Commands
    \/ Running /\ Data
    \/ Running /\ Allocation
    \/ Running /\ Decoder
    \/ Running /\ Main
    \/ \E p \in Ports : Running /\ Worker(p)
    \/ Ended

Spec == Init /\ [][Next]_vars

\* The threads of the component run; the client allocates and frees when asked
Fairness ==
    /\ WF_vars(Running /\ Main)
    /\ \A p \in Ports : WF_vars(Running /\ Worker(p))
    /\ WF_vars(Running /\ Allocation)

FairSpec == Spec /\ Fairness
-----------------------------------------------------------------------------
(* Properties *)

Tasks ==
    {NoCommand, Quit} \cup {Command("Buffer", b) : b \in Buffers}
    \cup {FenceTask(n) : n \in 1 .. 2 * MaxCommands}
Orders ==
    {NoCommand} \cup {Command("SetState", s) : s \in States}
    \cup {Command(c, p) : c \in {"Flush", "DisablePort", "EnablePort"}, p \in Ports}

\* The types of the state of the component (omx_component.h, Port, ProcessorFifo, DecModule).
TypeOK ==
    /\ state \in States /\ transientState \in {NoTransition} \cup (States \X States)
    /\ \A p \in Ports :
          /\ port[p] \in [enable : BOOLEAN, playable : BOOLEAN, error : BOOLEAN,
                          toEnable : BOOLEAN, toDisable : BOOLEAN, buffers : SUBSET OfPort(p)]
          /\ worker[p] \in [queue : Seq(Tasks), delete : BOOLEAN, busy : Tasks, ended : BOOLEAN]
    /\ pause \in [on : BOOLEAN, n : 0 .. 2 * MaxCommands]
    /\ mainQ \in Seq(Orders \cup Tasks)
    /\ main.task \in Orders
    /\ mod \in [created : BOOLEAN, decoder : BOOLEAN, in : SUBSET InBuffers,
                out : SUBSET OutBuffers, eosIn : InBuffers \cup {None},
                eosOut : OutBuffers \cup {None}]
    /\ client \in [held : SUBSET Buffers, pending : Orders, eos : InBuffers \cup {None},
                   before : SUBSET Buffers, sent : 0 .. MaxCommands]
    /\ crash \in {"no", "assert", "null"} /\ faults \in 0 .. MaxFaults

Allocated == port["in"].buffers \cup port["out"].buffers

QueuedIn(q, b) == {i \in DOMAIN q : q[i] = Command("Buffer", b)}

\* The number of places an allocated buffer is in: with the client, in one of the three
\* queues, in the hands of a worker, in the module
Places(b) ==
    (IF b \in client.held THEN 1 ELSE 0) + (IF b \in Held(mod) THEN 1 ELSE 0)
    + Cardinality(QueuedIn(mainQ, b))
    + Cardinality(QueuedIn(worker[PortOf(b)].queue, b))
    + (IF worker[PortOf(b)].busy = Command("Buffer", b) THEN 1 ELSE 0)

\* Every buffer of a port is in exactly one place: none is lost between the queues, the
\* workers and the decoder, handed to the decoder twice or returned twice, whatever is
\* flushed, paused, stopped or fails (EmptyBufferDone, FillBufferDone, _DeleteFillEmpty,
\* ReleaseBufs); every variable keeps its type.
EachBufferOnce == TypeOK /\ (Running => \A b \in Allocated : Places(b) = 1)

\* When a Flush or a transition to Idle is complete the client holds every buffer it had
\* given before (FlushFillEmptyBuffers, DecModule::Stop, OMX_Core.h OMX_SendCommand).
FlushReturnsBuffers ==
    client.pending = NoCommand /\ state # "Invalid" => client.before = {}

\* A buffer reaches the module only while there is a decoder, a fence is opened and closed
\* in turn, and a decoder is not destroyed twice: unless a decoder failed or was refused
\* no assertion of the component fails (assert(success), assert(pausePromise)).
AssertionsHold == crash = "assert" => faults > 0

\* The same when the client gives buffers to a paused component, as it may.
AssertionsAlwaysHold == crash # "assert"

\* Every command is answered by CmdComplete or by an error, unless the process ended or an
\* allocation failed; a port that is waited for, a worker behind the fence of a pause and
\* the thread that joins it do not wait for each other (TreatSetStateCommand,
\* TreatFlushCommand, TreatDisablePortCommand, TreatEnablePortCommand).
CommandsAnswered ==
    (client.pending # NoCommand) ~>
        (client.pending = NoCommand \/ ~Running \/ FenceAbandoned \/ \E p \in Ports : port[p].error)

-----------------------------------------------------------------------------
\* What follows up to OmxInv is the inductive invariant behind OmxProofs.

MainPlaces ==
    {"pop", "joinFill", "joinEmpty", "treat", "populateIn", "populateOut", "create",
     "unpopulateIn", "unpopulateOut", "complete", "invalid", "flushed"}

ClientOrders ==
    {Command("SetState", s) : s \in States \ {"Invalid"}}
    \cup {Command(c, p) : c \in {"Flush", "DisablePort", "EnablePort"}, p \in Ports}
BufferTasks(S) == {Command("Buffer", b) : b \in S}
Fences == {FenceTask(n) : n \in 1 .. 2 * MaxCommands}

\* Who may be given what: processorMain orders and buffers, a processor the buffers of its
\* port, fences and the order to end.
TaskTypes ==
    /\ mainQ \in Seq(ClientOrders \cup {FromDecoder} \cup BufferTasks(Buffers))
    /\ main \in [pc : MainPlaces, task : ClientOrders \cup {FromDecoder, NoCommand}]
    /\ port \in [Ports -> [enable : BOOLEAN, playable : BOOLEAN, error : BOOLEAN,
                           toEnable : BOOLEAN, toDisable : BOOLEAN, buffers : SUBSET Buffers]]
    /\ worker \in [Ports -> [queue : Seq(Tasks), delete : BOOLEAN, busy : Tasks, ended : BOOLEAN]]
    /\ \A p \in Ports :
          /\ worker[p].queue \in Seq(BufferTasks(OfPort(p)) \cup Fences \cup {Quit})
          /\ worker[p].busy \in BufferTasks(OfPort(p)) \cup Fences \cup {NoCommand}

IsOrder(t) == t.cmd # "Buffer" /\ t # FromDecoder

\* One command of the client at a time, in the queue or treated; each counts for a fence.
OneCommand ==
    /\ \A i \in DOMAIN mainQ : IsOrder(mainQ[i]) =>
          mainQ[i] = client.pending /\ main.task \in {NoCommand, FromDecoder}
    /\ \A i, j \in DOMAIN mainQ : IsOrder(mainQ[i]) /\ IsOrder(mainQ[j]) => i = j
    /\ main.task \in ClientOrders => client.pending = main.task
    /\ pause.n + (IF client.pending # NoCommand THEN 1 ELSE 0) <= client.sent

\* Each place of processorMain belongs to a command, and to states it is legal in.
Places4Task ==
    /\ main.pc = "pop" <=> main.task = NoCommand
    /\ main.pc \in {"joinFill", "joinEmpty"} =>
          \/ main.task.cmd = "Flush"
          \/ main.task.cmd = "SetState" /\ IsFlushingRequired(state, New)
    /\ main.pc \in {"populateIn", "populateOut", "create"} => main.task.cmd = "SetState" /\ ToIdle
    /\ main.pc \in {"unpopulateIn", "unpopulateOut"} => main.task.cmd = "SetState" /\ ToLoaded
    /\ main.pc = "complete" => main.task.cmd = "SetState" /\ Legal(state, New) /\ New # "Invalid"
    /\ main.pc = "invalid" => main.task = FromDecoder /\ state # "Invalid"
    /\ main.pc = "flushed" => main.task.cmd = "Flush"

\* A processor is told to end by its destructor only, after what is in its queue.
EndsInOrder(w) ==
    /\ w.delete <=> \E i \in DOMAIN w.queue : w.queue[i] = Quit
    /\ \A i \in DOMAIN w.queue : w.queue[i] = Quit => i = Len(w.queue)
    /\ w.ended => w.queue = <<Quit>> /\ w.busy = NoCommand
Destructors ==
    \A p \in Ports :
        /\ worker[p].delete <=> main.pc = IF p = "out" THEN "joinFill" ELSE "joinEmpty"
        /\ EndsInOrder(worker[p])

\* A buffer is in one place once it is allocated, before that in none.
OnePlaceEach == Running => \A b \in Buffers : Places(b) = IF b \in Allocated THEN 1 ELSE 0

\* What the module keeps for the end of the stream it does hold, without a decoder nothing else.
ModuleHolds ==
    Running =>
        /\ mod.eosOut # None => mod.eosOut \in mod.out
        /\ mod.eosIn # None => mod.eosIn \in mod.in /\ mod.eosIn = client.eos
        /\ ~mod.decoder => mod.out = {} /\ mod.in \subseteq {client.eos}

\* There is a decoder in Executing and Pause only, and on the way to and from them.
DecoderWhen ==
    mod.decoder =>
        /\ \/ state \in {"Executing", "Pause"}
           \/ state = "Idle" /\ main.pc = "complete" /\ New \in {"Executing", "Pause"}
        /\ main.pc # "invalid"
        /\ ~(main.pc = "complete" /\ New = "Idle")

\* The fence is closed in Pause, but for the time of a flush.
FenceWhen ==
    Running /\ state # "Invalid" =>
        (pause.on <=> state = "Pause" /\ (main.task.cmd = "Flush" => main.pc = "pop"))

NoBuffer(q) == \A i \in DOMAIN q : q[i].cmd # "Buffer"
WorkerQuiet(p) == NoBuffer(worker[p].queue) /\ worker[p].busy.cmd # "Buffer"

\* A careful client gives buffers in Executing only, and none behind a change of state.
QuietWhen ==
    Running =>
        /\ state \notin {"Executing", "Invalid"} =>
              NoBuffer(mainQ) /\ \A p \in Ports : WorkerQuiet(p)
        /\ \A i, j \in DOMAIN mainQ :
              i < j /\ IsOrder(mainQ[i]) /\ mainQ[i].cmd = "SetState" => mainQ[j].cmd # "Buffer"
        /\ state = "Executing" /\ main.task.cmd = "SetState" /\ main.task # FromDecoder =>
              /\ NoBuffer(mainQ)
              /\ main.pc = "joinEmpty" => WorkerQuiet("out")
              /\ main.pc \in {"treat", "complete"} /\ Legal(state, New) => \A p \in Ports : WorkerQuiet(p)

\* The buffers a command has to give back are ahead of it, and behind it when it is over.
NoneIn(S, q) == \A b \in S : QueuedIn(q, b) = {}
WorkerWithout(S, p) == NoneIn(S, worker[p].queue) /\ \A b \in S : worker[p].busy # Command("Buffer", b)
GivesBack(t) == t.cmd = "Flush" \/ t = Command("SetState", "Idle")

BeforeAhead ==
    Running /\ state # "Invalid" /\ client.before # {} =>
        /\ client.before \subseteq Allocated \ client.held
        /\ client.eos \notin client.before
        /\ GivesBack(client.pending)
        /\ main.task \in {NoCommand, FromDecoder} \/
              /\ NoneIn(client.before, mainQ)
              /\ main.pc \in {"joinFill", "joinEmpty", "treat"}
              /\ main.pc = "joinEmpty" => WorkerWithout(client.before, "out")
              /\ main.pc = "treat" => \A p \in Ports : WorkerWithout(client.before, p)
        /\ main.task \in {NoCommand, FromDecoder} => \E i \in DOMAIN mainQ : IsOrder(mainQ[i])
        /\ \A i, j \in DOMAIN mainQ :
              i < j /\ IsOrder(mainQ[i]) => \A b \in client.before : mainQ[j] # Command("Buffer", b)

\* As long as no decoder failed nor was refused.
NoFault ==
    Running /\ faults = 0 =>
        /\ state # "Invalid" /\ main.task # FromDecoder
        /\ \A i \in DOMAIN mainQ : mainQ[i] # FromDecoder
        /\ state \in {"Executing", "Pause"} => mod.decoder \/ (main.pc = "complete" /\ New = "Idle")
        /\ state = "Idle" /\ main.pc = "complete" /\ New \in {"Executing", "Pause"} => mod.decoder

OmxInv ==
    /\ TypeOK /\ TaskTypes /\ OneCommand /\ Places4Task /\ Destructors
    /\ OnePlaceEach /\ ModuleHolds /\ DecoderWhen /\ FenceWhen

CarefulInv == QuietWhen /\ BeforeAhead /\ NoFault /\ FlushReturnsBuffers /\ AssertionsHold
=============================================================================
