----------------------------- MODULE RpcSession -----------------------------
(***************************************************************************)
(* The calls of one auth key on its connections, as                        *)
(* mtproto/src/session/server-session.ts takes them: authorization         *)
(* transitions are served one by one and hold back what came after them, a *)
(* message that comes again on another connection joins the execution in   *)
(* progress or gets the cached reply, an execution takes one of the slots  *)
(* of its connection, waits in the slot for the messages it was sent after *)
(* (invokeAfterMsg), and its reply goes to every open connection that is   *)
(* waiting for it.                                                         *)
(*                                                                         *)
(* A delivery is a message on a connection.  What awaits only promises     *)
(* that are settled goes on before the next frame, handler or close is     *)
(* noticed.  Closing a connection and disposing of its session is one      *)
(* step.                                                                   *)
(***************************************************************************)
EXTENDS Integers, Sequences, FiniteSets

CONSTANTS
  Conns,        \* connections of the auth key
  Msgs,         \* RPC messages of the client, by their id
  After,        \* After[m]: the messages m was sent after
  Transitions,  \* AUTHORIZATION_TRANSITION_METHODS
  Slots,        \* MAX_ACTIVE_RPCS_PER_CONNECTION
  MaxPending,   \* MAX_PENDING_RPCS_PER_CONNECTION
  MaxInFlight,  \* MAX_SHARED_RPC_INFLIGHT_PER_AUTH_KEY
  NoDelivery,   \* no delivery of a message has been registered
  MaxPrunes,    \* bound on replies the cache drops
  MaxFaults     \* bound on replies that cannot be built

Deliveries == Conns \X Msgs

ASSUME RpcAssumption ==
  /\ IsFiniteSet(Conns) /\ IsFiniteSet(Msgs)
  /\ After \in [Msgs -> SUBSET Msgs]
  /\ \A m \in Msgs : m \notin After[m]
  /\ Transitions \subseteq Msgs
  /\ Slots \in Nat \ {0}
  /\ MaxPending \in Nat
  /\ MaxInFlight \in Nat
  /\ NoDelivery \notin Deliveries
  /\ MaxPrunes \in Nat
  /\ MaxFaults \in Nat

VARIABLES
  closed,     \* connections that are closed
  phase,      \* where each delivery is
  line,       \* what each connection received and has not begun to handle
  latest,     \* RpcDependencyRegistry._processing, its last registration
  replay,     \* RpcDependencyRegistry._replays
  active,     \* _activeRpcCount of each connection
  queue,      \* _rpcWaiters of each connection
  waits,      \* the completions an execution awaits
  prunes, faults,
  runs,       \* history: how often the handler of a message was started
  answered,   \* history: deliveries whose connection got a reply
  settled,    \* history: messages some execution of which ended with a reply
  dropped,    \* history: messages some execution of which was abandoned
  forgot,     \* history: messages whose reply was dropped or not built
  silenced    \* history: open deliveries that lost the execution they joined

rpcVars == <<closed, phase, line, latest, replay, active, queue, waits, prunes,
             faults, runs, answered, settled, dropped, forgot, silenced>>
rpcHistory == <<runs, answered, settled, dropped, forgot, silenced>>

Phases == {"none", "ordered", "queued", "wait", "refuse", "run", "join",
           "reply", "done"}
OwnerPhases == {"queued", "wait", "refuse", "run"}
SlotPhases == {"wait", "refuse", "run"}

RpcInit ==
  /\ closed = {}
  /\ phase = [d \in Deliveries |-> "none"]
  /\ line = [c \in Conns |-> <<>>]
  /\ latest = [m \in Msgs |-> NoDelivery]
  /\ replay = [m \in Msgs |-> "none"]
  /\ active = [c \in Conns |-> 0]
  /\ queue = [c \in Conns |-> <<>>]
  /\ waits = [d \in Deliveries |-> {}]
  /\ prunes = 0 /\ faults = 0
  /\ runs = [m \in Msgs |-> 0]
  /\ answered = {} /\ settled = {} /\ dropped = {} /\ forgot = {} /\ silenced = {}

-----------------------------------------------------------------------------
(***************************************************************************)
(* What a call was sent after.                                             *)
(***************************************************************************)

InProgress(d) == phase[d] \notin {"none", "done"}

\* A message counts as completed once any delivery of it is done, on this
\* connection or in the registry.
Completed(m) == \E c \in Conns : phase[<<c, m>>] = "done"
Outstanding(m) == {n \in After[m] : ~ Completed(n)}

\* The completion to await: the connection's own, or the registry's.
Awaited(c, n) ==
  {d \in {<<c, n>>} : InProgress(d)} \cup
  {d \in {latest[n]} \ {NoDelivery} : ~ InProgress(<<c, n>>) /\ InProgress(d)}
Missing(c, m) == \E n \in Outstanding(m) : Awaited(c, n) = {}

\* _waitForRpcDependencies, as the execution gets its slot.
\* Mutant of Dependencies: what another connection is processing is not found.
DependenciesHere(c, m) == {d \in {<<c, n>> : n \in Outstanding(m)} : InProgress(d)}
Dependencies(c, m) == UNION {Awaited(c, n) : n \in Outstanding(m)}
WithSlot(c, m) == IF Missing(c, m) THEN "refuse" ELSE "wait"

-----------------------------------------------------------------------------
(***************************************************************************)
(* Slots and the ends of executions.                                       *)
(***************************************************************************)

Attached(m) == {d \in Deliveries : d[2] = m /\ phase[d] \in OwnerPhases \cup {"join"}}

\* Everybody who awaits the execution of m goes on to where.
Resolve(m, where) == [d \in Deliveries |-> IF d \in Attached(m) THEN where ELSE phase[d]]

\* The release function of a slot: the next waiter gets it, if there is one.
\* Mutants of PassSlot: the waiters stay, or a closed connection is counted down.
PassSlotToNobody(c, p) ==
  /\ phase' = p
  /\ active' = IF c \in closed THEN active ELSE [active EXCEPT ![c] = @ - 1]
  /\ UNCHANGED <<queue, waits>>
PassSlotOfClosed(c, p) ==
  /\ c \in closed \/ queue[c] = <<>>
  /\ phase' = p
  /\ active' = [active EXCEPT ![c] = @ - 1]
  /\ UNCHANGED <<queue, waits>>
PassSlot(c, p) ==
  \/ /\ c \in closed
     /\ phase' = p
     /\ UNCHANGED <<active, queue, waits>>
  \/ /\ c \notin closed /\ queue[c] = <<>>
     /\ phase' = p
     /\ active' = [active EXCEPT ![c] = @ - 1]
     /\ UNCHANGED <<queue, waits>>
  \/ /\ c \notin closed /\ queue[c] # <<>>
     /\ LET m == Head(queue[c])
        IN  /\ phase' = [p EXCEPT ![<<c, m>>] = WithSlot(c, m)]
            /\ waits' = [waits EXCEPT ![<<c, m>>] = Dependencies(c, m)]
     /\ queue' = [queue EXCEPT ![c] = Tail(@)]
     /\ UNCHANGED active

\* The execution ended with a reply, which is cached.
\* Mutant of Settles: it is not cached.
SettlesUncached(c, m) ==
  /\ PassSlot(c, Resolve(m, "reply"))
  /\ replay' = [replay EXCEPT ![m] = "none"]
  /\ settled' = settled \cup {m}
Settles(c, m) ==
  /\ PassSlot(c, Resolve(m, "reply"))
  /\ replay' = [replay EXCEPT ![m] = "done"]
  /\ settled' = settled \cup {m}

\* The execution threw: nobody who awaits it answers, and the entry goes.
Rejected(ms, gone) ==
  /\ replay' = [m \in Msgs |-> IF m \in ms THEN "none" ELSE replay[m]]
  /\ silenced' = silenced \cup {d \in UNION {Attached(m) : m \in ms} : d[1] \notin gone}

-----------------------------------------------------------------------------
(***************************************************************************)
(* Callbacks of settled promises, which run before the next outside event. *)
(***************************************************************************)

\* The turn of a message: what came before it on its connection has begun, and
\* the transitions among that are done.
MayTurn(c, m) ==
  /\ line[c] # <<>> /\ Head(line[c]) = m
  /\ \A t \in Transitions : phase[<<c, t>>] \in {"none", "ordered", "done"}
Turn(c, m) ==
  /\ MayTurn(c, m)
  /\ line' = [line EXCEPT ![c] = Tail(@)]

DependenciesMet(c, m) ==
  /\ phase[<<c, m>>] = "wait"
  /\ \A d \in waits[<<c, m>>] : phase[d] = "done"

\* A connection, a handler or the clock may interrupt.
Quiet ==
  \A c \in Conns, m \in Msgs :
    ~ MayTurn(c, m) /\ ~ DependenciesMet(c, m) /\ phase[<<c, m>>] # "refuse"

-----------------------------------------------------------------------------
(***************************************************************************)
(* A delivery.                                                             *)
(***************************************************************************)

\* _handleDecryptedMessage: its completion is registered and it gets in line.  A
\* client sends a message after the ones it depends on, and on every connection in
\* that order; one of them may have been lost, or come late on another connection.
Arrive(c, m) ==
  /\ Quiet
  /\ c \notin closed
  /\ phase[<<c, m>>] = "none"
  /\ \A n \in Msgs : m \in After[n] => phase[<<c, n>>] = "none"
  /\ phase' = [phase EXCEPT ![<<c, m>>] = "ordered"]
  /\ line' = [line EXCEPT ![c] = Append(@, m)]
  /\ latest' = [latest EXCEPT ![m] = <<c, m>>]
  /\ UNCHANGED <<closed, replay, active, queue, waits, prunes, faults, rpcHistory>>

\* _handleRpcCall on a connection that closed meanwhile does nothing.
TurnClosed(c, m) ==
  /\ Turn(c, m)
  /\ c \in closed
  /\ phase' = [phase EXCEPT ![<<c, m>>] = "done"]
  /\ dropped' = dropped \cup {m}
  /\ UNCHANGED <<closed, latest, replay, active, queue, waits, prunes,
                 faults, runs, answered, settled, forgot, silenced>>

\* execute() of the registry finds the message in progress, or its reply.
\* Mutant of Known: only finished executions are found.
KnownDone(m) == replay[m] = "done"
Known(m) == replay[m] # "none"
\* Mutant of Join: a message that comes again is ignored as a duplicate.
Ignore(c, m) ==
  /\ Turn(c, m)
  /\ c \notin closed
  /\ Known(m)
  /\ phase' = [phase EXCEPT ![<<c, m>>] = "done"]
  /\ UNCHANGED <<closed, latest, replay, active, queue, waits, prunes, faults,
                 rpcHistory>>
Join(c, m) ==
  /\ Turn(c, m)
  /\ c \notin closed
  /\ Known(m)
  /\ phase' = [phase EXCEPT ![<<c, m>>] = IF replay[m] = "done" THEN "reply" ELSE "join"]
  /\ UNCHANGED <<closed, latest, replay, active, queue, waits, prunes,
                 faults, rpcHistory>>

InFlight == {m \in Msgs : replay[m] = "running"}

\* RpcReplayLimitError: SERVER_BUSY, which is not cached.
Refused(c, m) ==
  /\ Turn(c, m)
  /\ c \notin closed
  /\ ~ Known(m)
  /\ Cardinality(InFlight) >= MaxInFlight
  /\ phase' = [phase EXCEPT ![<<c, m>>] = "done"]
  /\ answered' = answered \cup {<<c, m>>}
  /\ settled' = settled \cup {m}
  /\ UNCHANGED <<closed, latest, replay, active, queue, waits, prunes,
                 faults, runs, dropped, forgot, silenced>>

\* A new execution: a slot, a place in the queue of the connection, or
\* SERVER_BUSY, which is cached.
Execute(c, m) ==
  /\ Turn(c, m)
  /\ c \notin closed
  /\ ~ Known(m)
  /\ Cardinality(InFlight) < MaxInFlight
  /\ \/ /\ active[c] < Slots
        /\ replay' = [replay EXCEPT ![m] = "running"]
        /\ active' = [active EXCEPT ![c] = @ + 1]
        /\ phase' = [phase EXCEPT ![<<c, m>>] = WithSlot(c, m)]
        /\ waits' = [waits EXCEPT ![<<c, m>>] = Dependencies(c, m)]
        /\ UNCHANGED <<queue, settled>>
     \/ /\ active[c] >= Slots /\ Len(queue[c]) < MaxPending
        /\ replay' = [replay EXCEPT ![m] = "running"]
        /\ queue' = [queue EXCEPT ![c] = Append(@, m)]
        /\ phase' = [phase EXCEPT ![<<c, m>>] = "queued"]
        /\ UNCHANGED <<active, waits, settled>>
     \/ /\ active[c] >= Slots /\ Len(queue[c]) >= MaxPending
        /\ replay' = [replay EXCEPT ![m] = "done"]
        /\ phase' = [phase EXCEPT ![<<c, m>>] = "reply"]
        /\ settled' = settled \cup {m}
        /\ UNCHANGED <<active, queue, waits>>
  /\ UNCHANGED <<closed, latest, prunes, faults, runs, answered, dropped,
                 forgot, silenced>>

\* MSG_WAIT_FAILED: a dependency nobody has seen.
Refuse(c, m) ==
  /\ phase[<<c, m>>] = "refuse"
  /\ Settles(c, m)
  /\ UNCHANGED <<closed, line, latest, prunes, faults, runs, answered, dropped,
                 forgot, silenced>>

Run(c, m) ==
  /\ DependenciesMet(c, m)
  /\ c \notin closed
  /\ phase' = [phase EXCEPT ![<<c, m>>] = "run"]
  /\ waits' = [waits EXCEPT ![<<c, m>>] = {}]
  /\ runs' = [runs EXCEPT ![m] = @ + 1]
  /\ UNCHANGED <<closed, line, latest, replay, active, queue, prunes, faults,
                 answered, settled, dropped, forgot, silenced>>

\* RpcConnectionClosedError: the connection closed while the call was waiting.
Abandon(c, m) ==
  /\ DependenciesMet(c, m)
  /\ c \in closed
  /\ Rejected({m}, closed)
  /\ dropped' = dropped \cup {m}
  /\ PassSlot(c, Resolve(m, "done"))
  /\ UNCHANGED <<closed, line, latest, prunes, faults, runs, answered, settled,
                 forgot>>

Finish(c, m) ==
  /\ Quiet
  /\ phase[<<c, m>>] = "run"
  /\ Settles(c, m)
  /\ UNCHANGED <<closed, line, latest, prunes, faults, runs, answered, dropped,
                 forgot, silenced>>

\* The handler returned what cannot be serialized: the error is only logged.
ReplyFails(c, m) ==
  /\ Quiet
  /\ phase[<<c, m>>] = "run"
  /\ faults < MaxFaults
  /\ faults' = faults + 1
  /\ Rejected({m}, closed)
  /\ forgot' = forgot \cup {m}
  /\ settled' = settled \cup {m}
  /\ PassSlot(c, Resolve(m, "done"))
  /\ UNCHANGED <<closed, line, latest, prunes, runs, answered, dropped>>

\* The reply goes out unless the connection closed; the completion resolves.
Reply(c, m) ==
  /\ Quiet
  /\ phase[<<c, m>>] = "reply"
  /\ phase' = [phase EXCEPT ![<<c, m>>] = "done"]
  /\ answered' = IF c \in closed THEN answered ELSE answered \cup {<<c, m>>}
  /\ UNCHANGED <<closed, line, latest, replay, active, queue, waits, prunes,
                 faults, runs, settled, dropped, forgot, silenced>>

-----------------------------------------------------------------------------
(***************************************************************************)
(* Connections and the cache.                                              *)
(***************************************************************************)

\* The calls in the queue of the connection are told that it closed; the ones
\* in a slot go on.
\* Mutant of Close: the calls in the queue are not told.
CloseQueued(c) ==
  /\ Quiet
  /\ c \notin closed
  /\ closed' = closed \cup {c}
  /\ active' = [active EXCEPT ![c] = 0]
  /\ UNCHANGED <<phase, line, latest, replay, queue, waits, prunes, faults,
                 rpcHistory>>
Close(c) ==
  /\ Quiet
  /\ c \notin closed
  /\ closed' = closed \cup {c}
  /\ LET ms == {m \in Msgs : phase[<<c, m>>] = "queued"}
     IN  /\ Rejected(ms, closed')
         /\ dropped' = dropped \cup ms
         /\ phase' = [d \in Deliveries |->
                        IF d \in UNION {Attached(m) : m \in ms} THEN "done" ELSE phase[d]]
  /\ queue' = [queue EXCEPT ![c] = <<>>]
  /\ active' = [active EXCEPT ![c] = 0]
  /\ UNCHANGED <<line, latest, waits, prunes, faults, runs, answered, settled,
                 forgot>>

\* prune(): a reply that is too old or too big is dropped, never a running entry.
Prune(m) ==
  /\ Quiet
  /\ prunes < MaxPrunes
  /\ replay[m] = "done"
  /\ replay' = [replay EXCEPT ![m] = "none"]
  /\ prunes' = prunes + 1
  /\ forgot' = forgot \cup {m}
  /\ UNCHANGED <<closed, phase, line, latest, active, queue, waits, faults,
                 runs, answered, settled, dropped, silenced>>

RpcStep(c, m) ==
  \/ TurnClosed(c, m) \/ Join(c, m) \/ Refused(c, m) \/ Execute(c, m)
  \/ Refuse(c, m) \/ Run(c, m) \/ Abandon(c, m) \/ Finish(c, m)
  \/ ReplyFails(c, m) \/ Reply(c, m)

RpcNext ==
  \/ \E c \in Conns, m \in Msgs : Arrive(c, m) \/ RpcStep(c, m)
  \/ \E c \in Conns : Close(c)
  \/ \E m \in Msgs : Prune(m)

RpcSpec == RpcInit /\ [][RpcNext]_rpcVars

-----------------------------------------------------------------------------
(***************************************************************************)
(* Properties.                                                             *)
(***************************************************************************)

\* Types.
RpcTypeOK ==
  /\ closed \subseteq Conns
  /\ phase \in [Deliveries -> Phases]
  /\ line \in [Conns -> Seq(Msgs)]
  /\ latest \in [Msgs -> Deliveries \cup {NoDelivery}]
  /\ replay \in [Msgs -> {"none", "running", "done"}]
  /\ active \in [Conns -> 0 .. Slots]
  /\ queue \in [Conns -> Seq(Msgs)]
  /\ waits \in [Deliveries -> SUBSET Deliveries]
  /\ prunes \in 0 .. MaxPrunes /\ faults \in 0 .. MaxFaults
  /\ runs \in [Msgs -> Nat]
  /\ answered \subseteq Deliveries /\ silenced \subseteq Deliveries
  /\ settled \subseteq Msgs /\ dropped \subseteq Msgs /\ forgot \subseteq Msgs

\* The slot count of an open connection is the number of executions in its
\* slots, and nobody waits while a slot is free: no release is lost.
SlotsAccounted ==
  \A c \in Conns \ closed :
    /\ active[c] = Cardinality({m \in Msgs : phase[<<c, m>>] \in SlotPhases})
    /\ queue[c] # <<>> => active[c] = Slots

\* However often a client sends a message again, its handler runs once, unless
\* the reply was dropped from the cache or could not be built.
ExecutedOnce == \A m \in Msgs : runs[m] > 1 => m \in forgot

\* A running entry of the cache has one execution behind it, on one connection.
OneExecution ==
  \A m \in Msgs :
    Cardinality({c \in Conns : phase[<<c, m>>] \in OwnerPhases}) =
      IF replay[m] = "running" THEN 1 ELSE 0

\* A handler starts after the calls its message was sent after have ended,
\* whatever connection they came on, unless one was abandoned when its
\* connection closed: then it counts as completed although it never ran.
AfterDependencies ==
  \A d \in Deliveries :
    phase[d] = "run" => \A n \in After[d[2]] : n \in settled \cup dropped

\* Nothing waits for itself: when no handler is running, no reply is due and
\* every callback has run, every delivery has been dealt with.
NothingStuck ==
  (Quiet /\ \A d \in Deliveries : phase[d] \notin {"run", "reply"})
    => \A d \in Deliveries : ~ InProgress(d)

\* A delivery ends with a reply, unless its connection closed or the execution
\* it joined was lost with another connection or with its reply.
EndsAnswered ==
  \A d \in Deliveries :
    phase[d] = "done" => d \in answered \cup silenced \/ d[1] \in closed
=============================================================================
