---------------------------- MODULE NodeService ----------------------------
(***************************************************************************)
(* The life of the node process: the subcommand or role it is started with *)
(* (command.rs), the order in which a full and a light node bring up their *)
(* parts (service.rs: new_partial, new_full_base, new_light_base), the RPC *)
(* interfaces they serve (rpc.rs), the background tasks, the channel that  *)
(* carries engine commands from the RPC to the manual seal task, the       *)
(* blocks imported meanwhile, and the two databases that outlive the       *)
(* process.                                                                *)
(*                                                                         *)
(* A step of new_full_base that ends in `?` may fail; its components are   *)
(* then dropped and the process exits.  Tasks run from the moment they are *)
(* spawned, interleaved with the rest of the start-up.                     *)
(***************************************************************************)
EXTENDS Naturals, Sequences, FiniteSets

CONSTANTS
    Calls,       \* engine_createBlock calls a client makes in one run
    Blocks,      \* the blocks that can be imported, the genesis block aside
    BUFFER       \* capacity of the command channel, 1000 in the code

ASSUME ServiceConstants == IsFiniteSet(Blocks) /\ BUFFER \in Nat \ {0}

VARIABLES
    cli,         \* the command line of this run: subcommand, role, flags
    pc,          \* the next step of the start-up, "up" or "stopped"
    tasks,       \* the background tasks that are running
    subscribed,  \* the tasks spawned with a block import notification stream
    io,          \* the RPC interfaces that are served
    network,     \* has start_network been called
    receiver,    \* who owns commands_stream
    commands,    \* the engine commands in the channel
    call,        \* the state of every client call
    fault,       \* an essential task has ended
    wake,        \* the mapping worker has been notified or has more to do
    missed,      \* the tasks a block notification was sent too early for
    chain,       \* on disk: the imported blocks
    frontier     \* on disk: the blocks of the Ethereum mapping database

channel == <<receiver, commands, call>>
disk    == <<chain, frontier>>
service == <<tasks, subscribed, io, network, fault, wake, missed>>
vars    == <<cli, pc, service, channel, disk>>

---------------------------------------------------------------------------
(* Roles, tasks and interfaces *)

\* Subcommands that build the partial components and no service, and the
\* ones that touch neither database.
Offline   == {"check-block", "export", "import-blocks", "revert"}
Utilities == {"key", "build-spec"}
CommandLines ==
    [sub : {"run"}, role : {"Full", "Light", "Authority"},
     manual_seal : BOOLEAN, disable_grandpa : BOOLEAN]
        \cup
    [sub : {"purge-chain"} \cup Offline \cup Utilities, role : {"Full"},
     manual_seal : {FALSE}, disable_grandpa : {FALSE}]

MAPPING == "frontier-mapping-sync-worker"
FILTERS == "frontier-filter-pool"
PENDING == "frontier-pending-transactions"
DISCOVERY == "authority-discovery-worker"

Tasks == {MAPPING, FILTERS, PENDING, "manual-seal", "babe-proposer", "grandpa-voter", DISCOVERY}

\* Mutant: a worker that waits for notifications only.
NoInterval == 0
\* The interval of the mapping worker, which also runs when it elapses.
SYNC_INTERVAL == 6

\* Mutant: GRANDPA on the plain spawn handle.
VoterNotEssential == {MAPPING, FILTERS, PENDING, "manual-seal", "babe-proposer"}
\* The tasks spawned with spawn_essential_handle.
essential ==
    {MAPPING, FILTERS, PENDING, "manual-seal", "babe-proposer", "grandpa-voter"}

ethereum_apis == {"eth", "eth_filter", "net", "web3", "eth_pubsub"}
create_full(command_sink) ==
    {"system", "payment", "contracts", "babe", "grandpa", "sync_state"}
        \cup ethereum_apis
        \cup (IF command_sink THEN {"engine"} ELSE {})
create_light == {"system"}
\* The builder hands out the sink of the command channel on the flag alone.
rpc_extensions_builder == create_full(cli.manual_seal)

is_authority == cli.role = "Authority"

---------------------------------------------------------------------------
Init ==
    /\ cli \in CommandLines /\ pc = "start"
    /\ tasks = {} /\ subscribed = {} /\ io = {} /\ network = FALSE
    /\ fault = FALSE /\ wake = FALSE /\ missed = {}
    /\ receiver = "none" /\ commands = <<>> /\ call = [c \in Calls |-> "idle"]
    /\ chain = {} /\ frontier = {}

---------------------------------------------------------------------------
(* The end of the process: the task manager and every local are dropped. *)

Unanswered(c) == call[c] \in {"sending", "queued"}

Exit ==
    /\ pc' = "stopped"
    /\ tasks' = {} /\ subscribed' = {} /\ io' = {} /\ network' = FALSE
    /\ fault' = FALSE /\ wake' = FALSE
    /\ receiver' = "none" /\ commands' = <<>>
    /\ call' = [c \in Calls |-> IF Unanswered(c) THEN "failed" ELSE call[c]]
    /\ UNCHANGED <<cli, missed>>

\* A step of the start-up returns an error.
Fail(step) == pc = step /\ Exit /\ UNCHANGED disk

Next_step(from, to) == pc = from /\ pc' = to

---------------------------------------------------------------------------
(* command::run *)

purge_chain ==
    /\ cli.sub = "purge-chain"
    /\ chain' = {} /\ UNCHANGED frontier

\* The subcommands on the partial components, each of which may fail before
\* it has done anything.  Imports from a file are not notified.
offline ==
    /\ cli.sub \in Offline
    /\ \/ cli.sub = "import-blocks" /\ \E b \in Blocks \ chain : chain' = chain \cup {b}
       \/ cli.sub = "revert" /\ \E kept \in SUBSET chain : chain' = kept
       \/ UNCHANGED chain
    /\ UNCHANGED frontier

run ==
    /\ pc = "start" /\ cli.sub # "run"
    /\ \/ purge_chain
       \/ offline
       \/ cli.sub \in Utilities /\ UNCHANGED disk
    /\ Exit

\* The operator starts the binary again.
Restart ==
    /\ pc = "stopped"
    /\ pc' = "start" /\ cli' \in CommandLines
    /\ call' = [c \in Calls |-> "idle"] /\ missed' = {}
    /\ UNCHANGED <<tasks, subscribed, io, network, fault, wake, receiver, commands, disk>>

---------------------------------------------------------------------------
(* new_full_base *)

\* The partial components: the client, the pools, the block import chain, the
\* import queue, and the command channel, whose sink goes to the RPC builder.
new_partial ==
    /\ cli.sub = "run" /\ cli.role # "Light"
    /\ Next_step("start", "build_network")
    /\ receiver' = "service"
    /\ UNCHANGED <<cli, service, commands, call, disk>>

\* Mutant: the network started as soon as it is built, as in a light node.
StartedWhenBuilt ==
    /\ Next_step("build_network", "spawn_tasks")
    /\ network' = TRUE
    /\ UNCHANGED <<cli, tasks, subscribed, io, fault, wake, missed, channel, disk>>
\* The network worker is spawned and waits for start_network.
build_network ==
    /\ Next_step("build_network", "spawn_tasks")
    /\ UNCHANGED <<cli, service, channel, disk>>

\* The mapping worker, then the RPC servers.
spawn_tasks ==
    /\ Next_step("spawn_tasks", "spawn_pools")
    /\ tasks' = tasks \cup {MAPPING} /\ subscribed' = subscribed \cup {MAPPING}
    /\ io' = rpc_extensions_builder
    /\ UNCHANGED <<cli, network, fault, wake, missed, channel, disk>>

\* The maintenance of the filter pool, which subscribes as it is spawned, and
\* of the pending transactions, which subscribes when it is first polled.
spawn_pools ==
    /\ Next_step("spawn_pools", "authoring")
    /\ tasks' = tasks \cup {FILTERS, PENDING}
    /\ subscribed' = subscribed \cup {FILTERS}
    /\ UNCHANGED <<cli, io, network, fault, wake, missed, channel, disk>>

authoring ==
    /\ Next_step("authoring", "finality")
    /\ \/ /\ is_authority /\ cli.manual_seal
          /\ tasks' = tasks \cup {"manual-seal", DISCOVERY}
          /\ receiver' = "manual-seal"
       \/ /\ is_authority /\ ~cli.manual_seal
          /\ tasks' = tasks \cup {"babe-proposer", DISCOVERY}
          /\ UNCHANGED receiver
       \/ /\ ~is_authority
          /\ UNCHANGED <<tasks, receiver>>
    /\ UNCHANGED <<cli, subscribed, io, network, fault, wake, missed, commands, call, disk>>

finality ==
    /\ Next_step("finality", "start_network")
    /\ tasks' = IF cli.disable_grandpa THEN tasks ELSE tasks \cup {"grandpa-voter"}
    /\ UNCHANGED <<cli, subscribed, io, network, fault, wake, missed, channel, disk>>

\* Mutant: a command stream that is kept alive with the task manager.
StreamKept ==
    /\ Next_step("start_network", "up")
    /\ network' = TRUE
    /\ UNCHANGED <<cli, tasks, subscribed, io, fault, wake, missed, channel, disk>>
\* The last step; a command stream that no task has taken is dropped with the
\* locals of new_full_base, and the commands in it are cancelled.
start_network ==
    /\ Next_step("start_network", "up")
    /\ network' = TRUE
    /\ \/ receiver # "service" /\ UNCHANGED channel
       \/ /\ receiver = "service"
          /\ receiver' = "none" /\ commands' = <<>>
          /\ call' = [c \in Calls |-> IF Unanswered(c) THEN "failed" ELSE call[c]]
    /\ UNCHANGED <<cli, tasks, subscribed, io, fault, wake, missed, disk>>

(* new_light_base: the network is started before the RPC is served. *)
new_light_parts ==
    /\ cli.sub = "run" /\ cli.role = "Light"
    /\ Next_step("start", "light_network")
    /\ UNCHANGED <<cli, service, channel, disk>>

light_network ==
    /\ Next_step("light_network", "light_tasks")
    /\ network' = TRUE
    /\ UNCHANGED <<cli, tasks, subscribed, io, fault, wake, missed, channel, disk>>

light_tasks ==
    /\ Next_step("light_tasks", "up")
    /\ io' = create_light
    /\ UNCHANGED <<cli, tasks, subscribed, network, fault, wake, missed, channel, disk>>

\* A failing `?`: before the network is up, while the RPC is set up, in
\* start_babe, or in run_grandpa_voter.
startup_error ==
    \/ cli.sub = "run" /\ Fail("start")
    \/ \E step \in {"build_network", "spawn_tasks", "light_network", "light_tasks"} : Fail(step)
    \/ is_authority /\ ~cli.manual_seal /\ Fail("authoring")
    \/ ~cli.disable_grandpa /\ Fail("finality")

new_full  == new_partial \/ build_network \/ spawn_tasks \/ spawn_pools \/ authoring
                \/ finality \/ start_network
new_light == new_light_parts \/ light_network \/ light_tasks
startup   == run \/ new_full \/ new_light \/ startup_error

---------------------------------------------------------------------------
(* The running node *)

\* The client has imported block b; notify: its import was notified, which it
\* is not during the initial sync.
imported(b, notify) ==
    /\ chain' = chain \cup {b}
    /\ wake' = (wake \/ (notify /\ MAPPING \in tasks))
    /\ missed' = IF notify /\ cli.role # "Light"
                 THEN missed \cup ({MAPPING, FILTERS} \ subscribed)
                 ELSE missed

network_import ==
    /\ network
    /\ \E b \in Blocks \ chain, notify \in BOOLEAN : imported(b, notify)
    /\ UNCHANGED <<cli, pc, tasks, subscribed, io, network, fault, channel, frontier>>

babe_proposes ==
    /\ "babe-proposer" \in tasks
    /\ \E b \in Blocks \ chain : imported(b, TRUE)
    /\ UNCHANGED <<cli, pc, tasks, subscribed, io, network, fault, channel, frontier>>

\* One round of the mapping worker.
mapping_sync ==
    /\ MAPPING \in tasks
    /\ wake \/ SYNC_INTERVAL > 0
    /\ \E b \in chain \ frontier :
          /\ frontier' = frontier \cup {b}
          /\ wake' = (chain \ frontier' # {})
    /\ UNCHANGED <<cli, pc, tasks, subscribed, io, network, fault, missed, channel, chain>>

\* engine_createBlock: the handler sends the command and waits for the answer.
create_block(c) ==
    /\ "engine" \in io /\ call[c] = "idle"
    /\ call' = [call EXCEPT ![c] = IF receiver = "none" THEN "failed" ELSE "sending"]
    /\ UNCHANGED <<cli, pc, service, receiver, commands, disk>>

\* The send completes when there is room in the channel, and fails when the
\* stream has been dropped.
send(c) ==
    /\ call[c] = "sending" /\ Len(commands) < BUFFER
    /\ commands' = Append(commands, c)
    /\ call' = [call EXCEPT ![c] = "queued"]
    /\ UNCHANGED <<cli, pc, service, receiver, disk>>

\* The manual seal task answers the oldest command, with a new block or with
\* the error that kept it from sealing one.
run_manual_seal ==
    /\ "manual-seal" \in tasks /\ commands # <<>>
    /\ commands' = Tail(commands)
    /\ \/ /\ call' = [call EXCEPT ![Head(commands)] = "sealed"]
          /\ \E b \in Blocks \ chain : imported(b, TRUE)
       \/ /\ call' = [call EXCEPT ![Head(commands)] = "failed"]
          /\ UNCHANGED <<chain, wake, missed>>
    /\ UNCHANGED <<cli, pc, tasks, subscribed, io, network, fault, receiver, frontier>>

\* A task panics or returns.  The task manager's future resolves when the task
\* was essential; what ends between then and the exit is left out.  The end
\* of the manual seal task drops the stream it owns.
task_ends(t) ==
    /\ t \in tasks /\ ~fault
    /\ tasks' = tasks \ {t}
    /\ fault' = (fault \/ t \in essential)
    /\ \/ /\ t = "manual-seal"
          /\ receiver' = "none" /\ commands' = <<>>
          /\ call' = [c \in Calls |-> IF Unanswered(c) THEN "failed" ELSE call[c]]
       \/ t # "manual-seal" /\ UNCHANGED channel
    /\ UNCHANGED <<cli, pc, subscribed, io, network, wake, missed, disk>>

\* run_node_until_exit returns because an essential task has ended,
essential_exit == pc = "up" /\ fault /\ Exit /\ UNCHANGED disk
\* or because of a signal.
signal_exit == pc = "up" /\ Exit /\ UNCHANGED disk

Next ==
    \/ startup \/ Restart
    \/ network_import \/ babe_proposes \/ mapping_sync
    \/ \E c \in Calls : create_block(c) \/ send(c)
    \/ run_manual_seal
    \/ \E t \in Tasks : task_ends(t)
    \/ essential_exit \/ signal_exit

\* The start-up is straight-line code, the executor polls every task, and the
\* RPC server polls every call it has accepted.
Fairness ==
    /\ WF_vars(startup) /\ WF_vars(mapping_sync) /\ WF_vars(run_manual_seal)
    /\ WF_vars(essential_exit)
    /\ \A c \in Calls : WF_vars(send(c))

Spec == Init /\ [][Next]_vars /\ Fairness

---------------------------------------------------------------------------
(* Safety *)

\* In a full node no block is notified before the mapping worker and the
\* filter pool task hold their notification streams: new_full_base starts
\* block production and the network only after it has spawned them, although
\* the RPC is already served and tasks already run by then.
WatchersMissNothing == missed = {}

---------------------------------------------------------------------------
(* Liveness *)

\* Every engine command is answered, whether it waits for room in the channel,
\* is in the channel when the stream is dropped, or reaches a node that seals.
EngineCommandsAnswered == \A c \in Calls : Unanswered(c) ~> ~Unanswered(c)

\* A full node that has lost a task its service depends on goes down: "the
\* GRANDPA voter task is considered infallible, i.e. if it fails we take down
\* the service with it", and the pool maintenance runs "as essential,
\* otherwise we leak".
Needed ==
    {MAPPING, FILTERS, PENDING}
        \cup (IF ~is_authority THEN {}
              ELSE IF cli.manual_seal THEN {"manual-seal"} ELSE {"babe-proposer"})
        \cup (IF cli.disable_grandpa THEN {} ELSE {"grandpa-voter"})
LostTaskStopsNode ==
    pc = "up" /\ cli.role # "Light" /\ ~(Needed \subseteq tasks) ~> pc = "stopped"

\* A full node that stays up maps every block, those imported without a
\* notification, from a file, or before a crash included.
MappingCatchesUp ==
    []<>(pc = "up" /\ cli.role # "Light" => chain \subseteq frontier)

=============================================================================
