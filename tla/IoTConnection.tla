----------------------------- MODULE IoTConnection -----------------------------
(***************************************************************************)
(* The connection of the IoT channel to AWS IoT Core: the channel's switch *)
(* and configuration (ChannelService, IoTChannelService), and the MQTT     *)
(* connection behind them (IoTService, IoTClient).                         *)
(*                                                                         *)
(* combineLatest of configuration and switch starts an asynchronous        *)
(* connect or disconnect for every emission and waits for none of them, so *)
(* these jobs overlap at each await on the SDK.  Awaits of promises that   *)
(* are already resolved end within the tick they begin in and are not      *)
(* steps of their own.  A job creates at most one connection, which is     *)
(* named after it; Jobs bounds the emissions of a behaviour.               *)
(*                                                                         *)
(* The SDK reconnects a link that is lost, without end, and the handlers   *)
(* of 'interrupt', 'resume', 'error', 'disconnect' and 'closed' only log:  *)
(* neither connected nor the subscriptions follow the link.                *)
(***************************************************************************)
EXTENDS Integers

CONSTANTS
  Jobs,
  Configs,   \* the IoT data of accounts; a config stands for its topic, too
  None

ASSUME ConnectionAssumption == None \notin Jobs /\ None \notin Configs

VARIABLES
  enabled,      \* state.enabled of the channel (undefined acts as false)
  config,       \* state.config of the channel
  passed,       \* the configuration that passed distinctUntilChanged last
  job,          \* [at, on, config, closes] of every emission's job
  link,         \* what the SDK knows of the connection a job created
  connection,   \* IoTClient.connection
  connected,    \* IoTClient.connected
  topics,       \* IoTClient.subscriptions
  heard,        \* the topics a connection's session is subscribed to
  forgotten,    \* history variable: links that came back to a new session
  overlapped    \* history variable: an emission came before a job had ended

connectionVars == <<enabled, config, passed, job, link, connection, connected, topics, heard, forgotten, overlapped>>
client == <<job, link, connection, connected, topics, heard, forgotten>>

Places == {"unused", "closing", "connecting", "hung", "done"}
JobRecords == [at : Places, on : BOOLEAN, config : Configs \cup {None},
               closes : Jobs \cup {None}]
LinkStates == {"none", "connecting", "up", "lost", "failed", "closing", "closed"}

\* Connected once, and neither refused nor asked to close since.
Established == {"up", "lost"}

(* Type invariant: a job that has begun has a configuration to work with,  *)
(* and the client's connection is one of those a job made.                 *)
ConnectionTypeOK ==
  /\ enabled \in BOOLEAN
  /\ config \in Configs \cup {None}
  /\ passed \in Configs \cup {None}
  /\ job \in [Jobs -> JobRecords]
  /\ \A j \in Jobs : job[j].at # "unused" => job[j].config \in Configs
  /\ link \in [Jobs -> LinkStates]
  /\ connection \in Jobs \cup {None}
  /\ connected \in BOOLEAN
  /\ topics \subseteq Configs
  /\ heard \in [Jobs -> SUBSET Configs]
  /\ forgotten \subseteq Jobs
  /\ overlapped \in BOOLEAN

ConnectionInit ==
  /\ enabled \in BOOLEAN
  /\ config = None /\ passed = None
  /\ job = [j \in Jobs |-> [at |-> "unused", on |-> FALSE, config |-> None, closes |-> None]]
  /\ link = [j \in Jobs |-> "none"]
  /\ connection = None /\ connected = FALSE
  /\ topics = {}
  /\ heard = [j \in Jobs |-> {}]
  /\ forgotten = {}
  /\ overlapped = FALSE

InProgress(j) == job[j].at \in {"closing", "connecting", "hung"}
Settled == \A j \in Jobs : ~InProgress(j)
Live(j) == link[j] \in {"connecting"} \cup Established

-----------------------------------------------------------------------------
(* Pieces of IoTClient                                                     *)

(* Mutant of TopicsWith: the topic is only subscribed to after connecting. *)
TopicsWithout(c) == topics
TopicsWith(c) == topics \cup {c}

(* create, up to the await of connection.connect(), when the links are l.  *)
Create(j, c, l) ==
  /\ topics' = TopicsWith(c)
  /\ connection' = j
  /\ link' = [l EXCEPT ![j] = "connecting"]
  /\ UNCHANGED heard

(* IoTChannelService.connect ends by subscribing to the topic on whatever  *)
(* connection the client has by then.                                      *)
HeardAfter(h, c) == IF connection = None THEN h ELSE [h EXCEPT ![connection] = @ \cup {c}]

(* Mutants of ConnectedAfterClose and NeedsClosing: connected is left as   *)
(* it is while the connection closes; a connection is not closed before it *)
(* is replaced.                                                            *)
ConnectedKept == connected
NeverCloses == FALSE

ConnectedAfterClose == FALSE
NeedsClosing == connection # None /\ connected

(* A job up to its first await on the SDK: client.disconnect(), and, when  *)
(* there is nothing to disconnect, create.  The SDK disconnects a link it  *)
(* has established, lost or not, and refuses to disconnect any other: a    *)
(* connect logs that and goes on to subscribe, a disconnect ends with the  *)
(* error.                                                                  *)
Begin(j, c, on) ==
  LET goesTo(at, closes) ==
        job' = [job EXCEPT ![j] = [at |-> at, on |-> on, config |-> c, closes |-> closes]]
  IN  \/ /\ NeedsClosing /\ link[connection] \in Established
         /\ connected' = ConnectedAfterClose
         /\ link' = [link EXCEPT ![connection] = "closing"]
         /\ goesTo("closing", connection)
         /\ UNCHANGED <<connection, topics, heard>>
      \/ /\ NeedsClosing /\ link[connection] \notin Established
         /\ connected' = ConnectedAfterClose
         /\ topics' = IF on THEN topics \cup {c} ELSE topics
         /\ heard' = IF on THEN HeardAfter(heard, c) ELSE heard
         /\ goesTo("done", None)
         /\ UNCHANGED <<link, connection>>
      \/ /\ ~NeedsClosing /\ on
         /\ Create(j, c, link)
         /\ goesTo("connecting", None)
         /\ UNCHANGED connected
      \/ /\ ~NeedsClosing /\ ~on
         /\ goesTo("done", None)
         /\ UNCHANGED <<link, connection, connected, topics, heard>>

-----------------------------------------------------------------------------
(* The channel                                                             *)

(* combineLatest emits.                                                    *)
Emit(c, on) ==
  /\ \E j \in Jobs : job[j].at = "unused" /\ Begin(j, c, on)
  /\ overlapped' = (overlapped \/ ~Settled)
  /\ UNCHANGED forgotten

(* areSameConfig is negated: a configuration passes distinctUntilChanged   *)
(* when it is the first or the same as the last that passed.               *)
Passes(c) == passed \in {None, c}

SetConfig(c) ==
  /\ config' = c
  /\ IF Passes(c)
     THEN passed' = c /\ Emit(c, enabled)
     ELSE UNCHANGED <<passed, overlapped, client>>
  /\ UNCHANGED enabled

(* Mutant of HasConfig: undefined configurations are not filtered out.     *)
HasAnyConfig == TRUE

HasConfig == passed # None

SetEnabled(on) ==
  /\ enabled' = on
  /\ IF HasConfig
     THEN Emit(passed, on)
     ELSE UNCHANGED <<overlapped, client>>
  /\ UNCHANGED <<config, passed>>

-----------------------------------------------------------------------------
(* What the SDK answers                                                    *)

(* disconnect() resolves.  If another connection came up meanwhile, the    *)
(* promise that waits for connected to be false is never resolved.         *)
Closed(j) ==
  LET closed == [link EXCEPT ![job[j].closes] = "closed"]
      goesTo(at) == job' = [job EXCEPT ![j].at = at]
  IN  /\ job[j].at = "closing"
      /\ \/ /\ connected
            /\ goesTo("hung")
            /\ link' = closed
            /\ UNCHANGED <<connection, topics, heard>>
         \/ /\ ~connected /\ ~job[j].on
            /\ goesTo("done")
            /\ link' = closed
            /\ connection' = None
            /\ UNCHANGED <<topics, heard>>
         \/ /\ ~connected /\ job[j].on
            /\ goesTo("connecting")
            /\ Create(j, job[j].config, closed)
      /\ UNCHANGED <<enabled, config, passed, connected, forgotten, overlapped>>

(* The 'connect' event, and connect() resolves.                            *)
Opened(j) ==
  /\ job[j].at = "connecting"
  /\ job' = [job EXCEPT ![j].at = "done"]
  /\ link' = [link EXCEPT ![j] = "up"]
  /\ connected' = TRUE
  /\ heard' = HeardAfter([heard EXCEPT ![j] = topics], job[j].config)
  /\ UNCHANGED <<enabled, config, passed, connection, topics, forgotten, overlapped>>

(* connect() rejects: logged, and the topic is subscribed to all the same. *)
Refused(j) ==
  /\ job[j].at = "connecting"
  /\ job' = [job EXCEPT ![j].at = "done"]
  /\ link' = [link EXCEPT ![j] = "failed"]
  /\ heard' = HeardAfter(heard, job[j].config)
  /\ UNCHANGED <<enabled, config, passed, connection, connected, topics, forgotten, overlapped>>

(* 'interrupt', 'disconnect', 'closed': a link goes down, logged.          *)
LinkLost(j) ==
  /\ link[j] = "up"
  /\ link' = [link EXCEPT ![j] = "lost"]
  /\ UNCHANGED <<enabled, config, passed, job, connection, connected, topics, heard, forgotten, overlapped>>

(* 'resume': the link is back, in its session or in a new one, which knows *)
(* at most the topics whose subscription was still on its way; logged, and *)
(* nothing subscribes again.                                               *)
Resumed(j) ==
  /\ link[j] = "lost"
  /\ link' = [link EXCEPT ![j] = "up"]
  /\ \/ UNCHANGED <<heard, forgotten>>
     \/ /\ \E kept \in SUBSET heard[j] : heard' = [heard EXCEPT ![j] = kept]
        /\ forgotten' = forgotten \cup {j}
  /\ UNCHANGED <<enabled, config, passed, job, connection, connected, topics, overlapped>>

SDK(j) == Closed(j) \/ Opened(j) \/ Refused(j)

ConnectionNext ==
  \/ \E c \in Configs : SetConfig(c)
  \/ \E on \in BOOLEAN : SetEnabled(on)
  \/ \E j \in Jobs : SDK(j) \/ LinkLost(j) \/ Resumed(j)

ConnectionSpec == ConnectionInit /\ [][ConnectionNext]_connectionVars

(* The SDK answers every connect and every disconnect.                     *)
FairConnectionSpec == ConnectionSpec /\ \A j \in Jobs : WF_connectionVars(SDK(j))

-----------------------------------------------------------------------------
(* Properties                                                              *)

(* However connects and disconnects overlap and links are lost, connected  *)
(* is only set while some connection is up or is being brought back by the *)
(* SDK: a command is never handed to a client all of whose connections     *)
(* were refused or asked to close.  (During an interruption the client is  *)
(* "connected" without a link: no handler says otherwise.)                 *)
ConnectedMeansEstablished == connected => \E j \in Jobs : link[j] \in Established

(* Every connection that is up or coming back, an abandoned one too,       *)
(* listens to the topic of the account it was made for, although the       *)
(* subscription after the connect may go to another connection; unless it  *)
(* once came back to a new session, to which nothing subscribes again.     *)
TopicHeard ==
  \A j \in Jobs \ forgotten : link[j] \in Established => job[j].config \in heard[j]

(* When no emission ever came during another's job and all jobs are done,  *)
(* the client has the one connection the switch asks for, and takes itself *)
(* for connected exactly when that was established: however often it was   *)
(* lost and came back, it is closed when the switch is turned off.         *)
SwitchFollowed ==
  Settled /\ ~overlapped =>
    /\ \A j \in Jobs : Live(j) => enabled /\ j = connection
    /\ enabled /\ passed # None =>
         connection # None /\ (connected <=> link[connection] \in Established)

(* A job ends, unless another was started before it had.                   *)
JobsEnd == \A j \in Jobs : InProgress(j) ~> (overlapped \/ job[j].at = "done")

=============================================================================
