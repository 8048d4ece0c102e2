----------------------------- MODULE EngineConfig -----------------------------
(***************************************************************************)
(* How settings get from the framework to the modem                        *)
(* (gps/libloc_api_50001/loc_eng.cpp): the gps.conf values that may change *)
(* at run time, the availability of the network, and the AGPS server.      *)
(*                                                                         *)
(* The framework's thread keeps a setting in a global (gps_conf,           *)
(* agpsStatus) and sends a message when it changes.  The deferred thread   *)
(* hands the messages to the modem one after the other.  It also sends all *)
(* settings anew (loc_eng_reinit) after loc_eng_init and after a restart   *)
(* of the modem, and reads the globals for this without a lock: each read, *)
(* and each message that it sends itself, is a step of its own.  The       *)
(* settings are independent, so the order in which they are sent is left   *)
(* open.                                                                   *)
(*                                                                         *)
(* Left out are XTRA_VERSION_CHECK, which loc_eng_reinit passes on without *)
(* a message, and SUPL_MODE, which UlpProxyBase ignores.  The modem is     *)
(* external: it may restart at any time and then knows no setting.         *)
(***************************************************************************)
EXTENDS Naturals, Sequences

CONSTANTS
    Runtime,        \* settings of gps_conf that may change at run time
    Fixed,          \* those of sap_conf, which stay as the file has them
    Value,          \* values of settings
    Server,         \* server addresses
    Default,        \* the value that a setting has at first
    MaxChanges,     \* bound: changes the framework makes
    MaxRestarts     \* bound: restarts of the modem

Data == "data"      \* agpsStatus
Unset == "unset"

ASSUME SettingsAssumption ==
    /\ Data \notin Runtime \cup Fixed /\ Unset \notin Runtime \cup Fixed
    /\ Runtime \cap Fixed = {}
    /\ Default \in Value /\ Unset \notin Value /\ Unset \notin Server
    /\ MaxChanges \in Nat /\ MaxRestarts \in Nat

Setting == Runtime \cup Fixed \cup {Data}

VARIABLES
    conf,       \* gps_conf and agpsStatus
    open,       \* loc_eng_data.adapter exists
    agps,       \* agps_status_cb is set
    buffered,   \* supl_host_buf, Unset if supl_host_set is 0
    update,     \* settings the framework has changed and has yet to send
    queue,      \* messages to the deferred thread
    reinit,     \* the deferred thread in loc_eng_reinit: what it has to send
    modem,      \* the modem: up or not, its settings and its server
    missed,     \* settings whose last change the modem may never hear of
    server,     \* the last server the framework has set
    changes,
    restarts

vars == <<conf, open, agps, buffered, update, queue, reinit, modem, missed,
          server, changes, restarts>>

\* reinit.held is the setting that was read and not yet sent.
Idle == [on |-> FALSE, todo |-> {}, held |-> Unset, val |-> Unset, up |-> FALSE]

SettingMessage == [type : {"setting"}, of : Setting, val : Value]
ServerMessage == [type : {"server"}, val : Server]
Msg == [type : {"init", "up"}] \cup SettingMessage \cup ServerMessage

-----------------------------------------------------------------------------
(* The framework's thread.                                                  *)

Framework == update = {} /\ changes < MaxChanges /\ changes' = changes + 1

\* loc_eng_reinit has read another value of s and sends it after this one.
Overtakes(s, v) == reinit.held = s /\ reinit.val # v

\* Mutant: the change is not sent.
ConfigurationUpdate_Silent(new) ==
    /\ Framework
    /\ conf' = [s \in Setting |-> IF s \in Runtime THEN new[s] ELSE conf[s]]
    /\ update' = {}
    /\ missed' = [s \in Setting |-> IF conf'[s] # conf[s] THEN Overtakes(s, new[s])
                                                          ELSE missed[s]]
    /\ UNCHANGED <<open, agps, buffered, queue, reinit, modem, server, restarts>>

\* loc_eng_configuration_update changes gps_conf; what has changed is sent if
\* the HAL is initialised.
ConfigurationUpdate(new) ==
    /\ Framework
    /\ conf' = [s \in Setting |-> IF s \in Runtime THEN new[s] ELSE conf[s]]
    /\ update' = IF open THEN {s \in Runtime : conf'[s] # conf[s]} ELSE {}
    /\ missed' = [s \in Setting |-> IF conf'[s] # conf[s] THEN Overtakes(s, new[s])
                                                          ELSE missed[s]]
    /\ UNCHANGED <<open, agps, buffered, queue, reinit, modem, server, restarts>>

\* loc_eng_agps_ril_update_network_availability: the modem is told if an APN
\* comes with the change.
UpdateNetworkAvailability(available, apn) ==
    /\ Framework
    /\ conf' = [conf EXCEPT ![Data] = available]
    /\ update' = IF open /\ apn THEN {Data} ELSE {}
    /\ missed' = [missed EXCEPT ![Data] =
         IF open /\ apn THEN Overtakes(Data, available)
                        ELSE @ \/ (open /\ available # conf[Data])]
    /\ UNCHANGED <<open, agps, buffered, queue, reinit, modem, server, restarts>>

\* The messages of both.
UpdateSends(s) ==
    /\ s \in update
    /\ update' = update \ {s}
    /\ queue' = Append(queue, [type |-> "setting", of |-> s, val |-> conf[s]])
    /\ UNCHANGED <<conf, open, agps, buffered, reinit, modem, missed, server,
                   changes, restarts>>

\* loc_eng_init clears loc_eng_data, the buffered server included.
Initialise ==
    /\ update = {} /\ ~open
    /\ open' = TRUE /\ buffered' = Unset
    /\ queue' = Append(queue, [type |-> "init"])
    /\ UNCHANGED <<conf, agps, update, reinit, modem, missed, server, changes,
                   restarts>>

\* loc_eng_agps_reinit: the messages it sends.
BufferedServer == IF buffered = Unset THEN <<>>
                  ELSE << [type |-> "server", val |-> buffered] >>

\* loc_eng_agps_init
InitialiseAgps ==
    /\ update = {} /\ open /\ ~agps
    /\ agps' = TRUE
    /\ queue' = queue \o BufferedServer
    /\ UNCHANGED <<conf, open, buffered, update, reinit, modem, missed, server,
                   changes, restarts>>

\* loc_eng_set_server_proxy
SetServer(a) ==
    /\ Framework
    /\ server' = a
    /\ IF open THEN /\ queue' = Append(queue, [type |-> "server", val |-> a])
                    /\ UNCHANGED buffered
               ELSE buffered' = a /\ UNCHANGED queue
    /\ UNCHANGED <<conf, open, agps, update, reinit, modem, missed, restarts>>

-----------------------------------------------------------------------------
(* The deferred thread.                                                     *)

Receives(types) ==
    /\ ~reinit.on /\ queue # <<>> /\ Head(queue).type \in types
    /\ queue' = Tail(queue)

\* proc of a setting's message: a modem that is down does not hear of it.
Applied(m) == IF modem.up THEN [modem EXCEPT !.val[m.of] = m.val] ELSE modem

HandleSetting ==
    /\ Receives({"setting"})
    /\ modem' = Applied(Head(queue))
    /\ UNCHANGED <<conf, open, agps, buffered, update, reinit, missed, server,
                   changes, restarts>>

HandleServer ==
    /\ Receives({"server"})
    /\ modem' = IF modem.up THEN [modem EXCEPT !.server = Head(queue).val] ELSE modem
    /\ UNCHANGED <<conf, open, agps, buffered, update, reinit, missed, server,
                   changes, restarts>>

\* Mutant: a restarted modem is not told its settings again.
HandleRefresh_InitOnly ==
    /\ Receives({"init", "up"})
    /\ reinit' = IF Head(queue).type = "init"
                   THEN [Idle EXCEPT !.on = TRUE, !.todo = Setting] ELSE reinit
    /\ UNCHANGED <<conf, open, agps, buffered, update, modem, missed, server,
                   changes, restarts>>

\* LocEngInit and loc_eng_handle_engine_up begin with loc_eng_reinit.
HandleRefresh ==
    /\ Receives({"init", "up"})
    /\ reinit' = [Idle EXCEPT !.on = TRUE, !.todo = Setting,
                              !.up = Head(queue).type = "up"]
    /\ UNCHANGED <<conf, open, agps, buffered, update, modem, missed, server,
                   changes, restarts>>

ReinitReads(s) ==
    /\ reinit.on /\ reinit.held = Unset /\ s \in reinit.todo
    /\ reinit' = [reinit EXCEPT !.todo = @ \ {s}, !.held = s, !.val = conf[s]]
    /\ missed' = [missed EXCEPT ![s] = FALSE]
    /\ UNCHANGED <<conf, open, agps, buffered, update, queue, modem, server,
                   changes, restarts>>

ReinitSends ==
    /\ reinit.on /\ reinit.held # Unset
    /\ queue' = Append(queue, [type |-> "setting", of |-> reinit.held,
                                                   val |-> reinit.val])
    /\ reinit' = [reinit EXCEPT !.held = Unset, !.val = Unset]
    /\ UNCHANGED <<conf, open, agps, buffered, update, modem, missed, server,
                   changes, restarts>>

\* For a restart loc_eng_agps_reinit follows.
ReinitEnds ==
    /\ reinit.on /\ reinit.held = Unset /\ reinit.todo = {}
    /\ queue' = IF reinit.up /\ agps THEN queue \o BufferedServer ELSE queue
    /\ reinit' = Idle
    /\ UNCHANGED <<conf, open, agps, buffered, update, modem, missed, server,
                   changes, restarts>>

-----------------------------------------------------------------------------
(* The modem.                                                               *)

ModemDies ==
    /\ modem.up /\ restarts < MaxRestarts
    /\ restarts' = restarts + 1
    /\ modem' = [up |-> FALSE, val |-> [s \in Setting |-> Unset], server |-> Unset]
    /\ UNCHANGED <<conf, open, agps, buffered, update, queue, reinit, missed,
                   server, changes>>

\* The adapter, if there is one, sends LocEngUp.
ModemRevives ==
    /\ ~modem.up
    /\ modem' = [modem EXCEPT !.up = TRUE]
    /\ queue' = IF open THEN Append(queue, [type |-> "up"]) ELSE queue
    /\ UNCHANGED <<conf, open, agps, buffered, update, reinit, missed, server,
                   changes, restarts>>

-----------------------------------------------------------------------------
Init ==
    /\ conf = [s \in Setting |-> Default]
    /\ open = FALSE /\ agps = FALSE /\ buffered = Unset
    /\ update = {} /\ queue = <<>> /\ reinit = Idle
    /\ modem = [up |-> TRUE, val |-> [s \in Setting |-> Unset], server |-> Unset]
    /\ missed = [s \in Setting |-> FALSE]
    /\ server = Unset /\ changes = 0 /\ restarts = 0

Deferred ==
    \/ HandleSetting \/ HandleServer \/ HandleRefresh
    \/ ReinitSends \/ ReinitEnds
    \/ \E s \in Setting : ReinitReads(s)

Sending == \E s \in Setting : UpdateSends(s)

Next ==
    \/ \E new \in [Runtime -> Value] : ConfigurationUpdate(new)
    \/ \E v \in Value, apn \in BOOLEAN : UpdateNetworkAvailability(v, apn)
    \/ \E a \in Server : SetServer(a)
    \/ Sending \/ Initialise \/ InitialiseAgps
    \/ Deferred
    \/ ModemDies \/ ModemRevives

Spec == Init /\ [][Next]_vars

\* Both threads run, and a modem that is down comes back.  The framework need
\* not change or initialise anything.
FairSpec ==
    Spec /\ WF_vars(Deferred) /\ WF_vars(Sending) /\ WF_vars(ModemRevives)

-----------------------------------------------------------------------------
(* Properties.                                                             *)

\* The variables have their types.
TypeOK ==
    /\ conf \in [Setting -> Value]
    /\ open \in BOOLEAN /\ agps \in BOOLEAN
    /\ buffered \in Server \cup {Unset} /\ server \in Server \cup {Unset}
    /\ update \subseteq Setting
    /\ queue \in Seq(Msg)
    /\ reinit \in [on : BOOLEAN, todo : SUBSET Setting, held : Setting \cup {Unset},
                   val : Value \cup {Unset}, up : BOOLEAN]
    /\ modem \in [up : BOOLEAN, val : [Setting -> Value \cup {Unset}],
                  server : Server \cup {Unset}]
    /\ missed \in [Setting -> BOOLEAN]
    /\ changes \in 0..MaxChanges /\ restarts \in 0..MaxRestarts

\* Nothing is on its way to the modem.
Quiet == open /\ modem.up /\ queue = <<>> /\ ~reinit.on /\ update = {}

\* When nothing is on its way, the modem has every setting as the framework
\* last made it, whatever the order of changes, initialisation and restarts.
\* The one exception: the setting was changed, without an APN or while
\* loc_eng_reinit was between its read of the old value and its message.
UpToDate == Quiet => \A s \in Setting : missed[s] \/ modem.val[s] = conf[s]

\* Every setting arrives in the end, the same exception apart.
Settles == <>[](open => \A s \in Setting : missed[s] \/ modem.val[s] = conf[s])

\* A server may fail to reach the modem, for which see ServerReaches, but a
\* modem that has one has the one that was set last, also after a restart.
ServerNotStale == Quiet => modem.server \in {Unset, server}

\* loc_eng_agps_reinit never sends a server: the buffer is filled before
\* loc_eng_init only, which clears it.
NothingBuffered == open => buffered = Unset

\* Each step uses the queue of the deferred thread as one that promises what
\* Fifo says: it puts one message in, takes the oldest out, or leaves it alone.
Task == INSTANCE Fifo WITH stopped <- FALSE
UsesFifo == Task!Spec

\* "This proxy buffers server settings and calls loc_eng_set_server when the
\* client is open" (loc_eng.cpp 2504-2506): a server that was set reaches the
\* modem once the AGPS interface is initialised too.
ServerReaches == Quiet /\ agps /\ server # Unset => modem.server = server
=============================================================================
