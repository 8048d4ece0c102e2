------------------------- MODULE EngineConfig_proofs --------------------------
(* Safety of EngineConfig, for any settings, values and servers, and any       *)
(* number of changes and restarts.                                             *)
EXTENDS EngineConfig, SequenceTheorems, TLAPS

Tells(m, s) == m.type = "setting" /\ m.of = s

Refreshes(m) == m.type \in {"init", "up"}

\* A refresh waits in q.
Announced(q) == \E i \in 1..Len(q) : Refreshes(q[i])

\* The last message of q about s says v.
Told(q, s, v) ==
    \E i \in 1..Len(q) :
        /\ Tells(q[i], s) /\ q[i].val = v
        /\ \A j \in 1..Len(q) : j > i => ~Tells(q[j], s)

\* q has no message about s.
Untold(q, s) == \A i \in 1..Len(q) : ~Tells(q[i], s)

\* The value of s is with the modem or on its way to it.
Underway(s) ==
    \/ Announced(queue)
    \/ s \in reinit.todo \/ s \in update \/ reinit.held = s
    \/ Told(queue, s, conf[s])
    \/ Untold(queue, s) /\ modem.val[s] = conf[s]

Covered ==
    open /\ modem.up => \A s \in Setting : missed[s] \/ Underway(s)

\* What loc_eng_reinit is about to send is current, or known to be missed.
HeldIsCurrent ==
    \A s \in Setting : reinit.held = s => missed[s] \/ reinit.val = conf[s]

HeldHasValue ==
    /\ ~reinit.on => reinit = Idle
    /\ reinit.held # Unset => reinit.val \in Value

\* Nothing is sent before loc_eng_init.
QuietBefore == ~open => queue = <<>> /\ update = {} /\ reinit = Idle

IInv == TypeOK /\ Covered /\ HeldIsCurrent /\ HeldHasValue /\ QuietBefore

-----------------------------------------------------------------------------
(* Messages.                                                                   *)

LEMMA MsgTypes ==
    /\ [type |-> "init"] \in Msg /\ [type |-> "up"] \in Msg
    /\ \A s \in Setting, v \in Value : [type |-> "setting", of |-> s, val |-> v] \in Msg
    /\ \A v \in Server : [type |-> "server", val |-> v] \in Msg
BY DEF Msg, SettingMessage, ServerMessage

\* A setting's message names a setting and a value.
LEMMA SettingMsg ==
    ASSUME NEW m \in Msg, m.type = "setting"
    PROVE  m.of \in Setting /\ m.val \in Value
BY DEF Msg, SettingMessage, ServerMessage

LEMMA ServerMsg ==
    ASSUME NEW m \in Msg, m.type = "server"
    PROVE  m.val \in Server
BY DEF Msg, SettingMessage, ServerMessage

\* What a message behind q does to what q says.
LEMMA AppendKeeps ==
    ASSUME NEW q \in Seq(Msg), NEW m \in Msg
    PROVE  /\ Append(q, m) \in Seq(Msg)
           /\ Announced(q) => Announced(Append(q, m))
           /\ Refreshes(m) => Announced(Append(q, m))
           /\ \A s \in Setting :
                /\ ~Tells(m, s) /\ Untold(q, s) => Untold(Append(q, m), s)
                /\ \A v \in Value :
                     /\ ~Tells(m, s) /\ Told(q, s, v) => Told(Append(q, m), s, v)
                     /\ Tells(m, s) /\ m.val = v => Told(Append(q, m), s, v)
<1> DEFINE r == Append(q, m)
<1>1. /\ r \in Seq(Msg) /\ Len(r) = Len(q) + 1 /\ Len(q) \in Nat
      /\ \A i \in 1..Len(q) : r[i] = q[i]
      /\ r[Len(q) + 1] = m
  BY AppendProperties, LenProperties
<1> HIDE DEF r
<1>2. Announced(q) => Announced(r)
  BY <1>1 DEF Announced
<1>3. Refreshes(m) => Announced(r)
  BY <1>1 DEF Announced
<1>4. ASSUME NEW s \in Setting, ~Tells(m, s), Untold(q, s) PROVE Untold(r, s)
  BY <1>1, <1>4 DEF Untold
<1>5. ASSUME NEW s \in Setting, NEW v \in Value, ~Tells(m, s), Told(q, s, v)
      PROVE  Told(r, s, v)
  <2>1. PICK i \in 1..Len(q) :
           /\ Tells(q[i], s) /\ q[i].val = v
           /\ \A j \in 1..Len(q) : j > i => ~Tells(q[j], s)
    BY <1>5 DEF Told
  <2>2. i \in 1..Len(r) /\ Tells(r[i], s) /\ r[i].val = v
    BY <1>1, <2>1
  <2>3. \A j \in 1..Len(r) : j > i => ~Tells(r[j], s)
    BY <1>1, <1>5, <2>1
  <2> QED
    BY <2>2, <2>3 DEF Told
<1>6. ASSUME NEW s \in Setting, NEW v \in Value, Tells(m, s), m.val = v
      PROVE  Told(r, s, v)
  BY <1>1, <1>6 DEF Told
<1> QED
  BY <1>1, <1>2, <1>3, <1>4, <1>5, <1>6 DEF r

\* What taking the first message out of q does to what q says.
LEMMA TailKeeps ==
    ASSUME NEW q \in Seq(Msg), q # <<>>
    PROVE  /\ Head(q) \in Msg /\ Tail(q) \in Seq(Msg)
           /\ ~Refreshes(Head(q)) /\ Announced(q) => Announced(Tail(q))
           /\ \A s \in Setting :
                /\ Untold(q, s) => ~Tells(Head(q), s) /\ Untold(Tail(q), s)
                /\ \A v \in Value : Told(q, s, v) =>
                     \/ Told(Tail(q), s, v)
                     \/ Tells(Head(q), s) /\ Head(q).val = v /\ Untold(Tail(q), s)
<1> DEFINE r == Tail(q)
<1>1. /\ r \in Seq(Msg) /\ Len(r) = Len(q) - 1 /\ Len(q) \in Nat \ {0}
      /\ Head(q) \in Msg /\ Head(q) = q[1]
      /\ \A i \in 1..Len(r) : r[i] = q[i + 1]
  BY HeadTailProperties, LenProperties, EmptySeq
<1>2. Len(r) \in Nat
  BY <1>1
<1> HIDE DEF r
<1>3. ASSUME ~Refreshes(Head(q)), Announced(q) PROVE Announced(r)
  <2>1. PICK i \in 1..Len(q) : Refreshes(q[i])
    BY <1>3 DEF Announced
  <2>2. i # 1
    BY <1>1, <1>3, <2>1
  <2>3. i - 1 \in 1..Len(r) /\ r[i - 1] = q[i]
    BY <1>1, <1>2, <2>1, <2>2
  <2> QED
    BY <2>1, <2>3 DEF Announced
<1>4. ASSUME NEW s \in Setting, Untold(q, s)
      PROVE  ~Tells(Head(q), s) /\ Untold(r, s)
  BY <1>1, <1>2, <1>4 DEF Untold
<1>5. ASSUME NEW s \in Setting, NEW v \in Value, Told(q, s, v)
      PROVE  \/ Told(r, s, v)
             \/ Tells(Head(q), s) /\ Head(q).val = v /\ Untold(r, s)
  <2>1. PICK i \in 1..Len(q) :
           /\ Tells(q[i], s) /\ q[i].val = v
           /\ \A j \in 1..Len(q) : j > i => ~Tells(q[j], s)
    BY <1>5 DEF Told
  <2>2. CASE i = 1
    BY <1>1, <1>2, <2>1, <2>2 DEF Untold
  <2>3. CASE i # 1
    <3>1. i - 1 \in 1..Len(r) /\ r[i - 1] = q[i]
      BY <1>1, <1>2, <2>1, <2>3
    <3>2. \A j \in 1..Len(r) : j > i - 1 => ~Tells(r[j], s)
      BY <1>1, <1>2, <2>1
    <3> QED
      BY <2>1, <3>1, <3>2 DEF Told
  <2> QED
    BY <2>2, <2>3
<1> QED
  BY <1>1, <1>3, <1>4, <1>5 DEF r

\* The server's message says nothing of a setting.
LEMMA BufferedServerKeeps ==
    ASSUME NEW q \in Seq(Msg), buffered \in Server \cup {Unset}
    PROVE  /\ q \o BufferedServer \in Seq(Msg)
           /\ Announced(q) => Announced(q \o BufferedServer)
           /\ \A s \in Setting :
                /\ Untold(q, s) => Untold(q \o BufferedServer, s)
                /\ \A v \in Value : Told(q, s, v) => Told(q \o BufferedServer, s, v)
<1>1. CASE buffered = Unset
  <2>1. q \o BufferedServer = q
    BY <1>1, ConcatEmptySeq DEF BufferedServer
  <2> QED
    BY <2>1
<1>2. CASE buffered # Unset
  <2> DEFINE m == [type |-> "server", val |-> buffered]
  <2>1. m \in Msg /\ \A s \in Setting : ~Tells(m, s)
    BY <1>2, MsgTypes DEF Tells
  <2>2. BufferedServer = <<m>>
    BY <1>2 DEF BufferedServer
  <2>3. q \o BufferedServer = Append(q, m)
    BY <2>1, <2>2, AppendIsConcat
  <2> HIDE DEF m
  <2> QED
    BY <2>1, <2>3, AppendKeeps
<1> QED
  BY <1>1, <1>2

-----------------------------------------------------------------------------
(* Initially, and step by step.                                                *)

LEMMA UnsetIsNoSetting == Unset \notin Setting
BY SettingsAssumption DEF Setting, Data, Unset

LEMMA InitInv == Init => IInv
<1> SUFFICES ASSUME Init PROVE IInv
  OBVIOUS
<1> USE SettingsAssumption
<1>1. reinit \in [on : BOOLEAN, todo : SUBSET Setting, held : Setting \cup {Unset},
                  val : Value \cup {Unset}, up : BOOLEAN]
  BY DEF Init, Idle
<1>2. modem \in [up : BOOLEAN, val : [Setting -> Value \cup {Unset}],
                 server : Server \cup {Unset}]
  BY DEF Init
<1>3. TypeOK
  <2>1. /\ conf \in [Setting -> Value] /\ missed \in [Setting -> BOOLEAN]
        /\ changes \in 0..MaxChanges /\ restarts \in 0..MaxRestarts
    BY DEF Init
  <2>2. /\ open \in BOOLEAN /\ agps \in BOOLEAN /\ update \subseteq Setting
        /\ buffered = Unset /\ server = Unset
    BY DEF Init
  <2>3. queue \in Seq(Msg)
    BY EmptySeq DEF Init
  <2> QED
    BY <1>1, <1>2, <2>1, <2>2, <2>3 DEF TypeOK
<1>4. Covered /\ HeldIsCurrent /\ HeldHasValue /\ QuietBefore
  BY UnsetIsNoSetting DEF Init, Covered, HeldIsCurrent, HeldHasValue, QuietBefore, Idle
<1> QED
  BY <1>3, <1>4 DEF IInv

\* A change of gps_conf: a setting that changes is to be sent, unless
\* loc_eng_reinit is about to send another value of it.
LEMMA ConfigurationInv ==
    ASSUME IInv, NEW new \in [Runtime -> Value], ConfigurationUpdate(new)
    PROVE  IInv'
<1> USE SettingsAssumption
<1>1. /\ open' = open /\ queue' = queue /\ reinit' = reinit /\ modem' = modem
      /\ agps' = agps /\ buffered' = buffered /\ server' = server
      /\ restarts' = restarts /\ changes' = changes + 1 /\ changes < MaxChanges
      /\ update = {}
  BY DEF ConfigurationUpdate, Framework
<1>2. conf' \in [Setting -> Value]
  BY DEF ConfigurationUpdate, IInv, TypeOK, Setting
<1>3. \A s \in Setting : conf'[s] # conf[s] => s \in Runtime /\ conf'[s] = new[s]
  BY DEF ConfigurationUpdate, IInv, TypeOK, Setting
<1>4. update' = IF open THEN {s \in Runtime : conf'[s] # conf[s]} ELSE {}
  BY DEF ConfigurationUpdate
<1>5. missed' = [s \in Setting |-> IF conf'[s] # conf[s] THEN Overtakes(s, new[s])
                                                         ELSE missed[s]]
  BY DEF ConfigurationUpdate
<1>6. TypeOK'
  <2>1. missed' \in [Setting -> BOOLEAN]
    BY <1>5 DEF Overtakes, IInv, TypeOK
  <2>2. update' \subseteq Setting
    BY <1>4 DEF Setting
  <2> QED
    BY <1>1, <1>2, <2>1, <2>2 DEF IInv, TypeOK
<1>7. Covered'
  <2> SUFFICES ASSUME open', modem'.up, NEW s \in Setting, ~missed'[s]
               PROVE  Underway(s)'
    BY DEF Covered
  <2>1. CASE conf'[s] = conf[s]
    <3>1. Underway(s)
      BY <1>1, <1>5, <2>1 DEF IInv, Covered
    <3> QED
      BY <1>1, <2>1, <3>1 DEF Underway
  <2>2. CASE conf'[s] # conf[s]
    BY <1>1, <1>3, <1>4, <2>2 DEF Underway
  <2> QED
    BY <2>1, <2>2
<1>8. HeldIsCurrent'
  <2> SUFFICES ASSUME NEW s \in Setting, reinit'.held = s, ~missed'[s]
               PROVE  reinit'.val = conf'[s]
    BY DEF HeldIsCurrent
  <2> QED
    BY <1>1, <1>3, <1>5 DEF IInv, HeldIsCurrent, Overtakes
<1>9. HeldHasValue' /\ QuietBefore'
  BY <1>1, <1>4 DEF IInv, HeldHasValue, QuietBefore
<1> QED
  BY <1>6, <1>7, <1>8, <1>9 DEF IInv

\* A change of the network's availability: likewise, and one that comes without
\* an APN counts as missed.
LEMMA AvailabilityInv ==
    ASSUME IInv, NEW v \in Value, NEW apn \in BOOLEAN,
           UpdateNetworkAvailability(v, apn)
    PROVE  IInv'
<1> USE SettingsAssumption
<1>1. /\ open' = open /\ queue' = queue /\ reinit' = reinit /\ modem' = modem
      /\ agps' = agps /\ buffered' = buffered /\ server' = server
      /\ restarts' = restarts /\ changes' = changes + 1 /\ changes < MaxChanges
      /\ update = {}
  BY DEF UpdateNetworkAvailability, Framework
<1>2. Data \in Setting
  BY DEF Setting
<1>3. /\ conf' = [conf EXCEPT ![Data] = v]
      /\ conf' \in [Setting -> Value] /\ conf'[Data] = v
      /\ \A s \in Setting : s # Data => conf'[s] = conf[s]
  BY <1>2 DEF UpdateNetworkAvailability, IInv, TypeOK
<1>4. update' = IF open /\ apn THEN {Data} ELSE {}
  BY DEF UpdateNetworkAvailability
<1>5. /\ missed' \in [Setting -> BOOLEAN]
      /\ \A s \in Setting : s # Data => missed'[s] = missed[s]
      /\ missed'[Data] = IF open /\ apn THEN Overtakes(Data, v)
                         ELSE missed[Data] \/ (open /\ v # conf[Data])
  <2>1. missed \in [Setting -> BOOLEAN]
    BY DEF IInv, TypeOK
  <2>2. missed' = [missed EXCEPT ![Data] =
           IF open /\ apn THEN Overtakes(Data, v)
                          ELSE missed[Data] \/ (open /\ v # conf[Data])]
    BY DEF UpdateNetworkAvailability
  <2>3. open \in BOOLEAN
    BY DEF IInv, TypeOK
  <2> QED
    BY <1>2, <2>1, <2>2, <2>3 DEF Overtakes
<1>6. TypeOK'
  <2>1. update' \subseteq Setting
    BY <1>2, <1>4
  <2>2. changes' \in 0..MaxChanges
    BY <1>1 DEF IInv, TypeOK
  <2> QED
    BY <1>1, <1>3, <1>5, <2>1, <2>2 DEF IInv, TypeOK
<1>7. Covered'
  <2> SUFFICES ASSUME open', modem'.up, NEW s \in Setting, ~missed'[s]
               PROVE  Underway(s)'
    BY DEF Covered
  <2>1. CASE s = Data /\ apn
    BY <1>1, <1>4, <2>1 DEF Underway
  <2>2. CASE ~(s = Data /\ apn)
    <3>1. ~missed[s] /\ conf'[s] = conf[s]
      BY <1>1, <1>3, <1>5, <2>2
    <3>2. Underway(s)
      BY <1>1, <3>1 DEF IInv, Covered
    <3> QED
      BY <1>1, <3>1, <3>2 DEF Underway
  <2> QED
    BY <2>1, <2>2
<1>8. HeldIsCurrent'
  <2> SUFFICES ASSUME NEW s \in Setting, reinit'.held = s, ~missed'[s]
               PROVE  reinit'.val = conf'[s]
    BY DEF HeldIsCurrent
  <2>1. CASE s = Data /\ open /\ apn
    BY <1>1, <1>3, <1>5, <2>1 DEF Overtakes
  <2>2. CASE ~(s = Data /\ open /\ apn)
    <3>1. open
      BY <1>1, UnsetIsNoSetting DEF IInv, QuietBefore, Idle
    <3>2. ~missed[s] /\ conf'[s] = conf[s]
      BY <1>3, <1>5, <2>2, <3>1
    <3> QED
      BY <1>1, <3>2 DEF IInv, HeldIsCurrent
  <2> QED
    BY <2>1, <2>2
<1>9. HeldHasValue' /\ QuietBefore'
  BY <1>1, <1>4 DEF IInv, HeldHasValue, QuietBefore
<1> QED
  BY <1>6, <1>7, <1>8, <1>9 DEF IInv

\* A change's message takes the place of the need to send it.
LEMMA UpdateSendsInv ==
    ASSUME IInv, NEW s \in Setting, UpdateSends(s)
    PROVE  IInv'
<1> DEFINE m == [type |-> "setting", of |-> s, val |-> conf[s]]
<1>1. /\ update' = update \ {s} /\ s \in update /\ queue' = Append(queue, m)
      /\ UNCHANGED <<conf, open, agps, buffered, reinit, modem, missed, server,
                     changes, restarts>>
  BY DEF UpdateSends
<1>2. m \in Msg /\ \A t \in Setting : Tells(m, t) <=> t = s
  BY MsgTypes DEF Tells, IInv, TypeOK
<1>3. m.val = conf[s] /\ \A t \in Setting : conf[t] \in Value
  BY DEF IInv, TypeOK
<1> HIDE DEF m
<1>4. queue \in Seq(Msg)
  BY DEF IInv, TypeOK
<1>5. TypeOK'
  BY <1>1, <1>2, <1>4, AppendKeeps DEF IInv, TypeOK
<1>6. Covered'
  <2> SUFFICES ASSUME open', modem'.up, NEW t \in Setting, ~missed'[t]
               PROVE  Underway(t)'
    BY DEF Covered
  <2>1. CASE t = s
    <3>1. Told(queue', t, conf'[t])
      BY <1>1, <1>2, <1>3, <1>4, <2>1, AppendKeeps
    <3> QED
      BY <3>1 DEF Underway
  <2>2. CASE t # s
    <3>1. Underway(t)
      BY <1>1 DEF IInv, Covered
    <3> QED
      BY <1>1, <1>2, <1>3, <1>4, <2>2, <3>1, AppendKeeps DEF Underway
  <2> QED
    BY <2>1, <2>2
<1>7. HeldIsCurrent' /\ HeldHasValue'
  BY <1>1 DEF IInv, HeldIsCurrent, HeldHasValue
<1>8. QuietBefore'
  BY <1>1 DEF IInv, QuietBefore
<1> QED
  BY <1>5, <1>6, <1>7, <1>8 DEF IInv

\* loc_eng_init queues a refresh, and that of the AGPS interface the server.
LEMMA InitialiseInv ==
    ASSUME IInv, Initialise \/ InitialiseAgps
    PROVE  IInv'
<1>1. queue \in Seq(Msg)
  BY DEF IInv, TypeOK
<1>2. CASE Initialise
  <2> DEFINE m == [type |-> "init"]
  <2>1. m \in Msg /\ Refreshes(m)
    BY MsgTypes DEF Refreshes
  <2>2. /\ open' = TRUE /\ buffered' = Unset /\ queue' = Append(queue, m)
        /\ UNCHANGED <<conf, agps, update, reinit, modem, missed, server, changes,
                       restarts>>
    BY <1>2 DEF Initialise
  <2> HIDE DEF m
  <2>3. queue' \in Seq(Msg) /\ Announced(queue')
    BY <1>1, <2>1, <2>2, AppendKeeps
  <2>4. TypeOK'
    BY <2>2, <2>3 DEF IInv, TypeOK
  <2>5. Covered'
    BY <2>3 DEF Covered, Underway
  <2>6. HeldIsCurrent' /\ HeldHasValue' /\ QuietBefore'
    BY <2>2 DEF IInv, HeldIsCurrent, HeldHasValue, QuietBefore
  <2> QED
    BY <2>4, <2>5, <2>6 DEF IInv
<1>3. CASE InitialiseAgps
  <2>1. /\ agps' = TRUE /\ queue' = queue \o BufferedServer /\ open
        /\ UNCHANGED <<conf, open, buffered, update, reinit, modem, missed,
                       server, changes, restarts>>
    BY <1>3 DEF InitialiseAgps
  <2>2. buffered \in Server \cup {Unset}
    BY DEF IInv, TypeOK
  <2>3. TypeOK'
    BY <1>1, <2>1, <2>2, BufferedServerKeeps DEF IInv, TypeOK
  <2>4. Covered'
    <3> SUFFICES ASSUME open', modem'.up, NEW t \in Setting, ~missed'[t]
                 PROVE  Underway(t)'
      BY DEF Covered
    <3>1. Underway(t) /\ conf[t] \in Value
      BY <2>1 DEF IInv, Covered, TypeOK
    <3> QED
      BY <1>1, <2>1, <2>2, <3>1, BufferedServerKeeps DEF Underway
  <2>5. HeldIsCurrent' /\ HeldHasValue' /\ QuietBefore'
    BY <2>1 DEF IInv, HeldIsCurrent, HeldHasValue, QuietBefore
  <2> QED
    BY <2>3, <2>4, <2>5 DEF IInv
<1> QED
  BY <1>2, <1>3

\* A server says nothing of the settings.
LEMMA SetServerInv ==
    ASSUME IInv, NEW a \in Server, SetServer(a)
    PROVE  IInv'
<1> DEFINE m == [type |-> "server", val |-> a]
<1>1. m \in Msg /\ \A t \in Setting : ~Tells(m, t)
  BY MsgTypes DEF Tells
<1>2. /\ server' = a /\ changes < MaxChanges /\ changes' = changes + 1
      /\ \/ open /\ queue' = Append(queue, m) /\ buffered' = buffered
         \/ ~open /\ buffered' = a /\ queue' = queue
      /\ UNCHANGED <<conf, open, agps, update, reinit, modem, missed, restarts>>
  BY DEF SetServer, Framework
<1> HIDE DEF m
<1>3. queue \in Seq(Msg)
  BY DEF IInv, TypeOK
<1>4. queue' \in Seq(Msg)
  BY <1>1, <1>2, <1>3, AppendKeeps
<1>5. TypeOK'
  <2>1. changes' \in 0..MaxChanges
    BY <1>2, SettingsAssumption DEF IInv, TypeOK
  <2> QED
    BY <1>2, <1>4, <2>1 DEF IInv, TypeOK
<1>6. Covered'
  <2> SUFFICES ASSUME open', modem'.up, NEW t \in Setting, ~missed'[t]
               PROVE  Underway(t)'
    BY DEF Covered
  <2>1. Underway(t) /\ conf[t] \in Value
    BY <1>2 DEF IInv, Covered, TypeOK
  <2> QED
    BY <1>1, <1>2, <1>3, <2>1, AppendKeeps DEF Underway
<1>7. HeldIsCurrent' /\ HeldHasValue' /\ QuietBefore'
  BY <1>2 DEF IInv, HeldIsCurrent, HeldHasValue, QuietBefore
<1> QED
  BY <1>5, <1>6, <1>7 DEF IInv

\* What the deferred thread hands to the modem.
LEMMA HandleSettingInv ==
    ASSUME IInv, HandleSetting
    PROVE  IInv'
<1> DEFINE m == Head(queue)
<1>1. /\ queue # <<>> /\ m.type = "setting" /\ queue' = Tail(queue)
      /\ modem' = IF modem.up THEN [modem EXCEPT !.val[m.of] = m.val] ELSE modem
      /\ UNCHANGED <<conf, open, agps, buffered, update, reinit, missed, server,
                     changes, restarts>>
  BY DEF HandleSetting, Applied, Receives
<1>2. queue \in Seq(Msg) /\ m \in Msg /\ queue' \in Seq(Msg)
  BY <1>1, TailKeeps DEF IInv, TypeOK
<1>3. ~Refreshes(m) /\ m.of \in Setting /\ m.val \in Value
  BY <1>1, <1>2, SettingMsg DEF Refreshes
<1> HIDE DEF m
<1>4. /\ modem' \in [up : BOOLEAN, val : [Setting -> Value \cup {Unset}],
                     server : Server \cup {Unset}]
      /\ modem'.up = modem.up
      /\ modem.up => /\ modem'.val[m.of] = m.val
                     /\ \A t \in Setting : t # m.of => modem'.val[t] = modem.val[t]
  <2>1. modem \in [up : BOOLEAN, val : [Setting -> Value \cup {Unset}],
                   server : Server \cup {Unset}]
    BY DEF IInv, TypeOK
  <2>2. CASE ~modem.up
    BY <1>1, <2>1, <2>2
  <2>3. CASE modem.up
    <3>1. modem' = [modem EXCEPT !.val = [modem.val EXCEPT ![m.of] = m.val]]
      BY <1>1, <2>1, <2>3
    <3>2. modem.val \in [Setting -> Value \cup {Unset}]
      BY <2>1
    <3>3. modem'.val = [modem.val EXCEPT ![m.of] = m.val] /\ modem'.up = modem.up
      BY <2>1, <3>1
    <3>4. modem'.val \in [Setting -> Value \cup {Unset}]
      BY <1>3, <3>2, <3>3
    <3>5. modem' \in [up : BOOLEAN, val : [Setting -> Value \cup {Unset}],
                      server : Server \cup {Unset}]
      BY <2>1, <3>1, <3>3, <3>4
    <3> QED
      BY <1>3, <3>2, <3>3, <3>5
  <2> QED
    BY <2>2, <2>3
<1>5. TypeOK'
  BY <1>1, <1>2, <1>4 DEF IInv, TypeOK
<1>6. Covered'
  <2> SUFFICES ASSUME open', modem'.up, NEW t \in Setting, ~missed'[t]
               PROVE  Underway(t)'
    BY DEF Covered
  <2>1. Underway(t) /\ conf[t] \in Value /\ modem.up
    BY <1>1, <1>4 DEF IInv, Covered, TypeOK
  <2>2. CASE Announced(queue) \/ t \in reinit.todo \/ t \in update \/ reinit.held = t
    BY <1>1, <1>2, <1>3, <2>2, TailKeeps DEF Underway, m
  <2>3. CASE Told(queue, t, conf[t])
    <3>1. \/ Told(queue', t, conf[t])
          \/ Tells(m, t) /\ m.val = conf[t] /\ Untold(queue', t)
      BY <1>1, <1>2, <2>1, <2>3, TailKeeps DEF m
    <3> QED
      BY <1>1, <1>4, <2>1, <3>1 DEF Underway, Tells
  <2>4. CASE Untold(queue, t) /\ modem.val[t] = conf[t]
    <3>1. ~Tells(m, t) /\ Untold(queue', t)
      BY <1>1, <1>2, <2>4, TailKeeps DEF m
    <3> QED
      BY <1>1, <1>4, <2>1, <2>4, <3>1 DEF Underway, Tells
  <2> QED
    BY <2>1, <2>2, <2>3, <2>4 DEF Underway
<1>7. HeldIsCurrent' /\ HeldHasValue'
  BY <1>1 DEF IInv, HeldIsCurrent, HeldHasValue
<1>8. QuietBefore'
  BY <1>1 DEF IInv, QuietBefore
<1> QED
  BY <1>5, <1>6, <1>7, <1>8 DEF IInv

LEMMA HandleServerInv ==
    ASSUME IInv, HandleServer
    PROVE  IInv'
<1> DEFINE m == Head(queue)
<1>1. /\ queue # <<>> /\ m.type = "server" /\ queue' = Tail(queue)
      /\ modem' = IF modem.up THEN [modem EXCEPT !.server = m.val] ELSE modem
      /\ UNCHANGED <<conf, open, agps, buffered, update, reinit, missed, server,
                     changes, restarts>>
  BY DEF HandleServer, Receives
<1>2. queue \in Seq(Msg) /\ m \in Msg /\ queue' \in Seq(Msg)
  BY <1>1, TailKeeps DEF IInv, TypeOK
<1>3. ~Refreshes(m) /\ m.val \in Server /\ \A t \in Setting : ~Tells(m, t)
  BY <1>1, <1>2, ServerMsg DEF Refreshes, Tells
<1>4. /\ modem' \in [up : BOOLEAN, val : [Setting -> Value \cup {Unset}],
                     server : Server \cup {Unset}]
      /\ modem'.up = modem.up /\ modem'.val = modem.val
  <2>1. modem \in [up : BOOLEAN, val : [Setting -> Value \cup {Unset}],
                   server : Server \cup {Unset}]
    BY DEF IInv, TypeOK
  <2> QED
    BY <1>1, <1>3, <2>1
<1>5. TypeOK'
  BY <1>1, <1>2, <1>4 DEF IInv, TypeOK
<1>6. Covered'
  <2> SUFFICES ASSUME open', modem'.up, NEW t \in Setting, ~missed'[t]
               PROVE  Underway(t)'
    BY DEF Covered
  <2>1. Underway(t) /\ conf[t] \in Value
    BY <1>1, <1>4 DEF IInv, Covered, TypeOK
  <2>2. /\ Announced(queue) => Announced(queue')
        /\ Untold(queue, t) => Untold(queue', t)
        /\ Told(queue, t, conf[t]) => Told(queue', t, conf[t])
    BY <1>1, <1>2, <1>3, <2>1, TailKeeps
  <2> QED
    BY <1>1, <1>4, <2>1, <2>2 DEF Underway
<1>7. HeldIsCurrent' /\ HeldHasValue'
  BY <1>1 DEF IInv, HeldIsCurrent, HeldHasValue
<1>8. QuietBefore'
  BY <1>1 DEF IInv, QuietBefore
<1> QED
  BY <1>5, <1>6, <1>7, <1>8 DEF IInv

\* A refresh goes from the queue into loc_eng_reinit.
LEMMA HandleRefreshInv ==
    ASSUME IInv, HandleRefresh
    PROVE  IInv'
<1>1. /\ queue # <<>> /\ queue' = Tail(queue)
      /\ reinit' = [Idle EXCEPT !.on = TRUE, !.todo = Setting,
                                !.up = Head(queue).type = "up"]
      /\ UNCHANGED <<conf, open, agps, buffered, update, modem, missed, server,
                     changes, restarts>>
  BY DEF HandleRefresh, Receives
<1>2. /\ reinit'.on /\ reinit'.todo = Setting /\ reinit'.held = Unset
      /\ reinit' \in [on : BOOLEAN, todo : SUBSET Setting, held : Setting \cup {Unset},
                      val : Value \cup {Unset}, up : BOOLEAN]
  BY <1>1 DEF Idle
<1>3. queue' \in Seq(Msg)
  BY <1>1, TailKeeps DEF IInv, TypeOK
<1>4. TypeOK'
  BY <1>1, <1>2, <1>3 DEF IInv, TypeOK
<1>5. Covered'
  BY <1>2 DEF Covered, Underway
<1>6. HeldIsCurrent' /\ HeldHasValue' /\ QuietBefore'
  BY <1>1, <1>2, UnsetIsNoSetting DEF IInv, HeldIsCurrent, HeldHasValue, QuietBefore
<1> QED
  BY <1>4, <1>5, <1>6 DEF IInv

\* loc_eng_reinit reads a setting: what it holds is current.
LEMMA ReinitReadsInv ==
    ASSUME IInv, NEW s \in Setting, ReinitReads(s)
    PROVE  IInv'
<1>1. /\ reinit.on /\ reinit.held = Unset /\ s \in reinit.todo
      /\ reinit' = [reinit EXCEPT !.todo = @ \ {s}, !.held = s, !.val = conf[s]]
      /\ missed' = [missed EXCEPT ![s] = FALSE]
      /\ UNCHANGED <<conf, open, agps, buffered, update, queue, modem, server,
                     changes, restarts>>
  BY DEF ReinitReads
<1>2. conf[s] \in Value
  BY DEF IInv, TypeOK
<1>3. /\ reinit'.on /\ reinit'.todo = reinit.todo \ {s}
      /\ reinit'.held = s /\ reinit'.val = conf[s]
      /\ reinit' \in [on : BOOLEAN, todo : SUBSET Setting, held : Setting \cup {Unset},
                      val : Value \cup {Unset}, up : BOOLEAN]
  BY <1>1, <1>2 DEF IInv, TypeOK
<1>4. /\ missed' \in [Setting -> BOOLEAN]
      /\ \A t \in Setting : t # s => missed'[t] = missed[t]
  BY <1>1 DEF IInv, TypeOK
<1>5. TypeOK'
  BY <1>1, <1>3, <1>4 DEF IInv, TypeOK
<1>6. Covered'
  <2> SUFFICES ASSUME open', modem'.up, NEW t \in Setting, ~missed'[t]
               PROVE  Underway(t)'
    BY DEF Covered
  <2>1. CASE t = s
    BY <1>3, <2>1 DEF Underway
  <2>2. CASE t # s
    <3>1. Underway(t) /\ reinit.held # t
      BY <1>1, <1>4, <2>2, UnsetIsNoSetting DEF IInv, Covered
    <3> QED
      BY <1>1, <1>3, <2>2, <3>1 DEF Underway
  <2> QED
    BY <2>1, <2>2
<1>7. HeldIsCurrent' /\ HeldHasValue'
  BY <1>1, <1>2, <1>3 DEF HeldIsCurrent, HeldHasValue
<1>8. QuietBefore'
  BY <1>1 DEF IInv, QuietBefore, Idle
<1> QED
  BY <1>5, <1>6, <1>7, <1>8 DEF IInv

\* It sends what it holds.
LEMMA ReinitSendsInv ==
    ASSUME IInv, ReinitSends
    PROVE  IInv'
<1> DEFINE s == reinit.held
           m == [type |-> "setting", of |-> reinit.held, val |-> reinit.val]
<1>1. /\ reinit.on /\ s # Unset /\ queue' = Append(queue, m)
      /\ reinit' = [reinit EXCEPT !.held = Unset, !.val = Unset]
      /\ UNCHANGED <<conf, open, agps, buffered, update, modem, missed, server,
                     changes, restarts>>
  BY DEF ReinitSends
<1>2. s \in Setting /\ reinit.val \in Value
  BY <1>1 DEF IInv, TypeOK, HeldHasValue
<1>3. m \in Msg /\ m.val = reinit.val /\ \A t \in Setting : Tells(m, t) <=> t = s
  BY <1>2, MsgTypes DEF Tells
<1>4. /\ reinit'.on /\ reinit'.todo = reinit.todo /\ reinit'.held = Unset
      /\ reinit' \in [on : BOOLEAN, todo : SUBSET Setting, held : Setting \cup {Unset},
                      val : Value \cup {Unset}, up : BOOLEAN]
  BY <1>1 DEF IInv, TypeOK
<1>5. queue \in Seq(Msg) /\ queue' \in Seq(Msg)
  BY <1>1, <1>3, AppendKeeps DEF IInv, TypeOK
<1>6. TypeOK'
  BY <1>1, <1>4, <1>5 DEF IInv, TypeOK
<1> HIDE DEF m
<1>7. Covered'
  <2> SUFFICES ASSUME open', modem'.up, NEW t \in Setting, ~missed'[t]
               PROVE  Underway(t)'
    BY DEF Covered
  <2>1. Underway(t) /\ conf[t] \in Value
    BY <1>1 DEF IInv, Covered, TypeOK
  <2>2. CASE t = s
    <3>1. reinit.val = conf[t]
      BY <1>1, <2>2 DEF IInv, HeldIsCurrent
    <3>2. Told(queue', t, conf[t])
      BY <1>1, <1>3, <1>5, <2>1, <2>2, <3>1, AppendKeeps
    <3> QED
      BY <1>1, <3>2 DEF Underway
  <2>3. CASE t # s
    BY <1>1, <1>3, <1>4, <1>5, <2>1, <2>3, AppendKeeps DEF Underway
  <2> QED
    BY <2>2, <2>3
<1>8. HeldIsCurrent' /\ HeldHasValue' /\ QuietBefore'
  BY <1>1, <1>4, UnsetIsNoSetting
     DEF IInv, HeldIsCurrent, HeldHasValue, QuietBefore, Idle
<1> QED
  BY <1>6, <1>7, <1>8 DEF IInv

LEMMA ReinitEndsInv ==
    ASSUME IInv, ReinitEnds
    PROVE  IInv'
<1>1. /\ reinit.on /\ reinit.held = Unset /\ reinit.todo = {} /\ reinit' = Idle
      /\ queue' = queue \o BufferedServer \/ queue' = queue
      /\ UNCHANGED <<conf, open, agps, buffered, update, modem, missed, server,
                     changes, restarts>>
  BY DEF ReinitEnds
<1>2. queue \in Seq(Msg) /\ buffered \in Server \cup {Unset}
  BY DEF IInv, TypeOK
<1>3. /\ reinit'.todo = {} /\ reinit'.held = Unset
      /\ reinit' \in [on : BOOLEAN, todo : SUBSET Setting, held : Setting \cup {Unset},
                      val : Value \cup {Unset}, up : BOOLEAN]
  BY <1>1 DEF Idle
<1>4. queue' \in Seq(Msg)
  BY <1>1, <1>2, BufferedServerKeeps
<1>5. TypeOK'
  BY <1>1, <1>3, <1>4 DEF IInv, TypeOK
<1>6. Covered'
  <2> SUFFICES ASSUME open', modem'.up, NEW t \in Setting, ~missed'[t]
               PROVE  Underway(t)'
    BY DEF Covered
  <2>1. Underway(t) /\ conf[t] \in Value
    BY <1>1 DEF IInv, Covered, TypeOK
  <2> QED
    BY <1>1, <1>2, <2>1, UnsetIsNoSetting, BufferedServerKeeps DEF Underway
<1>7. HeldIsCurrent' /\ HeldHasValue'
  BY <1>1, <1>3, UnsetIsNoSetting DEF HeldIsCurrent, HeldHasValue
<1>8. QuietBefore'
  BY <1>1 DEF IInv, QuietBefore, Idle
<1> QED
  BY <1>5, <1>6, <1>7, <1>8 DEF IInv

\* A modem that has forgotten its settings is down, and a refresh is queued when
\* it comes back.
LEMMA ModemInv ==
    ASSUME IInv, ModemDies \/ ModemRevives
    PROVE  IInv'
<1>1. CASE ModemDies
  <2>1. /\ modem' = [up |-> FALSE, val |-> [s \in Setting |-> Unset], server |-> Unset]
        /\ restarts < MaxRestarts /\ restarts' = restarts + 1
        /\ UNCHANGED <<conf, open, agps, buffered, update, queue, reinit, missed,
                       server, changes>>
    BY <1>1 DEF ModemDies
  <2>2. /\ ~modem'.up
        /\ modem' \in [up : BOOLEAN, val : [Setting -> Value \cup {Unset}],
                       server : Server \cup {Unset}]
    BY <2>1
  <2>3. restarts' \in 0..MaxRestarts
    BY <2>1, SettingsAssumption DEF IInv, TypeOK
  <2>4. TypeOK'
    BY <2>1, <2>2, <2>3 DEF IInv, TypeOK
  <2>5. Covered'
    BY <2>2 DEF Covered
  <2>6. HeldIsCurrent' /\ HeldHasValue' /\ QuietBefore'
    BY <2>1 DEF IInv, HeldIsCurrent, HeldHasValue, QuietBefore
  <2> QED
    BY <2>4, <2>5, <2>6 DEF IInv
<1>2. CASE ModemRevives
  <2> DEFINE m == [type |-> "up"]
  <2>1. /\ modem' = [modem EXCEPT !.up = TRUE]
        /\ queue' = IF open THEN Append(queue, m) ELSE queue
        /\ UNCHANGED <<conf, open, agps, buffered, update, reinit, missed, server,
                       changes, restarts>>
    BY <1>2 DEF ModemRevives
  <2>2. m \in Msg /\ Refreshes(m)
    BY MsgTypes DEF Refreshes
  <2> HIDE DEF m
  <2>3. /\ queue \in Seq(Msg)
        /\ modem' \in [up : BOOLEAN, val : [Setting -> Value \cup {Unset}],
                       server : Server \cup {Unset}]
    BY <2>1 DEF IInv, TypeOK
  <2>4. queue' \in Seq(Msg) /\ (open => Announced(queue'))
    BY <2>1, <2>2, <2>3, AppendKeeps
  <2>5. TypeOK'
    BY <2>1, <2>3, <2>4 DEF IInv, TypeOK
  <2>6. Covered'
    BY <2>1, <2>4 DEF Covered, Underway
  <2>7. HeldIsCurrent' /\ HeldHasValue' /\ QuietBefore'
    BY <2>1 DEF IInv, HeldIsCurrent, HeldHasValue, QuietBefore
  <2> QED
    BY <2>5, <2>6, <2>7 DEF IInv
<1> QED
  BY <1>1, <1>2

\* The invariant is inductive.
LEMMA NextInv == IInv /\ [Next]_vars => IInv'
<1> SUFFICES ASSUME IInv, [Next]_vars PROVE IInv'
  OBVIOUS
<1>1. CASE \E new \in [Runtime -> Value] : ConfigurationUpdate(new)
  BY <1>1, ConfigurationInv
<1>2. CASE \E v \in Value, apn \in BOOLEAN : UpdateNetworkAvailability(v, apn)
  BY <1>2, AvailabilityInv
<1>3. CASE \E a \in Server : SetServer(a)
  BY <1>3, SetServerInv
<1>4. CASE Sending \/ Initialise \/ InitialiseAgps
  BY <1>4, UpdateSendsInv, InitialiseInv DEF Sending
<1>5. CASE Deferred
  BY <1>5, HandleSettingInv, HandleServerInv, HandleRefreshInv, ReinitSendsInv,
     ReinitEndsInv, ReinitReadsInv DEF Deferred
<1>6. CASE ModemDies \/ ModemRevives
  BY <1>6, ModemInv
<1>7. CASE UNCHANGED vars
  <2>1. TypeOK'
    BY <1>7 DEF IInv, TypeOK, vars
  <2>2. Covered'
    BY <1>7 DEF IInv, Covered, Underway, vars
  <2>3. HeldIsCurrent' /\ HeldHasValue' /\ QuietBefore'
    BY <1>7 DEF IInv, HeldIsCurrent, HeldHasValue, QuietBefore, vars
  <2> QED
    BY <2>1, <2>2, <2>3 DEF IInv
<1> QED
  BY <1>1, <1>2, <1>3, <1>4, <1>5, <1>6, <1>7 DEF Next

\* When nothing is left on its way, what is underway has arrived.
LEMMA QuietUpToDate == IInv => UpToDate
<1> SUFFICES ASSUME IInv, Quiet, NEW s \in Setting, ~missed[s]
             PROVE  modem.val[s] = conf[s]
  BY DEF UpToDate
<1>1. queue = <<>> /\ update = {} /\ reinit.todo = {} /\ reinit.held = Unset
  BY DEF Quiet, IInv, HeldHasValue, Idle
<1>2. Len(queue) = 0
  BY <1>1, EmptySeq
<1>3. ~Announced(queue) /\ ~Told(queue, s, conf[s])
  BY <1>2 DEF Announced, Told
<1>4. Underway(s)
  BY DEF Quiet, IInv, Covered
<1> QED
  BY <1>1, <1>3, <1>4, UnsetIsNoSetting DEF Underway

-----------------------------------------------------------------------------
(* The results.                                                                *)

\* The invariant holds in every reachable state.
THEOREM InvHolds == Spec => []IInv
BY InitInv, NextInv, PTL DEF Spec

\* The variables have their types (loc_eng.cpp 90-137, 1643-1706).
THEOREM TypeCorrect == Spec => []TypeOK
<1>1. IInv => TypeOK
  BY DEF IInv
<1> QED
  BY <1>1, InvHolds, PTL

\* However changes, the initialisation and restarts of the modem interleave with
\* loc_eng_reinit, a quiet system has every setting in the modem that was not
\* overtaken or changed without an APN (loc_eng.cpp 1708-1758, 2571-2680).
THEOREM UpToDateHolds == Spec => []UpToDate
BY InvHolds, QuietUpToDate, PTL

-----------------------------------------------------------------------------
(* The AGPS server: where the last one that was set may be.                    *)

Serves(m) == m.type = "server"

\* q has no message about the server.
NoServer(q) == \A i \in 1..Len(q) : ~Serves(q[i])

\* The last message of q about the server says a.
LastServer(q, a) ==
    \E i \in 1..Len(q) :
        /\ Serves(q[i]) /\ q[i].val = a
        /\ \A j \in 1..Len(q) : j > i => ~Serves(q[j])

\* The last server that was set is on its way or with the modem, or the modem
\* has none; before loc_eng_init it is in the buffer, which loc_eng_init clears.
ServerInv ==
    /\ NothingBuffered /\ (agps => open)
    /\ ~open \/ ~modem.up => modem.server = Unset
    /\ \/ LastServer(queue, server)
       \/ NoServer(queue) /\ modem.server \in {Unset, server}

\* What a message behind q does to what q says of the server.
LEMMA AppendServes ==
    ASSUME NEW q \in Seq(Msg), NEW m \in Msg
    PROVE  /\ ~Serves(m) /\ NoServer(q) => NoServer(Append(q, m))
           /\ \A a : ~Serves(m) /\ LastServer(q, a) => LastServer(Append(q, m), a)
           /\ \A a : Serves(m) /\ m.val = a => LastServer(Append(q, m), a)
<1> DEFINE r == Append(q, m)
<1>1. /\ r \in Seq(Msg) /\ Len(r) = Len(q) + 1 /\ Len(q) \in Nat
      /\ \A i \in 1..Len(q) : r[i] = q[i]
      /\ r[Len(q) + 1] = m
  BY AppendProperties, LenProperties
<1> HIDE DEF r
<1>2. ASSUME ~Serves(m), NoServer(q) PROVE NoServer(r)
  BY <1>1, <1>2 DEF NoServer
<1>3. ASSUME NEW a, ~Serves(m), LastServer(q, a) PROVE LastServer(r, a)
  <2>1. PICK i \in 1..Len(q) :
           /\ Serves(q[i]) /\ q[i].val = a
           /\ \A j \in 1..Len(q) : j > i => ~Serves(q[j])
    BY <1>3 DEF LastServer
  <2>2. i \in 1..Len(r) /\ Serves(r[i]) /\ r[i].val = a
    BY <1>1, <2>1
  <2>3. \A j \in 1..Len(r) : j > i => ~Serves(r[j])
    BY <1>1, <1>3, <2>1
  <2> QED
    BY <2>2, <2>3 DEF LastServer
<1>4. ASSUME NEW a, Serves(m), m.val = a PROVE LastServer(r, a)
  BY <1>1, <1>4 DEF LastServer
<1> QED
  BY <1>2, <1>3, <1>4 DEF r

\* What taking the first message out of q does to what q says of the server.
LEMMA TailServes ==
    ASSUME NEW q \in Seq(Msg), q # <<>>
    PROVE  /\ NoServer(q) => ~Serves(Head(q)) /\ NoServer(Tail(q))
           /\ \A a : LastServer(q, a) =>
                 \/ LastServer(Tail(q), a)
                 \/ Serves(Head(q)) /\ Head(q).val = a /\ NoServer(Tail(q))
<1> DEFINE r == Tail(q)
<1>1. /\ r \in Seq(Msg) /\ Len(r) = Len(q) - 1 /\ Len(q) \in Nat \ {0}
      /\ Head(q) = q[1]
      /\ \A i \in 1..Len(r) : r[i] = q[i + 1]
  BY HeadTailProperties, LenProperties, EmptySeq
<1>2. Len(r) \in Nat
  BY <1>1
<1> HIDE DEF r
<1>3. ASSUME NoServer(q) PROVE ~Serves(Head(q)) /\ NoServer(r)
  BY <1>1, <1>2, <1>3 DEF NoServer
<1>4. ASSUME NEW a, LastServer(q, a)
      PROVE  LastServer(r, a) \/ (Serves(Head(q)) /\ Head(q).val = a /\ NoServer(r))
  <2>1. PICK i \in 1..Len(q) :
           /\ Serves(q[i]) /\ q[i].val = a
           /\ \A j \in 1..Len(q) : j > i => ~Serves(q[j])
    BY <1>4 DEF LastServer
  <2>2. CASE i = 1
    BY <1>1, <1>2, <2>1, <2>2 DEF NoServer
  <2>3. CASE i # 1
    <3>1. i - 1 \in 1..Len(r) /\ r[i - 1] = q[i]
      BY <1>1, <1>2, <2>1, <2>3
    <3>2. \A j \in 1..Len(r) : j > i - 1 => ~Serves(r[j])
      BY <1>1, <1>2, <2>1
    <3> QED
      BY <2>1, <3>1, <3>2 DEF LastServer
  <2> QED
    BY <2>2, <2>3
<1> QED
  BY <1>3, <1>4 DEF r

\* A step that leaves server, buffer and modem alone, and sends or takes
\* no server.
LEMMA ServerUnchanged ==
    ASSUME ServerInv, UNCHANGED <<open, agps, buffered, server, modem.server>>,
           ~modem'.up => ~modem.up \/ modem'.server = Unset,
           NoServer(queue) => NoServer(queue'),
           LastServer(queue, server) => LastServer(queue', server)
    PROVE  ServerInv'
BY DEF ServerInv, NothingBuffered

\* loc_eng_reinit and the AGPS interface find the buffer empty, so they send no
\* server.
LEMMA BufferSendsNothing ==
    ASSUME IInv, ServerInv, open PROVE queue \o BufferedServer = queue
<1>1. BufferedServer = <<>>
  BY DEF ServerInv, NothingBuffered, BufferedServer
<1> QED
  BY <1>1, ConcatEmptySeq DEF IInv, TypeOK

\* The framework's thread.
LEMMA FrameworkServer ==
    ASSUME IInv, ServerInv,
           \/ \E new \in [Runtime -> Value] : ConfigurationUpdate(new)
           \/ \E v \in Value, apn \in BOOLEAN : UpdateNetworkAvailability(v, apn)
           \/ \E a \in Server : SetServer(a)
           \/ Sending \/ Initialise \/ InitialiseAgps
    PROVE  ServerInv'
<1>0. queue \in Seq(Msg)
  BY DEF IInv, TypeOK
<1>1. CASE \/ \E new \in [Runtime -> Value] : ConfigurationUpdate(new)
           \/ \E v \in Value, apn \in BOOLEAN : UpdateNetworkAvailability(v, apn)
  BY <1>1, ServerUnchanged DEF ConfigurationUpdate, UpdateNetworkAvailability
<1>2. ASSUME NEW a \in Server, SetServer(a) PROVE ServerInv'
  <2>1. CASE open
    <3> DEFINE m == [type |-> "server", val |-> a]
    <3>1. m \in Msg /\ Serves(m) /\ m.val = a
      BY MsgTypes DEF Serves
    <3>2. queue' = Append(queue, m) /\ server' = a /\ UNCHANGED <<open, agps, buffered, modem>>
      BY <1>2, <2>1 DEF SetServer
    <3> HIDE DEF m
    <3>3. LastServer(queue', server')
      BY <1>0, <3>1, <3>2, AppendServes
    <3> QED
      BY <2>1, <3>2, <3>3 DEF ServerInv, NothingBuffered
  <2>2. CASE ~open
    <3>1. queue' = <<>> /\ UNCHANGED <<open, agps, modem>>
      BY <1>2, <2>2 DEF SetServer, IInv, QuietBefore
    <3>2. NoServer(queue')
      BY <3>1 DEF NoServer
    <3> QED
      BY <2>2, <3>1, <3>2 DEF ServerInv, NothingBuffered
  <2> QED
    BY <2>1, <2>2
<1>3. ASSUME NEW s \in Setting, UpdateSends(s) PROVE ServerInv'
  <2> DEFINE m == [type |-> "setting", of |-> s, val |-> conf[s]]
  <2>1. m \in Msg /\ ~Serves(m)
    BY MsgTypes DEF Serves, IInv, TypeOK
  <2>2. queue' = Append(queue, m) /\ UNCHANGED <<open, agps, buffered, server, modem>>
    BY <1>3 DEF UpdateSends
  <2> HIDE DEF m
  <2> QED
    BY <1>0, <2>1, <2>2, AppendServes, ServerUnchanged
<1>4. CASE Initialise
  <2> DEFINE m == [type |-> "init"]
  <2>1. m \in Msg /\ ~Serves(m)
    BY MsgTypes DEF Serves
  <2>2. /\ queue' = Append(queue, m) /\ open' /\ buffered' = Unset
        /\ UNCHANGED <<agps, server, modem>>
    BY <1>4 DEF Initialise
  <2> HIDE DEF m
  <2>3. \/ LastServer(queue', server')
        \/ NoServer(queue') /\ modem'.server \in {Unset, server'}
    BY <1>0, <2>1, <2>2, AppendServes DEF ServerInv
  <2> QED
    BY <2>2, <2>3 DEF ServerInv, NothingBuffered
<1>5. CASE InitialiseAgps
  <2>1. /\ open /\ queue' = queue \o BufferedServer
        /\ UNCHANGED <<open, buffered, server, modem>>
    BY <1>5 DEF InitialiseAgps
  <2>2. queue' = queue
    BY <2>1, BufferSendsNothing
  <2> QED
    BY <2>1, <2>2 DEF ServerInv, NothingBuffered
<1> QED
  BY <1>1, <1>2, <1>3, <1>4, <1>5 DEF Sending

\* The deferred thread and the modem.
LEMMA DeferredServer ==
    ASSUME IInv, ServerInv, Deferred \/ ModemDies \/ ModemRevives
    PROVE  ServerInv'
<1>0. /\ queue \in Seq(Msg) /\ (reinit.on => open)
      /\ modem \in [up : BOOLEAN, val : [Setting -> Value \cup {Unset}],
                    server : Server \cup {Unset}]
  BY DEF IInv, TypeOK, QuietBefore, Idle
<1>1. CASE HandleSetting
  <2>1. /\ queue # <<>> /\ queue' = Tail(queue) /\ ~Serves(Head(queue))
        /\ UNCHANGED <<open, agps, buffered, server>>
    BY <1>1 DEF HandleSetting, Receives, Serves
  <2>2. modem'.server = modem.server /\ modem'.up = modem.up
    BY <1>0, <1>1 DEF HandleSetting, Applied
  <2> QED
    BY <1>0, <2>1, <2>2, TailServes, ServerUnchanged
<1>2. CASE HandleServer
  <2>1. /\ queue # <<>> /\ queue' = Tail(queue) /\ Serves(Head(queue))
        /\ modem' = IF modem.up THEN [modem EXCEPT !.server = Head(queue).val] ELSE modem
        /\ UNCHANGED <<open, agps, buffered, server>>
    BY <1>2 DEF HandleServer, Receives, Serves
  <2>2. LastServer(queue, server)
    BY <1>0, <2>1, TailServes DEF ServerInv
  <2>3. open
    BY <2>1 DEF IInv, QuietBefore
  <2>4. CASE LastServer(queue', server)
    BY <2>1, <2>3, <2>4 DEF ServerInv, NothingBuffered
  <2>5. CASE Head(queue).val = server /\ NoServer(queue')
    <3>1. modem'.server \in {Unset, server}
      <4>1. CASE modem.up
        BY <1>0, <2>1, <2>5, <4>1
      <4>2. CASE ~modem.up
        BY <2>1, <4>2 DEF ServerInv
      <4> QED
        BY <4>1, <4>2
    <3> QED
      BY <2>1, <2>3, <2>5, <3>1 DEF ServerInv, NothingBuffered
  <2> QED
    BY <1>0, <2>1, <2>2, <2>4, <2>5, TailServes
<1>3. CASE HandleRefresh
  <2>1. /\ queue # <<>> /\ queue' = Tail(queue) /\ ~Serves(Head(queue))
        /\ UNCHANGED <<open, agps, buffered, server, modem>>
    BY <1>3 DEF HandleRefresh, Receives, Serves
  <2> QED
    BY <1>0, <2>1, TailServes, ServerUnchanged
<1>4. ASSUME NEW s \in Setting, ReinitReads(s) PROVE ServerInv'
  BY <1>4, ServerUnchanged DEF ReinitReads
<1>5. CASE ReinitSends
  <2> DEFINE m == [type |-> "setting", of |-> reinit.held, val |-> reinit.val]
  <2>1. m \in Msg /\ ~Serves(m)
    BY <1>5, MsgTypes DEF ReinitSends, Serves, IInv, TypeOK, HeldHasValue
  <2>2. queue' = Append(queue, m) /\ UNCHANGED <<open, agps, buffered, server, modem>>
    BY <1>5 DEF ReinitSends
  <2> HIDE DEF m
  <2> QED
    BY <1>0, <2>1, <2>2, AppendServes, ServerUnchanged
<1>6. CASE ReinitEnds
  <2>1. queue' = queue /\ UNCHANGED <<open, agps, buffered, server, modem>>
    BY <1>0, <1>6, BufferSendsNothing DEF ReinitEnds
  <2> QED
    BY <2>1, ServerUnchanged
<1>7. CASE ModemDies
  <2>1. modem'.server = Unset /\ UNCHANGED <<open, agps, buffered, server, queue>>
    BY <1>7 DEF ModemDies
  <2> QED
    BY <2>1 DEF ServerInv, NothingBuffered
<1>8. CASE ModemRevives
  <2> DEFINE m == [type |-> "up"]
  <2>1. m \in Msg /\ ~Serves(m)
    BY MsgTypes DEF Serves
  <2>2. /\ queue' \in {queue, Append(queue, m)} /\ UNCHANGED <<open, agps, buffered, server>>
        /\ modem'.server = modem.server /\ modem'.up
    BY <1>0, <1>8 DEF ModemRevives
  <2> HIDE DEF m
  <2> QED
    BY <1>0, <2>1, <2>2, AppendServes, ServerUnchanged
<1> QED
  BY <1>1, <1>2, <1>3, <1>4, <1>5, <1>6, <1>7, <1>8 DEF Deferred

\* The last server set stays the only one the modem can have.
THEOREM ServerInvHolds == Spec => []ServerInv
<1>1. Init => ServerInv
  BY DEF Init, ServerInv, NothingBuffered, NoServer
<1>2. IInv /\ ServerInv /\ [Next]_vars => ServerInv'
  <2>1. ASSUME ServerInv, UNCHANGED vars PROVE ServerInv'
    BY <2>1, ServerUnchanged DEF vars
  <2> QED
    BY <2>1, FrameworkServer, DeferredServer DEF Next
<1> QED
  BY <1>1, <1>2, InvHolds, PTL DEF Spec

\* However the framework's changes of the server interleave with restarts, a
\* quiet system has the last one in the modem, or none (loc_eng_set_server_proxy).
THEOREM ServerNotStaleHolds == Spec => []ServerNotStale
<1>1. ServerInv => ServerNotStale
  <2> SUFFICES ASSUME ServerInv, Quiet PROVE modem.server \in {Unset, server}
    BY DEF ServerNotStale
  <2>1. Len(queue) = 0
    BY EmptySeq DEF Quiet
  <2> QED
    BY <2>1 DEF ServerInv, LastServer
<1> QED
  BY <1>1, ServerInvHolds, PTL

\* Once the HAL is initialised the buffer of the server is empty for good, so
\* loc_eng_agps_reinit has nothing to send.
THEOREM NothingBufferedHolds == Spec => []NothingBuffered
<1>1. ServerInv => NothingBuffered
  BY DEF ServerInv
<1> QED
  BY <1>1, ServerInvHolds, PTL

-----------------------------------------------------------------------------
\* A step puts one message into the queue, takes the oldest out, or leaves it.
LEMMA StepUsesFifo ==
    IInv /\ ServerInv /\ [Next]_vars => [Task!Next]_<<queue, FALSE>>
<1> SUFFICES ASSUME IInv, ServerInv, [Next]_vars
             PROVE  \/ \E m \in Msg : queue' = Append(queue, m)
                    \/ queue # <<>> /\ queue' = Tail(queue)
                    \/ UNCHANGED queue
  BY DEF Task!Next, Task!Put, Task!Take
<1>1. ASSUME NEW s \in Setting, UpdateSends(s) \/ ReinitSends
      PROVE  \E m \in Msg : queue' = Append(queue, m)
  <2>1. CASE UpdateSends(s)
    BY <2>1, MsgTypes DEF UpdateSends, IInv, TypeOK
  <2>2. CASE ReinitSends
    BY <2>2, MsgTypes DEF ReinitSends, IInv, TypeOK, HeldHasValue
  <2> QED
    BY <1>1, <2>1, <2>2
<1>2. CASE Initialise \/ ModemRevives \/ \E a \in Server : SetServer(a)
  BY <1>2, MsgTypes DEF Initialise, ModemRevives, SetServer
<1>3. CASE InitialiseAgps \/ ReinitEnds
  <2>1. open
    BY <1>3 DEF InitialiseAgps, ReinitEnds, IInv, QuietBefore, Idle
  <2> QED
    BY <1>3, <2>1, BufferSendsNothing DEF InitialiseAgps, ReinitEnds
<1>4. CASE HandleSetting \/ HandleServer \/ HandleRefresh
  BY <1>4 DEF HandleSetting, HandleServer, HandleRefresh, Receives
<1>5. ASSUME \/ \E new \in [Runtime -> Value] : ConfigurationUpdate(new)
             \/ \E v \in Value, apn \in BOOLEAN : UpdateNetworkAvailability(v, apn)
             \/ \E s \in Setting : ReinitReads(s)
             \/ ModemDies \/ UNCHANGED vars
      PROVE  UNCHANGED queue
  BY <1>5 DEF ConfigurationUpdate, UpdateNetworkAvailability, ReinitReads, ModemDies, vars
<1> QED
  BY <1>1, <1>2, <1>3, <1>4, <1>5 DEF Next, Deferred, Sending, Setting

\* What the configuration asks of its queue is what the message task is proved to
\* give (MsgTask.cpp): a step never puts in two messages, since the buffer of
\* the server is empty.
THEOREM UsesFifoHolds == Spec => UsesFifo
<1>1. Init => Task!Init
  BY DEF Init, Task!Init
<1> QED
  BY <1>1, StepUsesFifo, InvHolds, ServerInvHolds, PTL DEF Spec, UsesFifo, Task!Spec

=============================================================================
