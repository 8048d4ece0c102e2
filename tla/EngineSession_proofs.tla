------------------------- MODULE EngineSession_proofs -------------------------
(* Safety of EngineSession, for any aiding data and any number of reports that *)
(* wait to be handled.                                                         *)
EXTENDS EngineSession, TLAPS

\* Each part is preserved by every step given the types, and none needs another.
IInv == TypeOK /\ EndMeansOver /\ MutedOnlyWhileOn /\ FixOfSession

\* A modem that comes up is heard of as up.
Announced == \E i \in DOMAIN reports : reports[i] = "UP"

-----------------------------------------------------------------------------
(* The queue of reports.                                                       *)

\* A report is queued behind those that wait: an UP among them stays.
LEMMA SendsKeeps ==
    ASSUME TypeOK, NEW r \in Report, Sends(r)
    PROVE  /\ reports' \in Seq(Report)
           /\ Announced => Announced'
           /\ r = "UP" => Announced'
<1>1. reports \in Seq(Report)
  BY DEF TypeOK
<1>2. reports' = Append(reports, r)
  BY DEF Sends
<1>3. reports' \in Seq(Report) /\ Len(reports') = Len(reports) + 1
  BY <1>1, <1>2
<1>4. \A i \in DOMAIN reports : i \in DOMAIN reports' /\ reports'[i] = reports[i]
  BY <1>1, <1>2, <1>3
<1>5. Len(reports') \in DOMAIN reports' /\ reports'[Len(reports')] = r
  BY <1>1, <1>2, <1>3
<1> QED
  BY <1>3, <1>4, <1>5 DEF Announced

\* Handling a report takes it out, and no UP but itself.
LEMMA ReceivesKeeps ==
    ASSUME TypeOK, NEW R \in SUBSET Report, Receives(R)
    PROVE  /\ reports' \in Seq(Report)
           /\ Head(reports) \in R
           /\ "UP" \notin R /\ Announced => Announced'
<1>1. reports \in Seq(Report) /\ reports # <<>>
  BY DEF TypeOK, Receives
<1>2. reports' = Tail(reports) /\ Head(reports) \in R
  BY DEF Receives
<1>3. reports' \in Seq(Report) /\ Len(reports') = Len(reports) - 1
  BY <1>1, <1>2
<1>4. ASSUME "UP" \notin R, Announced
      PROVE  Announced'
  <2>1. PICK i \in DOMAIN reports : reports[i] = "UP"
    BY <1>4 DEF Announced
  <2>2. i # 1
    BY <1>1, <1>2, <1>4, <2>1
  <2>3. i - 1 \in DOMAIN reports' /\ reports'[i - 1] = "UP"
    BY <1>1, <1>2, <1>3, <2>1, <2>2
  <2> QED
    BY <2>3 DEF Announced
<1> QED
  BY <1>2, <1>3, <1>4

\* FixOfSession speaks of the reports through Announced only.
LEMMA ResumesAnnounced ==
    /\ FixOfSession <=>
         (inSession /\ started = "success" /\ modem.recurrence = "periodic" =>
            modem.fixing \/ ~modem.up \/ Announced)
    /\ FixOfSession' <=>
         (inSession' /\ started' = "success" /\ modem'.recurrence = "periodic" =>
            modem'.fixing \/ ~modem'.up \/ Announced')
BY DEF FixOfSession, Announced

-----------------------------------------------------------------------------
(* The status of the engine and of the session.                                *)

\* A status keeps the types of what it changes, keeps muting to an engine that
\* is on or a session that is open, and tells no end of an open session.
LEMMA ReportStatusKeeps ==
    ASSUME TypeOK, MutedOnlyWhileOn, EndMeansOver,
           NEW st \in SessionStatus \cup EngineStatus, ReportStatus(st)
    PROVE  /\ mute' \in {"NONE", "WAIT", "IN_SESSION"}
           /\ engine' \in EngineStatus \cup {"NONE"}
           /\ fixSession' \in SessionStatus \cup {"NONE"}
           /\ told' \in SessionStatus \cup {"NONE"}
           /\ MutedOnlyWhileOn'
           /\ told' = "SESSION_END" => ~inSession
<1> USE DEF SessionStatus, EngineStatus
<1>1. /\ mute' = Muted(st)
      /\ engine' = IF st \in EngineStatus THEN st ELSE engine
      /\ fixSession' = IF st \in SessionStatus THEN st ELSE fixSession
      /\ told' = IF Tells(st) THEN st ELSE told
  BY DEF ReportStatus
<1>2. Muted(st) \in {"NONE", "WAIT", "IN_SESSION"}
  BY DEF Muted, TypeOK
<1>3. MutedOnlyWhileOn'
  BY <1>1 DEF Muted, MutedOnlyWhileOn, TypeOK
<1>4. /\ told' \in SessionStatus \cup {"NONE"}
      /\ told' = "SESSION_END" => ~inSession
  BY <1>1 DEF Tells, TypeOK, EndMeansOver
<1> QED
  BY <1>1, <1>2, <1>3, <1>4 DEF TypeOK

-----------------------------------------------------------------------------
(* Initially, and step by step.                                                *)

\* The invariant holds initially.
LEMMA InitInv == Init => IInv
<1> SUFFICES ASSUME Init PROVE IInv
  OBVIOUS
<1>1. modem \in [up : BOOLEAN, fixing : BOOLEAN, mode : Mode, recurrence : Recurrence]
  BY DEF Init, Mode, Recurrence
<1>2. reports \in Seq(Report)
  BY DEF Init
<1>3. TypeOK
  BY <1>1, <1>2 DEF Init, TypeOK, Mode, Recurrence, StartResult
<1>4. EndMeansOver /\ MutedOnlyWhileOn /\ FixOfSession
  BY DEF Init, EndMeansOver, MutedOnlyWhileOn, FixOfSession
<1> QED
  BY <1>3, <1>4 DEF IInv

\* What the framework and the NI handler ask for keeps the invariant.
LEMMA FrameworkInv == IInv /\ Framework => IInv'
<1> SUFFICES ASSUME IInv, Framework PROVE IInv'
  OBVIOUS
<1> USE DEF IInv, EndMeansOver, MutedOnlyWhileOn, Mode, Recurrence, StartResult,
            SessionStatus, states, session, ghosts
<1>1. CASE Start
  <2>1. PICK res \in StartResult :
          /\ StartFix(res)
          /\ IF res = "refused"
               THEN UNCHANGED <<inSession, told>>
               ELSE inSession' = TRUE /\ told' = "SESSION_BEGIN"
    BY <1>1 DEF Start
  <2>2. /\ modem' \in [up : BOOLEAN, fixing : BOOLEAN, mode : Mode,
                         recurrence : Recurrence]
        /\ res = "success" => modem'.fixing
    BY <2>1 DEF StartFix, TypeOK
  <2>3. /\ mode' = mode /\ recurrence' = recurrence
        /\ mute' = mute /\ engine' = engine /\ fixSession' = fixSession
        /\ pending' = pending /\ reports' = reports /\ owed' = owed
        /\ modeGiven' = modeGiven /\ stopFailed' = stopFailed
    BY <1>1 DEF Start
  <2>4. /\ started' \in StartResult /\ (res = "success" <=> started' = "success")
        /\ inSession' \in BOOLEAN /\ told' \in SessionStatus \cup {"NONE"}
        /\ told' = "SESSION_END" => ~inSession'
    BY <2>1 DEF StartFix, TypeOK
  <2>5. TypeOK'
    BY <2>2, <2>3, <2>4, Zenon DEF TypeOK
  <2>6. EndMeansOver' /\ MutedOnlyWhileOn'
    BY <2>3, <2>4
  <2>7. FixOfSession'
    BY <1>1, <2>1, <2>2, <2>4, ResumesAnnounced DEF Start
  <2> QED
    BY <2>5, <2>6, <2>7
<1>2. CASE Stop
  BY <1>2, ResumesAnnounced DEF Stop, StopFix, EndSession, TypeOK, Announced
<1>3. CASE MuteOneSession
  BY <1>3, ResumesAnnounced DEF MuteOneSession, TypeOK, Announced
<1>4. ASSUME NEW rec \in Recurrence, SetPositionMode(rec) PROVE IInv'
  BY <1>4, ResumesAnnounced DEF SetPositionMode, ModeOf, TypeOK, Announced
<1>5. ASSUME NEW f \in SUBSET AidingData, DeleteAidingData(f) PROVE IInv'
  BY <1>5, ResumesAnnounced DEF DeleteAidingData, TypeOK, Announced
<1> QED
  BY <1>1, <1>2, <1>3, <1>4, <1>5 DEF Framework

\* What the modem does keeps the invariant: a modem that comes up announces it.
LEMMA ModemInv == IInv /\ Modem => IInv'
<1> SUFFICES ASSUME IInv, Modem PROVE IInv'
  OBVIOUS
<1> USE DEF IInv, EndMeansOver, MutedOnlyWhileOn, Mode, Report, FixStatus,
            SessionStatus, EngineStatus, states, session, ghosts, modemUnchanged
<1>1. ASSUME NEW st \in SessionStatus \cup EngineStatus, ModemReportsStatus(st)
      PROVE  IInv'
  BY <1>1, SendsKeeps, ResumesAnnounced DEF ModemReportsStatus, TypeOK
<1>2. ASSUME NEW st \in FixStatus, ModemReportsFix(st)
      PROVE  IInv'
  <2>1. /\ modem' \in [up : BOOLEAN, fixing : BOOLEAN, mode : Mode,
                         recurrence : Recurrence]
        /\ modem'.recurrence = modem.recurrence
        /\ modem.recurrence = "periodic" => modem' = modem
    BY <1>2 DEF ModemReportsFix, TypeOK
  <2>2. reports' \in Seq(Report) /\ (Announced => Announced')
    BY <1>2, SendsKeeps DEF ModemReportsFix
  <2>3. TypeOK' /\ EndMeansOver' /\ MutedOnlyWhileOn'
    BY <1>2, <2>1, <2>2 DEF ModemReportsFix, TypeOK
  <2>4. FixOfSession'
    BY <1>2, <2>1, <2>2, ResumesAnnounced DEF ModemReportsFix
  <2> QED
    BY <2>3, <2>4
<1>3. CASE ModemDies
  <2>1. /\ modem' \in [up : BOOLEAN, fixing : BOOLEAN, mode : Mode,
                         recurrence : Recurrence]
        /\ ~modem'.up
    BY <1>3 DEF ModemDies, TypeOK
  <2>2. reports' \in Seq(Report) /\ (Announced => Announced')
    BY <1>3, SendsKeeps DEF ModemDies
  <2>3. TypeOK' /\ EndMeansOver' /\ MutedOnlyWhileOn'
    BY <1>3, <2>1, <2>2 DEF ModemDies, TypeOK
  <2>4. FixOfSession'
    BY <2>1, ResumesAnnounced
  <2> QED
    BY <2>3, <2>4
<1>4. CASE ModemRevives
  <2>1. modem' \in [up : BOOLEAN, fixing : BOOLEAN, mode : Mode, recurrence : Recurrence]
    BY <1>4 DEF ModemRevives, TypeOK
  <2>2. reports' \in Seq(Report) /\ (Announced => Announced')
    BY <1>4, SendsKeeps DEF ModemRevives
  <2>3. TypeOK' /\ EndMeansOver' /\ MutedOnlyWhileOn'
    BY <1>4, <2>1, <2>2 DEF ModemRevives, TypeOK
  <2>4. Announced'
    BY <1>4, SendsKeeps DEF ModemRevives
  <2>5. FixOfSession'
    BY <2>4, ResumesAnnounced
  <2> QED
    BY <2>3, <2>5
<1> QED
  BY <1>1, <1>2, <1>3, <1>4 DEF Modem

\* Handling a status keeps the invariant.
LEMMA HandleStatusInv == IInv /\ (HandleStatus \/ HandleDown) => IInv'
<1> SUFFICES ASSUME IInv, HandleStatus \/ HandleDown PROVE IInv'
  OBVIOUS
<1>1. PICK R \in {SessionStatus \cup EngineStatus, {"DOWN"}},
           st \in SessionStatus \cup EngineStatus : Receives(R) /\ ReportStatus(st)
  BY DEF HandleStatus, HandleDown, Receives, EngineStatus
<1>2. R \in SUBSET Report /\ "UP" \notin R
  BY DEF Report, SessionStatus, EngineStatus
<1>3. reports' \in Seq(Report) /\ (Announced => Announced')
  BY <1>1, <1>2, ReceivesKeeps DEF IInv
<1>4. /\ pending' \subseteq AidingData /\ owed' \subseteq AidingData
      /\ UNCHANGED <<session, modem, started, modeGiven, stopFailed>>
  BY DEF HandleStatus, HandleDown, IInv, TypeOK
<1>5. /\ mute' \in {"NONE", "WAIT", "IN_SESSION"}
      /\ engine' \in EngineStatus \cup {"NONE"}
      /\ fixSession' \in SessionStatus \cup {"NONE"}
      /\ told' \in SessionStatus \cup {"NONE"}
      /\ MutedOnlyWhileOn'
      /\ told' = "SESSION_END" => ~inSession
  BY <1>1, ReportStatusKeeps DEF IInv
<1>6. TypeOK'
  BY <1>3, <1>4, <1>5 DEF IInv, TypeOK, session
<1>7. EndMeansOver'
  BY <1>4, <1>5 DEF EndMeansOver, session
<1>8. FixOfSession'
  BY <1>3, <1>4, ResumesAnnounced DEF IInv, session
<1> QED
  BY <1>5, <1>6, <1>7, <1>8 DEF IInv

\* Handling a position keeps the invariant: it only ever ends a session.
LEMMA HandleFixInv == IInv /\ HandleFix => IInv'
<1> SUFFICES ASSUME IInv, HandleFix PROVE IInv'
  OBVIOUS
<1>1. FixStatus \in SUBSET Report /\ "UP" \notin FixStatus /\ Receives(FixStatus)
  BY DEF HandleFix, Report, FixStatus
<1>2. reports' \in Seq(Report) /\ (Announced => Announced')
  BY <1>1, ReceivesKeeps DEF IInv
<1>3. UNCHANGED <<mute, engine, fixSession, pending, started, told, owed>>
  BY DEF HandleFix, states
<1>4. \/ /\ inSession' = FALSE /\ mode' = "invalid" /\ modeGiven' = FALSE
         /\ UNCHANGED recurrence
         /\ \/ UNCHANGED <<modem, stopFailed>>
            \/ \E ok \in BOOLEAN : StopFix(ok)
      \/ UNCHANGED <<session, modem, modeGiven, stopFailed>>
  BY DEF HandleFix, EndSession
<1>5. /\ modem' \in [up : BOOLEAN, fixing : BOOLEAN, mode : Mode,
                       recurrence : Recurrence]
      /\ stopFailed' \in BOOLEAN
  BY <1>4 DEF IInv, TypeOK, StopFix
<1>6. TypeOK'
  BY <1>2, <1>3, <1>4, <1>5 DEF IInv, TypeOK, session, Mode
<1>7. EndMeansOver' /\ MutedOnlyWhileOn'
  BY <1>3, <1>4 DEF IInv, EndMeansOver, MutedOnlyWhileOn, session
<1>8. FixOfSession'
  BY <1>2, <1>3, <1>4, ResumesAnnounced DEF IInv, session
<1> QED
  BY <1>6, <1>7, <1>8 DEF IInv

\* The recovery from a modem restart keeps the invariant: the UP it takes out
\* is answered with a fix, unless the modem refuses it.
LEMMA HandleUpInv == IInv /\ HandleUp => IInv'
<1> SUFFICES ASSUME IInv, HandleUp PROVE IInv'
  OBVIOUS
<1>1. reports' \in Seq(Report)
  BY ReceivesKeeps DEF HandleUp, IInv, Report
<1>2. /\ mute' = Muted("ENGINE_ON") /\ engine' = "ENGINE_ON"
      /\ UNCHANGED <<fixSession, pending, owed, modeGiven, stopFailed>>
  BY DEF HandleUp
<1>3. /\ mute' \in {"NONE", "WAIT", "IN_SESSION"}
      /\ MutedOnlyWhileOn'
  BY <1>2 DEF Muted, MutedOnlyWhileOn, IInv, TypeOK
<1>4. CASE ~inSession
  <2>1. UNCHANGED <<session, modem, started, told>>
    BY <1>4 DEF HandleUp
  <2>2. TypeOK' /\ EndMeansOver'
    BY <1>1, <1>2, <1>3, <2>1 DEF IInv, TypeOK, EndMeansOver, session, EngineStatus
  <2>3. FixOfSession'
    BY <1>4, <2>1, ResumesAnnounced DEF session
  <2> QED
    BY <1>3, <2>2, <2>3 DEF IInv
<1>5. CASE inSession
  <2>1. PICK res \in StartResult :
          /\ res = "success" => modem.up
          /\ started' = res
          /\ modem' = [modem EXCEPT
                         !.mode = IF modem.up THEN mode ELSE @,
                         !.fixing = @ \/ res = "success",
                         !.recurrence = IF res = "success" THEN recurrence ELSE @]
          /\ mode' = "invalid" /\ UNCHANGED recurrence
          /\ inSession' = (res # "refused")
          /\ told' = IF res = "refused" THEN told ELSE "SESSION_BEGIN"
    BY <1>5 DEF HandleUp
  <2>2. modem' \in [up : BOOLEAN, fixing : BOOLEAN, mode : Mode, recurrence : Recurrence]
        /\ (res = "success" => modem'.fixing)
    BY <2>1 DEF IInv, TypeOK
  <2>3. TypeOK' /\ EndMeansOver'
    BY <1>1, <1>2, <1>3, <2>1, <2>2
       DEF IInv, TypeOK, EndMeansOver, Mode, EngineStatus, SessionStatus
  <2>4. FixOfSession'
    BY <2>1, <2>2, ResumesAnnounced
  <2> QED
    BY <1>3, <2>3, <2>4 DEF IInv
<1> QED
  BY <1>4, <1>5

\* Every step keeps the invariant.
LEMMA NextInv == IInv /\ [Next]_vars => IInv'
<1>1. ASSUME IInv, UNCHANGED vars PROVE IInv'
  BY <1>1 DEF IInv, vars, session, states, ghosts, TypeOK, EndMeansOver,
              MutedOnlyWhileOn, FixOfSession
<1> QED
  BY <1>1, FrameworkInv, ModemInv, HandleStatusInv, HandleFixInv, HandleUpInv DEF Next

-----------------------------------------------------------------------------
\* The invariant holds in every reachable state.
THEOREM InvHolds == Spec => []IInv
BY InitInv, NextInv, PTL DEF Spec

\* The variables keep their types.
THEOREM TypeCorrect == Spec => []TypeOK
<1>1. IInv => TypeOK
  BY DEF IInv
<1> QED
  BY <1>1, InvHolds, PTL

\* The framework never believes that a running session has ended.
THEOREM EndHolds == Spec => []EndMeansOver
<1>1. IInv => EndMeansOver
  BY DEF IInv
<1> QED
  BY <1>1, InvHolds, PTL

\* Positions are withheld only while the engine is on or a session open.
THEOREM MutingHolds == Spec => []MutedOnlyWhileOn
<1>1. IInv => MutedOnlyWhileOn
  BY DEF IInv
<1> QED
  BY <1>1, InvHolds, PTL

\* A report of the modem that is handled ends a session for many positions only
\* if the modem refuses to start it again.
LEMMA KeptBySteps ==
    ASSUME IInv, Next, inSession, recurrence = "periodic"
    PROVE  inSession' \/ UNCHANGED reports \/ started' = "refused"
<1>1. CASE Framework
  <2>1. CASE Start \/ Stop \/ MuteOneSession
    BY <2>1 DEF Start, Stop, MuteOneSession
  <2>2. ASSUME NEW rec \in Recurrence, SetPositionMode(rec) PROVE UNCHANGED reports
    BY <2>2 DEF SetPositionMode
  <2>3. ASSUME NEW f \in SUBSET AidingData \ {{}}, DeleteAidingData(f)
        PROVE  UNCHANGED reports
    BY <2>3 DEF DeleteAidingData
  <2> QED
    BY <1>1, <2>1, <2>2, <2>3 DEF Framework
<1>2. CASE Modem
  BY <1>2 DEF Modem, ModemReportsStatus, ModemReportsFix, ModemDies, ModemRevives,
              modemUnchanged, session
<1>3. CASE HandleStatus \/ HandleDown
  BY <1>3 DEF HandleStatus, HandleDown, session
<1>4. CASE HandleFix
  BY <1>4 DEF HandleFix, session
<1>5. CASE HandleUp
  BY <1>5 DEF HandleUp
<1> QED
  BY <1>1, <1>2, <1>3, <1>4, <1>5 DEF Next

\* A session for many positions survives any number of modem restarts: its fix,
\* and the session itself unless the modem refuses it.
THEOREM ResumesHolds == Spec => SessionResumes
<1>1. IInv /\ Next => FixOfSession'
  <2>1. IInv /\ Next => IInv'
    BY NextInv
  <2> QED
    BY <2>1 DEF IInv
<1>2. IInv /\ [Next]_vars =>
         [/\ FixOfSession'
          /\ inSession /\ recurrence = "periodic" =>
                inSession' \/ UNCHANGED reports \/ started' = "refused"]_vars
  BY <1>1, KeptBySteps
<1> QED
  BY <1>2, InvHolds, PTL DEF Spec, SessionResumes
=============================================================================
