---------------------------- MODULE EngineSession ----------------------------
(***************************************************************************)
(* The fix session of the HAL (gps/libloc_api_50001/loc_eng.cpp and        *)
(* LocEngAdapter): starting and stopping fixes, the status reports to the  *)
(* framework, the muting of one session for a private NI request, the      *)
(* deletion of aiding data, and the recovery from a modem restart.         *)
(*                                                                         *)
(* All of it runs in the deferred thread, one message after the other, and *)
(* each handler is one action here.  The framework's messages do not       *)
(* depend on what else is queued: handling one ahead of the reports that   *)
(* are queued means that it was sent before them.  The modem's reports do  *)
(* depend on what the modem did when it sent them, so they have a queue.   *)
(*                                                                         *)
(* The modem is external: a fix is running or not, and it may report any   *)
(* status at any time.  UlpProxyBase, which passes everything on, is the   *)
(* only ULP proxy here.                                                    *)
(***************************************************************************)
EXTENDS Naturals, Sequences

CONSTANTS
    AidingData,     \* the bits of GpsAidingData
    MaxReports      \* bound: reports of the modem that wait to be handled

ASSUME ReportsAssumption == MaxReports \in Nat

VARIABLES
    inSession,  \* mNavigating
    mode,       \* mFixCriteria.mode: valid, or LOC_POSITION_MODE_INVALID
    recurrence, \* mFixCriteria.recurrence
    mute,       \* mute_session_state
    engine,     \* engine_status
    fixSession, \* fix_session_status
    pending,    \* aiding_data_for_deletion
    modem,      \* the modem
    reports,    \* its reports, oldest first
    started,    \* what the last startFix returned
    told,       \* the last session status that the framework heard
    owed,       \* the aiding data that was to be deleted and was not yet
    modeGiven,  \* the framework has given a mode for the session
    stopFailed  \* the modem refused the last stopFix

session == <<inSession, mode, recurrence>>
states == <<mute, engine, fixSession>>
ghosts == <<started, told, owed, modeGiven, stopFailed>>
vars == <<session, states, pending, modem, reports, ghosts>>

Mode == {"valid", "invalid"}
Recurrence == {"single", "periodic"}
SessionStatus == {"SESSION_BEGIN", "SESSION_END"}
EngineStatus == {"ENGINE_ON", "ENGINE_OFF"}
FixStatus == {"FAILURE", "INTERMEDIATE", "SUCCESS"}
Report == SessionStatus \cup EngineStatus \cup FixStatus \cup {"DOWN", "UP"}

\* startFix: errors that do not keep a session from beginning (the engine is
\* down, the phone offline, an internal error), and the others.
StartResult == {"success", "tolerated", "refused"}

-----------------------------------------------------------------------------
(* What the handlers are built from.                                       *)

\* setInSession(false) forgets the mode, not the recurrence.
EndSession == inSession' = FALSE /\ mode' = "invalid" /\ UNCHANGED recurrence

\* LocApiBase::startFix: a modem that is up may take the request.
StartFix(res) ==
    /\ res = "success" => modem.up
    /\ started' = res
    /\ modem' = IF res = "success"
                  THEN [modem EXCEPT !.fixing = TRUE, !.recurrence = recurrence]
                  ELSE modem

\* LocApiBase::stopFix succeeds or not.
StopFix(ok) ==
    /\ modem' = IF ok THEN [modem EXCEPT !.fixing = FALSE] ELSE modem
    /\ stopFailed' = ~ok

\* Mutant: muting ends with a session only.
Muted_EndOnly(st) ==
    IF mute = "WAIT" /\ st \in {"SESSION_BEGIN", "ENGINE_ON"} THEN "IN_SESSION"
    ELSE IF mute = "IN_SESSION" /\ st = "SESSION_END" THEN "NONE" ELSE mute

\* mute_session_state after a status: WAIT begins to mute with the engine or
\* a session, and muting ends with either.
Muted(st) ==
    LET begun == IF mute = "WAIT" /\ st \in {"SESSION_BEGIN", "ENGINE_ON"}
                   THEN "IN_SESSION" ELSE mute
    IN  IF begun = "IN_SESSION" /\ st \in {"SESSION_END", "ENGINE_OFF"}
          THEN "NONE" ELSE begun

\* Mutant: the framework hears every status.
Tells_Always(st) == st \in SessionStatus

\* The framework hears of an end only out of, of a begin only in a session.
Tells(st) ==
    /\ \/ st = "SESSION_BEGIN" /\ inSession
       \/ st = "SESSION_END" /\ ~inSession
    /\ Muted(st) # "IN_SESSION"

\* loc_eng_report_status
ReportStatus(st) ==
    /\ mute' = Muted(st)
    /\ told' = IF Tells(st) THEN st ELSE told
    /\ engine' = IF st \in EngineStatus THEN st ELSE engine
    /\ fixSession' = IF st \in SessionStatus THEN st ELSE fixSession

-----------------------------------------------------------------------------
(* Messages of the framework and of the NI handler.                        *)

\* loc_eng_start_handler
Start ==
    /\ ~inSession
    /\ \E res \in StartResult :
         /\ StartFix(res)
         /\ IF res = "refused"
              THEN UNCHANGED <<inSession, told>>
              ELSE inSession' = TRUE /\ told' = "SESSION_BEGIN"
    /\ UNCHANGED <<mode, recurrence, states, pending, reports, owed, modeGiven,
                   stopFailed>>

\* loc_eng_stop_handler.  Out of a session the message does nothing.
Stop ==
    /\ IF inSession
         THEN \E ok \in BOOLEAN :
                /\ StopFix(ok)
                /\ told' = IF ok THEN "SESSION_END" ELSE told
                /\ EndSession
                /\ modeGiven' = FALSE
         ELSE UNCHANGED <<session, modem, told, modeGiven, stopFailed>>
    /\ UNCHANGED <<states, pending, reports, started, owed>>

\* loc_set_position_mode takes any mode for one of the three valid ones.
ModeOf == "valid"

\* LocEngPositionMode
SetPositionMode(rec) ==
    /\ mode' = ModeOf /\ recurrence' = rec
    /\ modem' = IF modem.up THEN [modem EXCEPT !.mode = mode'] ELSE modem
    /\ modeGiven' = TRUE
    /\ UNCHANGED <<inSession, states, pending, reports, started, told, owed,
                   stopFailed>>

\* LocEngDelAidData: the mask takes the place of one that is pending.
DeleteAidingData(f) ==
    /\ pending' = IF engine # "ENGINE_ON" THEN {} ELSE f
    /\ owed' = IF engine # "ENGINE_ON" THEN owed \ f ELSE owed \cup f
    /\ UNCHANGED <<session, states, modem, reports, started, told, modeGiven,
                   stopFailed>>

\* loc_eng_mute_one_session, for an NI request with a privacy override.
MuteOneSession ==
    /\ mute' = "WAIT"
    /\ UNCHANGED <<session, engine, fixSession, pending, modem, reports, ghosts>>

-----------------------------------------------------------------------------
(* The modem.                                                               *)

Sends(r) == Len(reports) < MaxReports /\ reports' = Append(reports, r)

modemUnchanged == UNCHANGED <<session, states, pending, ghosts>>

ModemReportsStatus(st) == modem.up /\ Sends(st) /\ UNCHANGED modem /\ modemUnchanged

\* A fix for one position ends with its last report.
ModemReportsFix(st) ==
    /\ modem.fixing
    /\ Sends(st)
    /\ modem' = IF st # "INTERMEDIATE" /\ modem.recurrence = "single"
                  THEN [modem EXCEPT !.fixing = FALSE] ELSE modem
    /\ modemUnchanged

ModemDies ==
    /\ modem.up /\ Sends("DOWN")
    /\ modem' = [modem EXCEPT !.up = FALSE, !.fixing = FALSE]
    /\ modemUnchanged

ModemRevives ==
    /\ ~modem.up /\ Sends("UP")
    /\ modem' = [modem EXCEPT !.up = TRUE, !.mode = "invalid"]
    /\ modemUnchanged

-----------------------------------------------------------------------------
(* Its reports.                                                             *)

Receives(R) == reports # <<>> /\ Head(reports) \in R /\ reports' = Tail(reports)

\* LocEngReportStatus, with update_aiding_data_for_deletion.
HandleStatus ==
    /\ Receives(SessionStatus \cup EngineStatus)
    /\ ReportStatus(Head(reports))
    /\ IF engine' # "ENGINE_ON"
         THEN pending' = {} /\ owed' = owed \ pending
         ELSE UNCHANGED <<pending, owed>>
    /\ UNCHANGED <<session, modem, started, modeGiven, stopFailed>>

\* LocEngReportPosition.  A failure is always reported, a position if it is
\* good enough; what is reported ends a session for one position.
HandleFix ==
    /\ Receives(FixStatus)
    /\ \E reported \in IF mute = "IN_SESSION" THEN {FALSE}
                       ELSE IF Head(reports) = "FAILURE" THEN {TRUE} ELSE BOOLEAN :
         IF reported /\ recurrence = "single"
           THEN /\ EndSession /\ modeGiven' = FALSE
                /\ IF Head(reports) = "INTERMEDIATE"
                     THEN \E ok \in BOOLEAN : StopFix(ok)
                     ELSE UNCHANGED <<modem, stopFailed>>
           ELSE UNCHANGED <<session, modem, modeGiven, stopFailed>>
    /\ UNCHANGED <<states, pending, started, told, owed>>

\* loc_eng_handle_engine_down
HandleDown ==
    /\ Receives({"DOWN"})
    /\ ReportStatus("ENGINE_OFF")
    /\ UNCHANGED <<session, pending, modem, started, owed, modeGiven,
                   stopFailed>>

\* Mutant: the restart finds the session on and starts nothing.
HandleUp_StaysIn ==
    /\ Receives({"UP"})
    /\ ReportStatus("ENGINE_ON")
    /\ IF inSession /\ modem.up
         THEN modem' = [modem EXCEPT !.mode = mode] ELSE UNCHANGED modem
    /\ UNCHANGED <<session, pending, started, owed, modeGiven, stopFailed>>

\* loc_eng_handle_engine_up: a session that was on is started again, with the
\* mode that the adapter keeps.
HandleUp ==
    /\ Receives({"UP"})
    /\ mute' = Muted("ENGINE_ON") /\ engine' = "ENGINE_ON" /\ UNCHANGED fixSession
    /\ IF inSession
         THEN \E res \in StartResult :
                /\ res = "success" => modem.up
                /\ started' = res
                /\ modem' = [modem EXCEPT
                               !.mode = IF modem.up THEN mode ELSE @,
                               !.fixing = @ \/ res = "success",
                               !.recurrence = IF res = "success" THEN recurrence ELSE @]
                /\ mode' = "invalid" /\ UNCHANGED recurrence
                /\ inSession' = (res # "refused")
                /\ told' = IF res = "refused" THEN told ELSE "SESSION_BEGIN"
         ELSE UNCHANGED <<session, modem, started, told>>
    /\ UNCHANGED <<pending, owed, modeGiven, stopFailed>>

-----------------------------------------------------------------------------
Init ==
    /\ inSession = FALSE /\ mode = "invalid" /\ recurrence = "periodic"
    /\ mute = "NONE" /\ engine = "NONE" /\ fixSession = "NONE"
    /\ pending = {}
    /\ modem = [up |-> TRUE, fixing |-> FALSE, mode |-> "invalid",
                recurrence |-> "periodic"]
    /\ reports = <<>>
    /\ started = "refused" /\ told = "NONE" /\ owed = {}
    /\ modeGiven = FALSE /\ stopFailed = FALSE

Framework ==
    \/ Start \/ Stop \/ MuteOneSession
    \/ \E rec \in Recurrence : SetPositionMode(rec)
    \/ \E f \in SUBSET AidingData \ {{}} : DeleteAidingData(f)

Modem ==
    \/ \E st \in SessionStatus \cup EngineStatus : ModemReportsStatus(st)
    \/ \E st \in FixStatus : ModemReportsFix(st)
    \/ ModemDies \/ ModemRevives

Next == Framework \/ Modem \/ HandleStatus \/ HandleFix \/ HandleDown \/ HandleUp

Spec == Init /\ [][Next]_vars

-----------------------------------------------------------------------------
(* Properties.                                                             *)

\* The variables have their types; of the statuses, engine_status keeps only
\* those of the engine, fix_session_status only those of a session.
TypeOK ==
    /\ inSession \in BOOLEAN /\ mode \in Mode /\ recurrence \in Recurrence
    /\ mute \in {"NONE", "WAIT", "IN_SESSION"}
    /\ engine \in EngineStatus \cup {"NONE"}
    /\ fixSession \in SessionStatus \cup {"NONE"}
    /\ pending \subseteq AidingData /\ owed \subseteq AidingData
    /\ modem \in [up : BOOLEAN, fixing : BOOLEAN, mode : Mode,
                  recurrence : Recurrence]
    /\ reports \in Seq(Report)
    /\ started \in StartResult /\ told \in SessionStatus \cup {"NONE"}
    /\ modeGiven \in BOOLEAN /\ stopFailed \in BOOLEAN

\* The framework is never left believing that a running session has ended:
\* neither by a late SESSION_END of the session before, nor by a restart.
EndMeansOver == told = "SESSION_END" => ~inSession

\* Muting is over when the engine is off and no session is open, however the
\* session ended: positions of a later session are not swallowed.
MutedOnlyWhileOn ==
    mute = "IN_SESSION" => engine = "ENGINE_ON" \/ fixSession = "SESSION_BEGIN"

\* The modem runs the fix of a session for many positions that it has taken, or
\* is down, or has yet to be heard of as up again.  A start with an error that
\* is tolerated leaves a session without a fix, of which nothing is claimed.
FixOfSession ==
    inSession /\ started = "success" /\ modem.recurrence = "periodic" =>
        \/ modem.fixing \/ ~modem.up
        \/ \E i \in DOMAIN reports : reports[i] = "UP"

\* A session for many positions survives modem restarts: after each step its fix
\* has, and the session is over only if the framework stops it, when no report is
\* handled, or the modem refuses to take it again.
SessionResumes ==
    [][/\ FixOfSession'
       /\ inSession /\ recurrence = "periodic" =>
             inSession' \/ UNCHANGED reports \/ started' = "refused"]_vars

\* "the actual action will happen when gps engine is turned off" (loc_eng.cpp
\* 2053): what was to be deleted and was not yet is pending.
AidingDataHonoured == owed \subseteq pending

\* "Stops the tracking session" (loc_eng.cpp 1872): a stop has an effect only in
\* a session, so a fix that runs has a session, unless the modem refused a stop.
FixIsStoppable == modem.fixing /\ ~stopFailed => inSession

\* "This sets the copy in adapter to modem" (loc_eng.cpp 2796): a session for
\* which a mode was given is restarted with a valid mode.
RestartKeepsMode ==
    [][HandleUp /\ inSession /\ modeGiven /\ modem.up => modem'.mode = "valid"]_vars
=============================================================================
