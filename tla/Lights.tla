------------------------------- MODULE Lights -------------------------------
(***************************************************************************)
(* The lights HAL (liblight/lights.c): three sources share one LED, the    *)
(* notifications, the battery and the buttons, in that order of priority;  *)
(* the screen's backlight has a device of its own.                         *)
(*                                                                         *)
(* The LED is programmed through files of sysfs: a table of brightnesses,  *)
(* flags, the two pauses of a blink, and a switch.  What a file holds      *)
(* stays until it is written again, and the code skips the writes it takes *)
(* for needless, so what the LED shows depends on the whole history.       *)
(*                                                                         *)
(* Every call runs with g_lock held, and is one step.  The writes are      *)
(* taken to succeed: the code ignores their results.                       *)
(***************************************************************************)
EXTENDS Integers

CONSTANTS
    Millis,     \* durations of a blink
    Brightness  \* brightnesses of the screen

ASSUME LightsAssumption == 0 \in Millis /\ Millis \subseteq Nat /\ Brightness \subseteq Nat

Source == {"notification", "battery", "buttons"}
\* BREATH_SOURCE_NOTIFICATION to BREATH_SOURCE_NONE: less is more important.
Rank == [s \in Source \cup {"none"} |->
           CASE s = "notification" -> 1
             [] s = "battery" -> 2
             [] s = "buttons" -> 4
             [] s = "none" -> 255]

\* light_state_t: whether the colour is not black, and the blink, zeros unless
\* the flash mode is LIGHT_FLASH_TIMED.
LightState == [lit : BOOLEAN, on : Millis, off : Millis]
Dark == [lit |-> FALSE, on |-> 0, off |-> 0]
Blinks(state) == state.on + state.off > 0

\* charger_online and capacity
Supply == {"low", "charging", "full"}
Flag == {"loop", "rampUp", "reverse", "pauseHi", "pauseLo", "noTable"}
Blinking == {"loop", "rampUp", "reverse", "pauseHi", "pauseLo"}

VARIABLES
    state,   \* g_notification, g_battery, g_buttons
    active,  \* active_states
    last,    \* last_state
    led,     \* the files of the LED
    supply,  \* the battery
    screen   \* the screen: brightness, kcal mode, and persist.sre.enabled

lightsVars == <<state, active, last, led, supply, screen>>

-----------------------------------------------------------------------------
(* set_breath_light_locked                                                  *)

\* The files after a table and flags are written; a pause of 0 is not.
Programmed(table, flags, on, off) ==
    [blink |-> TRUE, table |-> table, flags |-> flags,
     hi |-> IF on > 0 THEN on ELSE led.hi,
     lo |-> IF off > 0 THEN off ELSE led.lo]

NotificationLed(new) ==
    Programmed("notification", IF Blinks(new) THEN Blinking ELSE {"rampUp"}, new.on, new.off)

BatteryLed ==
    CASE supply = "low"      -> Programmed("battery", Blinking, 300, 1500)
      [] supply = "charging" -> Programmed("charging", {"loop", "rampUp", "reverse"}, 0, 0)
      [] supply = "full"     -> Programmed("battery", {"rampUp"}, 0, 0)

\* The pauses are those of the source that called.
ButtonsLed(new) == Programmed("buttons", {"rampUp"}, new.on, new.off)

\* The last light goes out: the buttons fade, the others are switched off.
TurnOff(s) ==
    /\ led' = IF s = "buttons" /\ last = "buttons" THEN [led EXCEPT !.flags = {"noTable"}]
                                                 ELSE [led EXCEPT !.blink = FALSE]
    /\ last' = "none"

\* Mutant: a source that shows already is not shown anew.
Hidden_Same(s) == Rank[last] <= Rank[s]

\* A more important light shows.
Hidden(s) == Rank[last] < Rank[s]

\* Mutant: the lights are tried in the wrong order.
Show_Reversed(new, on) ==
    \/ /\ "battery" \in on
       /\ led' = BatteryLed /\ last' = "battery"
    \/ /\ "battery" \notin on /\ "notification" \in on
       /\ led' = NotificationLed(new) /\ last' = "notification"
    \/ /\ "battery" \notin on /\ "notification" \notin on /\ "buttons" \in on
       /\ led' = IF last = "buttons" THEN led ELSE ButtonsLed(new)
       /\ last' = "buttons"

\* The most important of the lights that are on shows; a source other than it
\* may have called.
Show(new, on) ==
    \/ /\ "notification" \in on
       /\ led' = NotificationLed(new) /\ last' = "notification"
    \/ /\ "notification" \notin on /\ "battery" \in on
       /\ led' = BatteryLed /\ last' = "battery"
    \/ /\ "notification" \notin on /\ "battery" \notin on /\ "buttons" \in on
       /\ led' = IF last = "buttons" THEN led ELSE ButtonsLed(new)
       /\ last' = "buttons"

\* set_light_notifications, set_light_battery, set_light_buttons
SetLight(s, new) ==
    LET on == IF new.lit THEN active \cup {s} ELSE active \ {s}
    IN  /\ state' = [state EXCEPT ![s] = new]
        /\ active' = on
        /\ \/ on = {} /\ TurnOff(s)
           \/ on # {} /\ Hidden(s) /\ UNCHANGED <<led, last>>
           \/ on # {} /\ ~Hidden(s) /\ Show(new, on)
        /\ UNCHANGED <<supply, screen>>

-----------------------------------------------------------------------------
(* The rest of the HAL, and its surroundings.                               *)

\* SRE_THRESHOLD
Threshold == 176

\* set_light_backlight: the mode for sunlight is left as it is when
\* persist.sre.enabled is not set.
SetBacklight(b) ==
    /\ screen' = [screen EXCEPT !.lcd = b,
                    !.kcal = IF ~screen.sre THEN @
                             ELSE IF b > Threshold THEN "sun" ELSE "default"]
    /\ UNCHANGED <<state, active, last, led, supply>>

ToggleSre ==
    /\ screen' = [screen EXCEPT !.sre = ~@]
    /\ UNCHANGED <<state, active, last, led, supply>>

BatteryChanges ==
    /\ supply' \in Supply \ {supply}
    /\ UNCHANGED <<state, active, last, led, screen>>

LightsInit ==
    /\ state = [s \in Source |-> Dark]
    /\ active = {} /\ last = "none"
    /\ led = [blink |-> FALSE, table |-> "none", flags |-> {}, hi |-> 0, lo |-> 0]
    /\ supply \in Supply
    /\ screen = [lcd |-> 0, kcal |-> "default", sre |-> FALSE]

LightsNext ==
    \/ \E s \in Source, new \in LightState : SetLight(s, new)
    \/ \E b \in Brightness : SetBacklight(b)
    \/ ToggleSre
    \/ BatteryChanges

LightsSpec == LightsInit /\ [][LightsNext]_lightsVars

-----------------------------------------------------------------------------
(* What holds.                                                              *)

LightsTypeOK ==
    /\ state \in [Source -> LightState]
    /\ active \subseteq Source /\ last \in Source \cup {"none"}
    /\ led \in [blink : BOOLEAN, flags : SUBSET Flag, hi : Nat, lo : Nat,
                table : {"none", "notification", "battery", "charging", "buttons"}]
    /\ supply \in Supply
    /\ screen \in [lcd : Brightness \cup {0}, kcal : {"default", "sun"}, sre : BOOLEAN]

\* The tables that a source is shown with.
Tables == [s \in Source |-> IF s = "battery" THEN {"battery", "charging"} ELSE {s}]
LedOn == led.blink /\ "noTable" \notin led.flags
Wants(s) == state[s].lit

\* The LED is dark when no source wants light, and otherwise shows the most
\* important one that does, whatever was switched on and off, in which order
\* (set_breath_light_locked).
ShowsMostImportant ==
    /\ LedOn <=> \E s \in Source : Wants(s)
    /\ LedOn => \E s \in Source : /\ Wants(s) /\ led.table \in Tables[s]
                                  /\ \A t \in Source : Wants(t) => Rank[s] <= Rank[t]

\* While a notification shows, the LED blinks if the notification last asked it
\* to, with the pauses it gave,
BlinkOfNotification ==
    Wants("notification") =>
       /\ "loop" \in led.flags <=> Blinks(state["notification"])
       /\ state["notification"].on > 0 => led.hi = state["notification"].on
       /\ state["notification"].off > 0 => led.lo = state["notification"].off

\* and no call changes the pauses, those of 0 that were not written among them,
\* unless it asks for another notification: no other source disturbs one that
\* shows (set_breath_light_locked).
BlinksAsAsked ==
    [][/\ BlinkOfNotification'
       /\ Wants("notification") /\ state'["notification"] = state["notification"] =>
             led'.hi = led.hi /\ led'.lo = led.lo]_lightsVars

-----------------------------------------------------------------------------
(* What does not hold.                                                      *)

\* A notification that blinks does so with the two pauses it asked for: one of 0
\* is not written, and stays what a notification or the battery wrote before.
PausesAreItsOwn ==
    Wants("notification") /\ Blinks(state["notification"]) =>
       led.hi = state["notification"].on /\ led.lo = state["notification"].off
=============================================================================
