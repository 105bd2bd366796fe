-------------------------------- MODULE Boot --------------------------------
(***************************************************************************)
(* From power-on to a running device, and what is kept in flash on the     *)
(* way: app_main.c with power_button.c, device_config.c, provisioning.c,   *)
(* the mesh start of mesh_root.c and mesh_client.c with the root guard,    *)
(* and the configuration part of webconfig.c.                              *)
(*                                                                         *)
(* Three tasks write the same flash entries: app_main confirms the pins it *)
(* came up with, the grace window counts boots nobody joined, and a form   *)
(* is stored by the web server or, on a client, by the task that receives  *)
(* what the server forwards.  Each reads RAM, writes flash and then        *)
(* updates RAM, in separate steps.  A power failure or a crash may come    *)
(* between any two of them; a blob of flash is written whole or not at     *)
(* all, and is there as soon as it is set.                                 *)
(*                                                                         *)
(* A pin assignment (i2s_*, status_led, power_button) is one value; those  *)
(* in Bad never get past audio_i2s_start.  All other settings are a form,  *)
(* of which only mesh_enable matters here.  Time is in units of the        *)
(* shortest wait; start-up before the mesh takes at least one of them and  *)
(* what follows takes none.                                                *)
(***************************************************************************)
EXTENDS Integers, FiniteSets

CONSTANTS
    Forms, MeshForms,   \* settings; those with mesh_enable
    DefaultForm,        \* seed_defaults
    PinSets, Bad,       \* pin assignments; those that do not come up
    DefaultPins,        \* seed_pin_defaults
    Knobs, NoKnob,      \* knob pins; none
    DefaultKnob,        \* seed_pot_defaults
    Clash,              \* <<pins, knob>>: the knob's pin is taken
    Savers, Remote,     \* tasks that store forms; the one fed by the server
    Levels,             \* mesh levels the root guard may read
    LocalInput,         \* whether the local input may play
    None,
    TrialBootsMax,      \* DEVICE_PINS_TRIAL_BOOTS_MAX
    FailThreshold,      \* PROVISIONING_BOOT_FAIL_THRESHOLD
    GraceWindow,        \* PROVISIONING_GRACE_WINDOW_US
    MinUptime,          \* ROOT_GUARD_MIN_UPTIME_US
    ConfirmChecks,      \* ROOT_GUARD_CONFIRM_CHECKS
    LocalQuiet,         \* ROOT_GUARD_LOCAL_QUIET_US
    MaxTrouble,         \* bound: power failures, crashes and switch-offs
    MaxPosts,           \* bound: forms and factory resets
    MaxJoins,           \* bound: stations that join, or parents found
    MaxFaults           \* bound: failed flash writes

ASSUME BootAssumption ==
    /\ MeshForms \subseteq Forms /\ DefaultForm \in Forms
    /\ Bad \subseteq PinSets /\ DefaultPins \in PinSets \ Bad
    /\ NoKnob \in Knobs /\ DefaultKnob \in Knobs
    /\ Clash \subseteq PinSets \X (Knobs \ {NoKnob})
    /\ Remote \subseteq Savers /\ Levels \subseteq Nat \ {0} /\ LocalInput \subseteq BOOLEAN
    /\ None \notin Knobs
    /\ {TrialBootsMax, FailThreshold, GraceWindow, MinUptime, ConfirmChecks, LocalQuiet}
          \subseteq Nat \ {0}
    /\ {MaxTrouble, MaxPosts, MaxJoins, MaxFaults} \subseteq Nat

VARIABLES
    nv,     \* flash: the config, pins and pots blobs
    ram,    \* s_cfg, s_pins, s_boot_pins, s_pots, s_erased, the reason of this boot
    at,     \* where app_main is; "off" and "asleep" when it is not running
    woke,   \* the wake-up cause is the button
    radio,  \* an access point is up
    link,   \* a station joined (server), the parent was found (client)
    grace,  \* grace_window_task
    job,    \* the form each saver is storing
    reboot, \* s_reboot_timer is armed
    clock,  \* uptime, level-1 readings, time since the local input played
    used,   \* how much of each bound is used up
    past    \* bookkeeping for the properties

vars == <<nv, ram, at, woke, radio, link, grace, job, reboot, clock, used, past>>

Trials  == 0 .. TrialBootsMax + 1
Fails   == 0 .. FailThreshold
Cfgs    == [form : Forms, fails : Fails]
PinRecs == [set : PinSets, trial : Trials]
Reasons == {"none", "no_config", "mesh_disabled", "streak"}

Seeded   == [form |-> DefaultForm, fails |-> 0]
Default  == [set |-> DefaultPins, trial |-> 0]
BlankRam == [cfg |-> Seeded, pins |-> Default, boot |-> Default, pots |-> NoKnob,
             first |-> FALSE, erased |-> FALSE, reason |-> "none"]
NoGrace  == [at |-> "none", left |-> 0, seen |-> FALSE, cancelled |-> FALSE, cfg |-> Seeded]
NoJob    == [at |-> "idle", form |-> DefaultForm, pins |-> Default, knob |-> NoKnob,
             moved |-> FALSE]
NewClock == [up |-> 0, checks |-> 0, quiet |-> LocalQuiet]

UpTo(n, m) == IF n < m THEN n ELSE m
\* Counted up to here, one more than BadPinsDropped allows.
MostRuns == TrialBootsMax + MaxFaults + 2

Running == {"button", "load", "seed", "mesh", "arm", "i2s", "confirm", "write", "clear", "up"}
Serving == {"i2s", "confirm", "write", "clear", "up"}

TypeOK ==
    /\ nv \in [cfg : Cfgs \cup {None}, pins : PinRecs \cup {None}, pots : Knobs \cup {None}]
    /\ ram \in [cfg : Cfgs, pins : PinRecs, boot : PinRecs, pots : Knobs,
                first : BOOLEAN, erased : BOOLEAN, reason : Reasons]
    /\ at \in Running \cup {"off", "asleep"}
    /\ woke \in BOOLEAN /\ radio \in BOOLEAN /\ link \in BOOLEAN /\ reboot \in BOOLEAN
    /\ grace \in [at : {"none", "wait", "copy", "write", "cache"}, left : 0 .. GraceWindow,
                  seen : BOOLEAN, cancelled : BOOLEAN, cfg : Cfgs]
    /\ job \in [Savers -> [at : {"idle", "blob", "cache", "pair", "pots", "pins", "both",
                                 "erase", "rest", "last"},
                           form : Forms, pins : PinRecs, knob : Knobs, moved : BOOLEAN]]
    /\ clock \in [up : 0 .. MinUptime, checks : 0 .. ConfirmChecks, quiet : 0 .. LocalQuiet]
    /\ used.trouble \in 0 .. MaxTrouble /\ used.posts \in 0 .. MaxPosts
    /\ used.joins \in 0 .. MaxJoins /\ used.faults \in 0 .. MaxFaults

Init ==
    /\ nv = [cfg |-> None, pins |-> None, pots |-> None]
    /\ ram = BlankRam /\ at = "off" /\ woke = FALSE /\ radio = FALSE /\ link = FALSE
    /\ grace = NoGrace /\ job = [s \in Savers |-> NoJob] /\ reboot = FALSE
    /\ clock = NewClock
    /\ used = [trouble |-> 0, posts |-> 0, joins |-> 0, faults |-> 0]
    /\ past = [came |-> {}, swapped |-> {}, bus |-> None, runs |-> [p \in PinSets |-> 0],
               failed |-> 0, raced |-> FALSE]

-----------------------------------------------------------------------------
(* Flash, and everything a reset forgets.                                   *)

\* A write either lands or fails; the caller goes on with landed.
Write(entry, value, landed) ==
    \/ landed /\ nv' = [nv EXCEPT ![entry] = value] /\ UNCHANGED used
    \/ /\ ~landed /\ used.faults < MaxFaults
       /\ used' = [used EXCEPT !.faults = @ + 1]
       /\ UNCHANGED nv

\* The chip starts over at next, with nothing in RAM.
Forget(next, byButton) ==
    /\ at' = next /\ woke' = byButton
    /\ ram' = BlankRam /\ radio' = FALSE /\ link' = FALSE /\ reboot' = FALSE
    /\ grace' = NoGrace /\ job' = [s \in Savers |-> NoJob] /\ clock' = NewClock

Restart == Forget("button", FALSE)

\* The window's task is between reading the configuration and writing it.
Counting == grace.at \in {"copy", "write", "cache"}

-----------------------------------------------------------------------------
(* Power, and the button.                                                   *)

PowerOn ==
    /\ at = "off" /\ Restart
    /\ past' = [past EXCEPT !.bus = None]
    /\ UNCHANGED <<nv, used>>

\* A power failure, or a panic anywhere.
Trouble ==
    /\ at # "off" /\ used.trouble < MaxTrouble
    /\ \/ Forget("off", FALSE)
       \/ at # "asleep" /\ Restart
    /\ used' = [used EXCEPT !.trouble = @ + 1]
    /\ past' = [past EXCEPT !.bus = None]
    /\ UNCHANGED nv

\* The user takes the power away while nothing is being stored.
PowerCycle ==
    /\ at = "up" /\ grace.at \in {"none", "wait"} /\ \A s \in Savers : job[s].at = "idle"
    /\ Forget("off", FALSE)
    /\ past' = [past EXCEPT !.bus = None]
    /\ UNCHANGED <<nv, used>>

\* switch_off: the button is watched from before the mesh on.
SwitchOff ==
    /\ at \in Running \ {"button", "load", "seed"} /\ used.trouble < MaxTrouble
    /\ Forget("asleep", FALSE)
    /\ used' = [used EXCEPT !.trouble = @ + 1]
    /\ past' = [past EXCEPT !.bus = None]
    /\ UNCHANGED nv

Press ==
    /\ at = "asleep" /\ Forget("button", TRUE)
    /\ UNCHANGED <<nv, used, past>>

\* power_button_boot: a knock goes back to sleep, a hold goes on.
PowerButtonBoot ==
    /\ at = "button"
    /\ \/ woke /\ at' = "asleep"
       \/ at' = "load"
    /\ woke' = FALSE
    /\ UNCHANGED <<nv, ram, radio, link, grace, job, reboot, clock, used, past>>

-----------------------------------------------------------------------------
(* device_config_load.                                                      *)

\* Mutant: a boot is not counted.
LoadedUncounted ==
    IF nv.pins = None \/ nv.pins.trial > TrialBootsMax THEN Default ELSE nv.pins

\* Mutant: one boot more.
LoadedLate ==
    IF nv.pins = None \/ nv.pins.trial > TrialBootsMax + 1 THEN Default
    ELSE IF nv.pins.trial = 0 THEN nv.pins
    ELSE [nv.pins EXCEPT !.trial = @ + 1]

\* The pins this boot runs with: dropped after too many boots on trial, else
\* counted before anything touches them.
Loaded ==
    IF nv.pins = None \/ nv.pins.trial > TrialBootsMax THEN Default
    ELSE IF nv.pins.trial = 0 THEN nv.pins
    ELSE [nv.pins EXCEPT !.trial = @ + 1]

\* Mutant: a stored pair is trusted.
LoadedKnobAsIs(pins) == IF nv.pots = None THEN DefaultKnob ELSE nv.pots

\* The stored knob gives way to a pin it clashes with.
LoadedKnob(pins) ==
    LET knob == IF nv.pots = None THEN DefaultKnob ELSE nv.pots
    IN  IF <<pins.set, knob>> \in Clash THEN NoKnob ELSE knob

LoadPins ==
    /\ at = "load" /\ at' = "seed"
    /\ ram' = [ram EXCEPT !.pins = Loaded, !.boot = Loaded, !.pots = LoadedKnob(Loaded)]
    /\ IF nv.pins # None /\ nv.pins # Loaded
       THEN \E landed \in BOOLEAN : Write("pins", Loaded, landed)
       ELSE UNCHANGED <<nv, used>>
    /\ UNCHANGED <<woke, radio, link, grace, job, reboot, clock, past>>

\* Without a stored configuration the defaults are written first; app_main
\* restarts when that fails.
LoadConfig ==
    /\ at = "seed"
    /\ IF nv.cfg # None
       THEN /\ at' = "mesh" /\ ram' = [ram EXCEPT !.cfg = nv.cfg]
            /\ UNCHANGED <<nv, used, past, woke, radio, link, grace, job, reboot, clock>>
       ELSE \/ /\ Write("cfg", Seeded, TRUE)
               /\ at' = "mesh" /\ ram' = [ram EXCEPT !.cfg = Seeded, !.first = TRUE]
               /\ past' = [past EXCEPT !.failed = 0]
               /\ UNCHANGED <<woke, radio, link, grace, job, reboot, clock>>
            \/ Write("cfg", Seeded, FALSE) /\ Restart /\ UNCHANGED past

-----------------------------------------------------------------------------
(* The mesh or the open fallback network, and audio.                        *)

\* Mutant: one failed boot more.
DecidedLate ==
    CASE ram.first -> "no_config"
      [] ram.cfg.form \notin MeshForms -> "mesh_disabled"
      [] ram.cfg.fails > FailThreshold -> "streak"
      [] OTHER -> "none"

Decided ==
    CASE ram.first -> "no_config"
      [] ram.cfg.form \notin MeshForms -> "mesh_disabled"
      [] ram.cfg.fails >= FailThreshold -> "streak"
      [] OTHER -> "none"

\* mesh_root_start and mesh_client_start.
StartMesh ==
    /\ at = "mesh" /\ Decided = "none"
    /\ radio' = TRUE /\ at' = "arm"
    /\ UNCHANGED <<nv, ram, woke, link, grace, job, reboot, clock, used, past>>

\* provisioning_start_fallback_ap.
StartFallbackAp ==
    /\ at = "mesh" /\ Decided # "none"
    /\ radio' = TRUE /\ at' = "i2s"
    /\ ram' = [ram EXCEPT !.reason = Decided]
    /\ UNCHANGED <<nv, woke, link, grace, job, reboot, clock, used, past>>

\* provisioning_arm_grace_window: whoever joined before is not seen.
ArmGraceWindow ==
    /\ at = "arm" /\ clock.up > 0 /\ at' = "i2s"
    /\ grace' = [NoGrace EXCEPT !.at = "wait", !.left = GraceWindow]
    /\ UNCHANGED <<nv, ram, woke, radio, link, job, reboot, clock, used, past>>

\* A station joins the access point, or this client gets its address.
Join ==
    /\ ram.reason = "none" /\ radio /\ ~link /\ used.joins < MaxJoins
    /\ link' = TRUE /\ used' = [used EXCEPT !.joins = @ + 1]
    /\ grace' = IF grace.at = "wait" THEN [grace EXCEPT !.seen = TRUE] ELSE grace
    /\ UNCHANGED <<nv, ram, at, woke, radio, job, reboot, clock, past>>

\* The window of the fallback network closes, unless a reboot is coming.
ApTimeout ==
    /\ ram.reason # "none" /\ radio /\ ~reboot /\ at = "up"
    /\ radio' = FALSE
    /\ UNCHANGED <<nv, ram, at, woke, link, grace, job, reboot, clock, used, past>>

\* audio_i2s_start and what follows it take the pins of s_pins as they are
\* now, which a form may have changed since the load.
StartAudio ==
    /\ at = "i2s"
    /\ IF ram.pins.set \in Bad
       THEN /\ Restart
            /\ past' = [past EXCEPT !.runs[ram.pins.set] = UpTo(@ + 1, MostRuns)]
       ELSE /\ at' = "confirm"
            /\ past' = [past EXCEPT !.bus = ram.pins.set, !.came = @ \cup {ram.pins.set}]
            /\ UNCHANGED <<ram, woke, radio, link, grace, job, reboot, clock>>
    /\ UNCHANGED <<nv, used>>

-----------------------------------------------------------------------------
(* device_config_confirm_pins.                                              *)

\* Whether the pins in RAM are those this boot can vouch for.
OnTrial == ~ram.erased /\ ram.pins.trial # 0 /\ ram.pins.set = ram.boot.set

ConfirmRead ==
    /\ at = "confirm"
    /\ at' = IF OnTrial THEN "write" ELSE "up"
    /\ past' = [past EXCEPT !.bus = None,
                  !.swapped = IF OnTrial /\ past.bus # ram.pins.set
                              THEN @ \cup {ram.pins.set} ELSE @]
    /\ UNCHANGED <<nv, ram, woke, radio, link, grace, job, reboot, clock, used>>

Confirmed == [set |-> ram.boot.set, trial |-> 0]

ConfirmWrite ==
    /\ at = "write"
    /\ \E landed \in BOOLEAN :
         /\ Write("pins", Confirmed, landed)
         /\ at' = IF landed THEN "clear" ELSE "up"
    /\ UNCHANGED <<ram, woke, radio, link, grace, job, reboot, clock, past>>

ConfirmClear ==
    /\ at = "clear" /\ at' = "up"
    /\ ram' = IF ram.pins.set = ram.boot.set THEN [ram EXCEPT !.pins.trial = 0] ELSE ram
    /\ UNCHANGED <<nv, woke, radio, link, grace, job, reboot, clock, used, past>>

AppMain == PowerButtonBoot \/ LoadPins \/ LoadConfig \/ StartMesh \/ StartFallbackAp
             \/ ArmGraceWindow \/ StartAudio \/ ConfirmRead \/ ConfirmWrite \/ ConfirmClear

-----------------------------------------------------------------------------
(* apply_config_json and the factory reset, run by saver s.                 *)

Reachable(s) == IF s \in Remote THEN link ELSE at \in Serving /\ radio

SetJob(s, next) == job' = [job EXCEPT ![s] = next]

\* The form is merged with RAM and checked; whether a reboot will be needed
\* is known from then on.
Post(s) ==
    /\ Reachable(s) /\ job[s].at = "idle" /\ used.posts < MaxPosts /\ ~ram.erased
    /\ \E form \in Forms, set \in PinSets, knob \in Knobs :
         /\ <<set, knob>> \notin Clash
         /\ SetJob(s, [at |-> "blob", form |-> form,
                       pins |-> [ram.pins EXCEPT !.set = set], knob |-> knob,
                       moved |-> \/ set # ram.pins.set \/ knob # ram.pots
                                 \/ (form \in MeshForms) # (ram.cfg.form \in MeshForms)
                                 \/ ram.reason # "none"])
    /\ used' = [used EXCEPT !.posts = @ + 1]
    /\ UNCHANGED <<nv, ram, at, woke, radio, link, grace, reboot, clock, past>>

\* Mutant: the streak outlives a save.
SavedCfgKeeps(s) == [form |-> job[s].form, fails |-> ram.cfg.fails]

\* device_config_save: the streak of failed boots ends with it.
SavedCfg(s) == [form |-> job[s].form, fails |-> 0]

WriteConfig(s) ==
    /\ job[s].at = "blob"
    /\ \E landed \in BOOLEAN :
         /\ Write("cfg", SavedCfg(s), landed)
         /\ SetJob(s, IF landed THEN [job[s] EXCEPT !.at = "cache"] ELSE NoJob)
         /\ past' = IF ~landed THEN past
                    ELSE [past EXCEPT !.failed = 0, !.raced = Counting]
    /\ UNCHANGED <<ram, at, woke, radio, link, grace, reboot, clock>>

CacheConfig(s) ==
    /\ job[s].at = "cache"
    /\ ram' = [ram EXCEPT !.cfg = SavedCfg(s)]
    /\ past' = [past EXCEPT !.raced = @ \/ Counting]
    /\ SetJob(s, [job[s] EXCEPT !.at = "pair"])
    /\ UNCHANGED <<nv, at, woke, radio, link, grace, reboot, clock, used>>

\* Mutant: new pins take over the trial of the old ones.
TrialKept(set) == ram.pins.trial

\* device_config_save_pin_set: pins that differ from those in RAM go on trial.
TrialFor(set) == IF set = ram.pins.set THEN ram.pins.trial ELSE 1

CheckPair(s) ==
    /\ job[s].at = "pair"
    /\ SetJob(s, IF ram.erased THEN NoJob
                 ELSE [job[s] EXCEPT !.at = "pots", !.pins.trial = TrialFor(job[s].pins.set)])
    /\ UNCHANGED <<nv, ram, at, woke, radio, link, grace, reboot, clock, used, past>>

WritePots(s) ==
    /\ job[s].at = "pots"
    /\ \E landed \in BOOLEAN :
         /\ Write("pots", job[s].knob, landed)
         /\ SetJob(s, IF landed THEN [job[s] EXCEPT !.at = "pins"] ELSE NoJob)
    /\ UNCHANGED <<ram, at, woke, radio, link, grace, reboot, clock, past>>

WritePins(s) ==
    /\ job[s].at = "pins"
    /\ \E landed \in BOOLEAN :
         /\ Write("pins", job[s].pins, landed)
         /\ SetJob(s, IF landed THEN [job[s] EXCEPT !.at = "both"] ELSE NoJob)
         /\ past' = IF landed /\ job[s].pins.trial = 1
                    THEN [past EXCEPT !.runs[job[s].pins.set] = 0] ELSE past
    /\ UNCHANGED <<ram, at, woke, radio, link, grace, reboot, clock>>

CachePair(s) ==
    /\ job[s].at = "both"
    /\ ram' = [ram EXCEPT !.pins = job[s].pins, !.pots = job[s].knob]
    /\ reboot' = (reboot \/ job[s].moved)
    /\ SetJob(s, NoJob)
    /\ UNCHANGED <<nv, at, woke, radio, link, grace, clock, used, past>>

\* api_factory_reset_post_handler: the window is cancelled and later writers
\* are turned away before anything is erased.
FactoryReset(s) ==
    /\ s \notin Remote /\ Reachable(s) /\ job[s].at = "idle" /\ used.posts < MaxPosts
    /\ grace' = [grace EXCEPT !.cancelled = TRUE]
    /\ ram' = [ram EXCEPT !.erased = TRUE]
    /\ SetJob(s, [NoJob EXCEPT !.at = "erase"])
    /\ used' = [used EXCEPT !.posts = @ + 1]
    /\ UNCHANGED <<nv, at, woke, radio, link, reboot, clock, past>>

\* The keys go one by one; one that cannot be erased ends the reset only when
\* it is the first.  The reboot comes in any case.
EraseConfig(s) ==
    /\ job[s].at = "erase"
    /\ \E landed \in BOOLEAN :
         /\ Write("cfg", None, landed)
         /\ SetJob(s, IF landed THEN [job[s] EXCEPT !.at = "rest"] ELSE NoJob)
         /\ reboot' = (reboot \/ ~landed)
    /\ UNCHANGED <<ram, at, woke, radio, link, grace, clock, past>>

ErasePots(s) ==
    /\ job[s].at = "rest"
    /\ \E landed \in BOOLEAN : Write("pots", None, landed)
    /\ SetJob(s, [job[s] EXCEPT !.at = "last"])
    /\ UNCHANGED <<ram, at, woke, radio, link, grace, reboot, clock, past>>

ErasePins(s) ==
    /\ job[s].at = "last"
    /\ \E landed \in BOOLEAN : Write("pins", None, landed)
    /\ SetJob(s, NoJob) /\ reboot' = TRUE
    /\ UNCHANGED <<ram, at, woke, radio, link, grace, clock, past>>

\* reboot_timer_cb.
Reboot ==
    /\ reboot /\ Restart
    /\ past' = [past EXCEPT !.bus = None]
    /\ UNCHANGED <<nv, used>>

Saver(s) == WriteConfig(s) \/ CacheConfig(s) \/ CheckPair(s) \/ WritePots(s) \/ WritePins(s)
              \/ CachePair(s) \/ EraseConfig(s) \/ ErasePots(s) \/ ErasePins(s)

-----------------------------------------------------------------------------
(* grace_window_task and device_config_set_boot_fail_count.                 *)

\* The window is over: a boot nobody joined is one more.
GraceExpires ==
    /\ grace.at = "wait" /\ grace.left = 0
    /\ IF grace.cancelled
       THEN grace' = NoGrace /\ UNCHANGED past
       ELSE /\ grace' = [grace EXCEPT !.at = "copy", !.cfg =
                           [ram.cfg EXCEPT !.fails = IF grace.seen THEN 0 ELSE @ + 1]]
            /\ past' = [past EXCEPT !.failed = IF grace.seen THEN @ ELSE @ + 1,
                          !.raced = @ \/ \E s \in Savers : job[s].at = "cache"]
    /\ UNCHANGED <<nv, ram, at, woke, radio, link, job, reboot, clock, used>>

\* The count goes into a copy of the whole configuration.
GraceCopy ==
    /\ grace.at = "copy"
    /\ grace' = IF ram.erased THEN NoGrace
                ELSE [grace EXCEPT !.at = "write", !.cfg.form = ram.cfg.form]
    /\ UNCHANGED <<nv, ram, at, woke, radio, link, job, reboot, clock, used, past>>

GraceWrite ==
    /\ grace.at = "write"
    /\ \E landed \in BOOLEAN :
         /\ Write("cfg", grace.cfg, landed)
         /\ grace' = IF landed THEN [grace EXCEPT !.at = "cache"] ELSE NoGrace
         /\ past' = IF landed /\ grace.cfg.fails = 0 THEN [past EXCEPT !.failed = 0] ELSE past
    /\ UNCHANGED <<ram, at, woke, radio, link, job, reboot, clock>>

GraceCache ==
    /\ grace.at = "cache" /\ grace' = NoGrace
    /\ ram' = [ram EXCEPT !.cfg = grace.cfg]
    /\ UNCHANGED <<nv, at, woke, radio, link, job, reboot, clock, used, past>>

GraceTask == GraceExpires \/ GraceCopy \/ GraceWrite \/ GraceCache

-----------------------------------------------------------------------------
(* Time, and root_guard_cb, which runs once per unit on a client in the     *)
(* mesh.  A joined client has a parent and is not on level 1.               *)

Later(level, playing) ==
    [up     |-> UpTo(clock.up + 1, MinUptime),
     checks |-> IF level = 1 THEN UpTo(clock.checks + 1, ConfirmChecks) ELSE 0,
     quiet  |-> IF playing THEN 0 ELSE UpTo(clock.quiet + 1, LocalQuiet)]

\* Still root, long enough after the start and after the local input.
GuardRestarts(level, playing) ==
    LET c == Later(level, playing) IN
    level = 1 /\ c.checks >= ConfirmChecks /\ c.up >= MinUptime /\ c.quiet >= LocalQuiet

Tick ==
    \/ /\ at = "arm" /\ clock.up = 0 /\ clock' = [clock EXCEPT !.up = 1]
       /\ UNCHANGED <<nv, ram, at, woke, radio, link, grace, job, reboot, used, past>>
    \/ /\ at = "up" /\ ram.reason = "none" /\ grace.at \in {"wait", "none"}
       /\ grace.at = "wait" => grace.left > 0
       /\ \E level \in Levels, playing \in LocalInput :
            /\ link => level # 1
            /\ IF GuardRestarts(level, playing)
               THEN Restart /\ past' = [past EXCEPT !.bus = None]
               ELSE /\ clock' = Later(level, playing)
                    /\ grace' = IF grace.at = "wait" THEN [grace EXCEPT !.left = @ - 1] ELSE grace
                    /\ UNCHANGED <<ram, at, woke, radio, link, job, reboot, past>>
       /\ UNCHANGED <<nv, used>>

-----------------------------------------------------------------------------
Next ==
    \/ PowerOn \/ PowerCycle \/ Trouble \/ SwitchOff \/ Press \/ Join \/ ApTimeout \/ Reboot \/ Tick
    \/ AppMain \/ GraceTask
    \/ \E s \in Savers : Post(s) \/ FactoryReset(s) \/ Saver(s)

Spec == Init /\ [][Next]_vars

\* The device runs: its tasks take their steps and time passes.  Whoever has
\* the power switch, the button, the page or a network does not have to.
FairSpec ==
    /\ Spec /\ WF_vars(AppMain) /\ WF_vars(GraceTask) /\ WF_vars(Tick) /\ WF_vars(Reboot)
    /\ \A s \in Savers : WF_vars(Saver(s))

-----------------------------------------------------------------------------
(* Properties.                                                              *)

\* Pins that do not come up are given up: since they were last put on trial
\* they crashed the device at most TrialBootsMax times, once more when they
\* were stored while the device was starting and audio took them at once, and
\* once more for every count that flash did not take.  Those of swapped (see
\* below) are stored as confirmed and never given up.
BadPinsDropped ==
    \A p \in PinSets \ past.swapped : past.runs[p] <= TrialBootsMax + 1 + used.faults

\* Pins stored as confirmed are the defaults or have carried audio.  swapped
\* are those confirmed by a boot whose audio had started with another form's.
ConfirmedCameUp ==
    nv.pins # None /\ nv.pins.trial = 0
        => nv.pins.set \in past.came \cup past.swapped \cup {DefaultPins}

\* Once loaded, no knob reads a pin the bus, the light or the button has,
\* whatever of a pair reached flash before the power failed.
KnobApart == <<ram.pins.set, ram.pots>> \notin Clash

\* The open fallback network comes up for a streak only after that many boots
\* nobody joined since the last form was stored; raced is a form stored while
\* the window's task was at its count, which takes the old one along.
FallbackEarned ==
    [][at = "mesh" /\ ram'.reason = "streak"
           => past.failed >= FailThreshold \/ past.raced]_vars

\* Every start ends with a running device, unless it is switched off again.
ComesUp == at = "load" ~> at \in {"up", "off", "asleep"}

=============================================================================
