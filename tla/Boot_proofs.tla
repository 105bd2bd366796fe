----------------------------- MODULE Boot_proofs -----------------------------
(***************************************************************************)
(* Proofs about start-up and what it keeps in flash, for any forms, pin    *)
(* assignments, knobs, savers and limits: crashing pins are given up, only *)
(* pins that carried audio are confirmed, no knob reads a pin of the bus   *)
(* that is loaded, and the open fallback network is earned by failed       *)
(* boots, wherever power fails and whichever write does.                   *)
(***************************************************************************)
EXTENDS Boot, TLAPS

-----------------------------------------------------------------------------
(* The values of the variables *)

NvRecs    == [cfg : Cfgs \cup {None}, pins : PinRecs \cup {None}, pots : Knobs \cup {None}]
RamRecs   == [cfg : Cfgs, pins : PinRecs, boot : PinRecs, pots : Knobs,
              first : BOOLEAN, erased : BOOLEAN, reason : Reasons]
GraceRecs == [at : {"none", "wait", "copy", "write", "cache"}, left : 0 .. GraceWindow,
              seen : BOOLEAN, cancelled : BOOLEAN, cfg : Cfgs]
JobRecs   == [at : {"idle", "blob", "cache", "pair", "pots", "pins", "both",
                    "erase", "rest", "last"},
              form : Forms, pins : PinRecs, knob : Knobs, moved : BOOLEAN]
ClockRecs == [up : 0 .. MinUptime, checks : 0 .. ConfirmChecks, quiet : 0 .. LocalQuiet]
UsedRecs  == [trouble : 0 .. MaxTrouble, posts : 0 .. MaxPosts,
              joins : 0 .. MaxJoins, faults : 0 .. MaxFaults]
PastRecs  == [came : SUBSET PinSets, swapped : SUBSET PinSets, bus : PinSets \cup {None},
              runs : [PinSets -> Nat], failed : Nat, raced : BOOLEAN]

Shapes ==
    /\ nv \in NvRecs /\ ram \in RamRecs /\ at \in Running \cup {"off", "asleep"}
    /\ woke \in BOOLEAN /\ radio \in BOOLEAN /\ link \in BOOLEAN /\ reboot \in BOOLEAN
    /\ grace \in GraceRecs /\ job \in [Savers -> JobRecs] /\ clock \in ClockRecs
    /\ used \in UsedRecs /\ past \in PastRecs

-----------------------------------------------------------------------------
(* The inductive invariants *)

\* Up to the decision about the mesh nothing but app_main runs.
Early == at \in {"off", "asleep", "button", "load", "seed", "mesh"}
Alone ==
    /\ Early => /\ ~radio /\ ~link /\ grace.at = "none" /\ ram.reason = "none"
                /\ \A s \in Savers : job[s].at = "idle"
    /\ at = "arm" => grace.at = "none"

\* The mesh is started only below the threshold, which the window's one count
\* does not exceed.
Below == at = "arm" \/ grace.at = "wait" => ram.cfg.fails < FailThreshold

Sound == Shapes /\ Alone /\ Below

\* Neither the pair in RAM nor one on its way to flash clashes.
PairsApart ==
    /\ KnobApart
    /\ \A s \in Savers : <<job[s].pins.set, job[s].knob>> \notin Clash

\* Pins that may count as confirmed, and a record that makes no wrong claim.
Came(set) == set \in past.came \cup past.swapped \cup {DefaultPins}
Fair(pins) == pins.trial = 0 => Came(pins.set)

\* Savers whose trial is decided.
Decides(s) == job[s].at \in {"pots", "pins", "both"}

\* Whatever is confirmed has come up: in flash, in RAM and on its way there;
\* and what this boot is about to confirm.
Vouched ==
    /\ nv.pins # None => Fair(nv.pins)
    /\ Fair(ram.pins)
    /\ \A s \in Savers : Decides(s) => Fair(job[s].pins)
    /\ at = "confirm" => past.bus \in past.came
    /\ at \in {"write", "clear"} => Came(ram.boot.set)
    /\ past.came \cap Bad = {}

\* Pins that crash the device and were never confirmed.
Crashing == Bad \ past.swapped

\* The boot's count has not been taken up yet.
Uncounted == at \in {"off", "asleep", "button", "load"}

\* The trials in flash, in RAM and with the savers are not behind the crashes
\* of p: before the count is taken up they may be even, afterwards flash is
\* ahead.
Counted(p) ==
    /\ past.runs[p] <= TrialBootsMax + 1 + used.faults
    /\ nv.pins # None /\ nv.pins.set = p =>
         /\ past.runs[p] <= nv.pins.trial + used.faults
         /\ ~Uncounted => past.runs[p] + 1 <= nv.pins.trial + used.faults
    /\ ~Uncounted /\ ram.boot.set = p => past.runs[p] + 1 <= ram.boot.trial + used.faults
    /\ ram.pins.set = p => /\ ram.pins.trial = 1 \/ ram.pins = ram.boot
                           /\ past.runs[p] <= TrialBootsMax + used.faults
    /\ \A s \in Savers :
         /\ Decides(s) /\ job[s].pins.set = p => job[s].pins.trial = 1 \/ job[s].pins = ram.boot
         /\ job[s].at = "both" /\ job[s].pins.set = p
              => past.runs[p] <= TrialBootsMax + used.faults

TrialsCount ==
    /\ \A p \in PinSets \ Bad : past.runs[p] = 0
    /\ \A p \in Crashing : Counted(p)

\* Unless a form crossed the window's count, no counter is ahead of the boots
\* that failed; between flash and RAM a saver or the window's task has the
\* new value in its hands.
FailsCount ==
    ~past.raced =>
        /\ nv.cfg # None => nv.cfg.fails <= past.failed
        /\ \/ ram.cfg.fails <= past.failed
           \/ grace.at = "cache"
           \/ \E s \in Savers : job[s].at = "cache"
        /\ Counting => /\ grace.cfg.fails <= past.failed
                       /\ \A s \in Savers : job[s].at # "cache"

BootInv == Sound /\ PairsApart /\ Vouched /\ TrialsCount /\ FailsCount

-----------------------------------------------------------------------------
(* Types and starting values *)

\* The limits and bounds are numbers.
LEMMA Limits ==
    /\ TrialBootsMax \in Nat \ {0} /\ FailThreshold \in Nat \ {0} /\ GraceWindow \in Nat \ {0}
    /\ MinUptime \in Nat \ {0} /\ ConfirmChecks \in Nat \ {0} /\ LocalQuiet \in Nat \ {0}
    /\ MaxTrouble \in Nat /\ MaxPosts \in Nat /\ MaxJoins \in Nat /\ MaxFaults \in Nat
BY BootAssumption

\* The model's type invariant says the same of all but the bookkeeping.
LEMMA ShapesAreTypes == Shapes => TypeOK
<1>1. used \in UsedRecs => /\ used.trouble \in 0 .. MaxTrouble /\ used.posts \in 0 .. MaxPosts
                           /\ used.joins \in 0 .. MaxJoins /\ used.faults \in 0 .. MaxFaults
  BY DEF UsedRecs
<1> QED
  BY <1>1 DEF TypeOK, Shapes, NvRecs, RamRecs, GraceRecs, JobRecs, ClockRecs

\* Values the variables start from, and the pairs that are safe.
LEMMA Defaults ==
    /\ Seeded \in Cfgs /\ Seeded.fails = 0
    /\ Default \in PinRecs /\ Default.set = DefaultPins /\ Default.trial = 0 /\ DefaultPins \notin Bad
    /\ BlankRam \in RamRecs /\ BlankRam.cfg = Seeded /\ BlankRam.pins = Default
    /\ BlankRam.boot = Default /\ BlankRam.pots = NoKnob /\ BlankRam.reason = "none"
    /\ NoGrace \in GraceRecs /\ NoGrace.at = "none"
    /\ NoJob \in JobRecs /\ NoJob.at = "idle" /\ NoJob.pins = Default /\ NoJob.knob = NoKnob
    /\ NewClock \in ClockRecs
    /\ \A set : <<set, NoKnob>> \notin Clash
<1>1. Seeded \in Cfgs /\ Seeded.fails = 0
  BY BootAssumption, Limits DEF Seeded, Cfgs, Fails
<1>2. Default \in PinRecs /\ Default.set = DefaultPins /\ Default.trial = 0 /\ DefaultPins \notin Bad
  BY BootAssumption, Limits DEF Default, PinRecs, Trials
<1>3. NoKnob \in Knobs
  BY BootAssumption
<1>4. /\ BlankRam \in RamRecs /\ BlankRam.cfg = Seeded /\ BlankRam.pins = Default
      /\ BlankRam.boot = Default /\ BlankRam.pots = NoKnob /\ BlankRam.reason = "none"
  BY <1>1, <1>2, <1>3 DEF BlankRam, RamRecs, Reasons
<1>5. NoGrace \in GraceRecs /\ NoGrace.at = "none"
  BY <1>1, Limits DEF NoGrace, GraceRecs
<1>6. NoJob \in JobRecs /\ NoJob.at = "idle" /\ NoJob.pins = Default /\ NoJob.knob = NoKnob
  BY <1>2, <1>3, BootAssumption DEF NoJob, JobRecs
<1>7. NewClock \in ClockRecs
  BY Limits DEF NewClock, ClockRecs
<1>8. \A set : <<set, NoKnob>> \notin Clash
  BY BootAssumption
<1> QED
  BY <1>1, <1>2, <1>4, <1>5, <1>6, <1>7, <1>8

\* What a write leaves in flash, landed or not.
LEMMA WriteCfg ==
    ASSUME Shapes, NEW c \in Cfgs \cup {None}, NEW landed \in BOOLEAN, Write("cfg", c, landed)
    PROVE  /\ nv' \in NvRecs /\ nv'.pins = nv.pins /\ nv'.pots = nv.pots
           /\ landed => nv'.cfg = c /\ used' = used
           /\ ~landed => nv' = nv
           /\ used' \in UsedRecs /\ used'.faults \in {used.faults, used.faults + 1}
<1>1. used.faults \in 0 .. MaxFaults
  BY DEF Shapes, UsedRecs
<1>2. CASE landed /\ nv' = [nv EXCEPT !["cfg"] = c] /\ UNCHANGED used
  BY <1>2 DEF Shapes, NvRecs
<1>3. CASE ~landed /\ used.faults < MaxFaults /\ UNCHANGED nv /\ used' = [used EXCEPT !.faults = @ + 1]
  <2>1. used.faults + 1 \in 0 .. MaxFaults
    BY <1>1, <1>3, Limits
  <2>2. used' \in UsedRecs /\ used'.faults = used.faults + 1
    BY <1>3, <2>1 DEF Shapes, UsedRecs
  <2> QED
    BY <1>3, <2>2 DEF Shapes
<1> QED
  BY <1>2, <1>3 DEF Write

LEMMA WritePin ==
    ASSUME Shapes, NEW r \in PinRecs \cup {None}, NEW landed \in BOOLEAN, Write("pins", r, landed)
    PROVE  /\ nv' \in NvRecs /\ nv'.cfg = nv.cfg /\ nv'.pots = nv.pots
           /\ landed => nv'.pins = r /\ used' = used
           /\ ~landed => nv' = nv /\ used'.faults = used.faults + 1
           /\ used' \in UsedRecs /\ used'.faults \in {used.faults, used.faults + 1}
<1>1. used.faults \in 0 .. MaxFaults
  BY DEF Shapes, UsedRecs
<1>2. CASE landed /\ nv' = [nv EXCEPT !["pins"] = r] /\ UNCHANGED used
  BY <1>2 DEF Shapes, NvRecs
<1>3. CASE ~landed /\ used.faults < MaxFaults /\ UNCHANGED nv /\ used' = [used EXCEPT !.faults = @ + 1]
  <2>1. used.faults + 1 \in 0 .. MaxFaults
    BY <1>1, <1>3, Limits
  <2>2. used' \in UsedRecs /\ used'.faults = used.faults + 1
    BY <1>3, <2>1 DEF Shapes, UsedRecs
  <2> QED
    BY <1>3, <2>2 DEF Shapes
<1> QED
  BY <1>2, <1>3 DEF Write

LEMMA WritePot ==
    ASSUME Shapes, NEW k \in Knobs \cup {None}, NEW landed \in BOOLEAN, Write("pots", k, landed)
    PROVE  /\ nv' \in NvRecs /\ nv'.cfg = nv.cfg /\ nv'.pins = nv.pins
           /\ used' \in UsedRecs /\ used'.faults \in {used.faults, used.faults + 1}
<1>1. used.faults \in 0 .. MaxFaults
  BY DEF Shapes, UsedRecs
<1>2. CASE landed /\ nv' = [nv EXCEPT !["pots"] = k] /\ UNCHANGED used
  BY <1>2 DEF Shapes, NvRecs
<1>3. CASE ~landed /\ used.faults < MaxFaults /\ UNCHANGED nv /\ used' = [used EXCEPT !.faults = @ + 1]
  <2>1. used.faults + 1 \in 0 .. MaxFaults
    BY <1>1, <1>3, Limits
  <2>2. used' \in UsedRecs /\ used'.faults = used.faults + 1
    BY <1>3, <2>1 DEF Shapes, UsedRecs
  <2> QED
    BY <1>3, <2>2 DEF Shapes
<1> QED
  BY <1>2, <1>3 DEF Write

-----------------------------------------------------------------------------
(* Steps that start the chip over *)

\* Nothing in RAM, and nothing running.
Blank ==
    /\ at \in {"off", "asleep", "button"} /\ ram = BlankRam
    /\ woke \in BOOLEAN /\ radio = FALSE /\ link = FALSE /\ reboot = FALSE
    /\ grace = NoGrace /\ job = [s \in Savers |-> NoJob] /\ clock = NewClock

\* The books, but for the audio that runs.
SameBooks ==
    /\ past' \in PastRecs /\ past'.came = past.came /\ past'.swapped = past.swapped
    /\ past'.runs = past.runs /\ past'.failed = past.failed /\ past'.raced = past.raced

Wipe ==
    /\ Blank' /\ nv' = nv /\ SameBooks
    /\ used' \in UsedRecs /\ used'.faults \in {used.faults, used.faults + 1}

\* What a restart forgets.
LEMMA Forgets ==
    ASSUME NEW next \in {"off", "asleep", "button"}, NEW byButton \in BOOLEAN,
           Forget(next, byButton)
    PROVE  Blank'
BY DEF Forget, Blank

\* The books with another bus, or none.
LEMMA OtherBus ==
    ASSUME Shapes, \/ past' = past
                   \/ \E b \in PinSets \cup {None} : past' = [past EXCEPT !.bus = b]
    PROVE  SameBooks
BY DEF Shapes, PastRecs, SameBooks

\* Power and the button keep flash and the books.
LEMMA SwitchRow ==
    ASSUME Shapes, PowerOn \/ PowerCycle \/ Trouble \/ SwitchOff \/ Press \/ Reboot
    PROVE  Wipe
<1>1. Blank'
  <2>1. PowerOn \/ Reboot \/ PowerCycle => Blank'
    BY Forgets DEF PowerOn, Reboot, PowerCycle, Restart
  <2>2. Trouble => Blank'
    BY Forgets DEF Trouble, Restart
  <2>3. SwitchOff \/ Press => Blank'
    BY Forgets DEF SwitchOff, Press
  <2> QED
    BY <2>1, <2>2, <2>3
<1>2. nv' = nv
  BY DEF PowerOn, PowerCycle, Trouble, SwitchOff, Press, Reboot
<1>3. past' = past \/ past' = [past EXCEPT !.bus = None]
  BY DEF PowerOn, PowerCycle, Trouble, SwitchOff, Press, Reboot
<1>4. SameBooks
  BY <1>3, OtherBus
<1>5. used' = used \/ (used' = [used EXCEPT !.trouble = @ + 1] /\ used.trouble < MaxTrouble)
  BY DEF PowerOn, PowerCycle, Trouble, SwitchOff, Press, Reboot
<1>6. used.trouble \in 0 .. MaxTrouble /\ used \in UsedRecs
  BY DEF Shapes, UsedRecs
<1>7. used.trouble < MaxTrouble => used.trouble + 1 \in 0 .. MaxTrouble
  BY <1>6, Limits
<1>8. used' \in UsedRecs /\ used'.faults = used.faults
  BY <1>5, <1>6, <1>7 DEF UsedRecs
<1> QED
  BY <1>1, <1>2, <1>4, <1>8 DEF Wipe

\* So does the root guard.
LEMMA GuardRow ==
    ASSUME Shapes, Restart, past' = [past EXCEPT !.bus = None], UNCHANGED <<nv, used>>
    PROVE  Wipe
<1>1. Blank'
  BY Forgets DEF Restart
<1>2. SameBooks
  BY OtherBus
<1> QED
  BY <1>1, <1>2 DEF Wipe, Shapes

\* And a first start that cannot store its configuration.
LEMMA UnstoredRow ==
    ASSUME Shapes, Write("cfg", Seeded, FALSE), Restart, UNCHANGED past
    PROVE  Wipe
<1>1. Blank'
  BY Forgets DEF Restart
<1>2. SameBooks
  BY OtherBus
<1>3. nv' = nv /\ used' \in UsedRecs /\ used'.faults \in {used.faults, used.faults + 1}
  BY WriteCfg, Defaults
<1> QED
  BY <1>1, <1>2, <1>3 DEF Wipe

\* A blank device has the types, runs nothing, and no pair of it clashes.
LEMMA BlankStart ==
    ASSUME BootAssumption, Blank', nv' \in NvRecs, used' \in UsedRecs, past' \in PastRecs
    PROVE  Shapes' /\ Alone' /\ Below' /\ PairsApart'
<1>1. Shapes'
  BY Defaults DEF Blank, Shapes, Running
<1>2. Alone'
  BY Defaults DEF Blank, Alone, Early
<1>3. Below'
  BY Defaults DEF Blank, Below
<1>4. PairsApart'
  BY Defaults DEF Blank, PairsApart, KnobApart
<1> QED
  BY <1>1, <1>2, <1>3, <1>4

-----------------------------------------------------------------------------
(* Types, and who runs when *)

\* What LoadPins computes.
LEMMA LoadedPins ==
    ASSUME Shapes
    PROVE  /\ Loaded \in PinRecs
           /\ \/ Loaded = Default
              \/ /\ nv.pins \in PinRecs /\ nv.pins # None /\ nv.pins.trial \in 0 .. TrialBootsMax
                 /\ Loaded.set = nv.pins.set
                 /\ Loaded.trial = IF nv.pins.trial = 0 THEN 0 ELSE nv.pins.trial + 1
<1>1. CASE nv.pins = None \/ nv.pins.trial > TrialBootsMax
  BY <1>1, Defaults DEF Loaded
<1>2. CASE nv.pins # None /\ ~(nv.pins.trial > TrialBootsMax)
  <2>1. nv.pins \in PinRecs
    BY <1>2 DEF Shapes, NvRecs
  <2>2. nv.pins.trial \in Int /\ nv.pins.trial \in 0 .. TrialBootsMax
    BY <1>2, <2>1, Limits DEF PinRecs, Trials
  <2>3. CASE nv.pins.trial = 0
    BY <1>2, <2>1, <2>2, <2>3 DEF Loaded
  <2>4. CASE nv.pins.trial # 0
    <3>1. Loaded = [nv.pins EXCEPT !.trial = @ + 1]
      BY <1>2, <2>4 DEF Loaded
    <3>2. nv.pins.trial + 1 \in Trials
      BY <2>2, Limits DEF Trials
    <3>3. Loaded \in PinRecs /\ Loaded.set = nv.pins.set /\ Loaded.trial = nv.pins.trial + 1
      BY <2>1, <3>1, <3>2 DEF PinRecs
    <3> QED
      BY <1>2, <2>1, <2>2, <2>4, <3>3
  <2> QED
    BY <2>3, <2>4
<1> QED
  BY <1>1, <1>2

LEMMA LoadedPair ==
    ASSUME Shapes, NEW pins \in PinRecs
    PROVE  LoadedKnob(pins) \in Knobs /\ <<pins.set, LoadedKnob(pins)>> \notin Clash
<1>1. nv.pots \in Knobs \cup {None}
  BY DEF Shapes, NvRecs
<1>2. (IF nv.pots = None THEN DefaultKnob ELSE nv.pots) \in Knobs
  BY <1>1, BootAssumption
<1>3. NoKnob \in Knobs
  BY BootAssumption
<1> QED
  BY <1>2, <1>3, Defaults DEF LoadedKnob

LEMMA PowerButtonBootSound == ASSUME Sound, PowerButtonBoot PROVE Sound'
BY DEF Sound, PowerButtonBoot, Shapes, Running, Alone, Early, Below

LEMMA LoadPinsRow ==
    ASSUME Shapes, LoadPins
    PROVE  /\ at = "load" /\ at' = "seed"
           /\ ram' \in RamRecs /\ ram'.cfg = ram.cfg /\ ram'.reason = ram.reason
           /\ ram'.pins = Loaded /\ ram'.boot = Loaded /\ ram'.pots = LoadedKnob(Loaded)
           /\ nv' \in NvRecs /\ nv'.cfg = nv.cfg
           /\ used' \in UsedRecs
           /\ \/ nv'.pins = Loaded /\ used' = used
              \/ nv'.pins = nv.pins /\ nv.pins = None /\ used' = used
              \/ nv'.pins = nv.pins /\ used'.faults = used.faults + 1
           /\ UNCHANGED <<woke, radio, link, grace, job, reboot, clock, past>>
<1>1. Loaded \in PinRecs /\ LoadedKnob(Loaded) \in Knobs
  BY LoadedPins, LoadedPair
<1>2. ram' = [ram EXCEPT !.pins = Loaded, !.boot = Loaded, !.pots = LoadedKnob(Loaded)]
  BY DEF LoadPins
<1>3. /\ ram' \in RamRecs /\ ram'.cfg = ram.cfg /\ ram'.reason = ram.reason
      /\ ram'.pins = Loaded /\ ram'.boot = Loaded /\ ram'.pots = LoadedKnob(Loaded)
  BY <1>1, <1>2 DEF Shapes, RamRecs
<1>4. /\ nv' \in NvRecs /\ nv'.cfg = nv.cfg
      /\ used' \in UsedRecs
      /\ \/ nv'.pins = Loaded /\ used' = used
         \/ nv'.pins = nv.pins /\ nv.pins = None /\ used' = used
         \/ nv'.pins = nv.pins /\ used'.faults = used.faults + 1
  <2>1. CASE nv.pins # None /\ nv.pins # Loaded
    <3>1. PICK landed \in BOOLEAN : Write("pins", Loaded, landed)
      BY <2>1 DEF LoadPins
    <3> QED
      BY <1>1, <3>1, WritePin
  <2>2. CASE ~(nv.pins # None /\ nv.pins # Loaded)
    BY <2>2 DEF LoadPins, Shapes
  <2> QED
    BY <2>1, <2>2
<1> QED
  BY <1>3, <1>4 DEF LoadPins

LEMMA LoadPinsSound == ASSUME Sound, LoadPins PROVE Sound'
<1>1. Shapes'
  BY LoadPinsRow DEF Sound, Shapes, Running
<1>2. Alone' /\ Below'
  BY LoadPinsRow DEF Sound, Alone, Early, Below
<1> QED
  BY <1>1, <1>2 DEF Sound

\* Apart from a failed first start, which is UnstoredRow's.
LEMMA LoadConfigRow ==
    ASSUME Shapes, LoadConfig
    PROVE  \/ Wipe
           \/ /\ at = "seed" /\ at' = "mesh"
              /\ ram' \in RamRecs /\ ram'.pins = ram.pins /\ ram'.boot = ram.boot
              /\ ram'.pots = ram.pots /\ ram'.reason = ram.reason
              /\ \/ nv.cfg # None /\ ram'.cfg = nv.cfg /\ nv' = nv /\ past' = past
                    /\ ram'.first = ram.first
                 \/ /\ nv'.cfg = Seeded /\ ram'.cfg = Seeded
                    /\ past' = [past EXCEPT !.failed = 0]
              /\ nv' \in NvRecs /\ nv'.pins = nv.pins
              /\ used' = used /\ past' \in PastRecs
              /\ UNCHANGED <<woke, radio, link, grace, job, reboot, clock>>
<1>1. CASE nv.cfg # None
  <2>1. nv.cfg \in Cfgs
    BY <1>1 DEF Shapes, NvRecs
  <2>2. ram' = [ram EXCEPT !.cfg = nv.cfg]
    BY <1>1 DEF LoadConfig
  <2>3. /\ ram' \in RamRecs /\ ram'.pins = ram.pins /\ ram'.boot = ram.boot
        /\ ram'.pots = ram.pots /\ ram'.reason = ram.reason /\ ram'.cfg = nv.cfg
        /\ ram'.first = ram.first
    BY <2>1, <2>2 DEF Shapes, RamRecs
  <2> QED
    BY <1>1, <2>3 DEF LoadConfig, Shapes
<1>2. CASE /\ nv.cfg = None /\ Write("cfg", Seeded, TRUE)
           /\ at' = "mesh" /\ ram' = [ram EXCEPT !.cfg = Seeded, !.first = TRUE]
           /\ past' = [past EXCEPT !.failed = 0]
           /\ UNCHANGED <<woke, radio, link, grace, job, reboot, clock>>
  <2>1. nv' \in NvRecs /\ nv'.cfg = Seeded /\ nv'.pins = nv.pins /\ used' = used
    BY <1>2, WriteCfg, Defaults
  <2>2. /\ ram' \in RamRecs /\ ram'.pins = ram.pins /\ ram'.boot = ram.boot
        /\ ram'.pots = ram.pots /\ ram'.reason = ram.reason /\ ram'.cfg = Seeded
    BY <1>2, Defaults DEF Shapes, RamRecs
  <2>3. past' \in PastRecs
    BY <1>2 DEF Shapes, PastRecs
  <2> QED
    BY <1>2, <2>1, <2>2, <2>3 DEF LoadConfig
<1>3. CASE nv.cfg = None /\ Write("cfg", Seeded, FALSE) /\ Restart /\ UNCHANGED past
  BY <1>3, UnstoredRow
<1> QED
  BY <1>1, <1>2, <1>3 DEF LoadConfig

LEMMA WipeSound == ASSUME Sound, Wipe PROVE Sound'
BY BlankStart, BootAssumption DEF Sound, Wipe, SameBooks, Shapes

LEMMA LoadConfigSound == ASSUME Sound, LoadConfig PROVE Sound'
<1>1. CASE Wipe
  BY <1>1, WipeSound
<1>2. CASE ~Wipe
  <2>1. Shapes'
    BY <1>2, LoadConfigRow DEF Sound, Shapes, Running
  <2>2. Alone' /\ Below'
    BY <1>2, LoadConfigRow DEF Sound, Alone, Early, Below
  <2> QED
    BY <2>1, <2>2 DEF Sound
<1> QED
  BY <1>1, <1>2

LEMMA StartMeshSound == ASSUME Sound, StartMesh PROVE Sound'
<1>1. Shapes'
  BY DEF Sound, StartMesh, Shapes, Running
<1>2. Alone'
  BY DEF Sound, StartMesh, Alone, Early
<1>3. ram.cfg.fails \in Int
  BY Limits DEF Sound, Shapes, RamRecs, Cfgs, Fails
<1>4. ~(ram.cfg.fails >= FailThreshold)
  BY DEF StartMesh, Decided
<1>5. Below'
  BY <1>3, <1>4, Limits DEF StartMesh, Below
<1> QED
  BY <1>1, <1>2, <1>5 DEF Sound

LEMMA StartFallbackApSound == ASSUME Sound, StartFallbackAp PROVE Sound'
<1>1. Decided \in Reasons
  BY DEF Decided, Reasons
<1>2. ram' \in RamRecs /\ ram'.cfg = ram.cfg
  BY <1>1 DEF Sound, Shapes, RamRecs, StartFallbackAp
<1>3. Shapes'
  BY <1>2 DEF Sound, StartFallbackAp, Shapes, Running
<1>4. Alone' /\ Below'
  BY <1>2 DEF Sound, StartFallbackAp, Alone, Below, Early
<1> QED
  BY <1>3, <1>4 DEF Sound

LEMMA ArmGraceWindowSound == ASSUME Sound, ArmGraceWindow PROVE Sound'
<1>1. GraceWindow \in 0 .. GraceWindow
  BY Limits
<1>2. grace' = [[NoGrace EXCEPT !.at = "wait"] EXCEPT !.left = GraceWindow] /\ NoGrace \in GraceRecs
  BY Defaults DEF ArmGraceWindow
<1>3. grace' \in GraceRecs
  BY <1>1, <1>2 DEF GraceRecs
<1>4. Shapes'
  BY <1>3 DEF Sound, ArmGraceWindow, Shapes, Running
<1>5. Alone' /\ Below'
  BY DEF Sound, ArmGraceWindow, Alone, Below, Early
<1> QED
  BY <1>4, <1>5 DEF Sound

LEMMA JoinRow ==
    ASSUME Shapes, Join
    PROVE  /\ radio /\ grace' \in GraceRecs /\ grace'.at = grace.at /\ grace'.cfg = grace.cfg
           /\ used' \in UsedRecs /\ used'.faults = used.faults
           /\ link' = TRUE /\ UNCHANGED <<nv, ram, at, woke, radio, job, reboot, clock, past>>
<1>1. used.joins \in 0 .. MaxJoins
  BY DEF Shapes, UsedRecs
<1>2. used.joins + 1 \in 0 .. MaxJoins
  BY <1>1, Limits DEF Join
<1>3. used' \in UsedRecs /\ used'.faults = used.faults
  BY <1>2 DEF Join, Shapes, UsedRecs
<1>4. grace' \in GraceRecs /\ grace'.at = grace.at /\ grace'.cfg = grace.cfg
  BY DEF Join, Shapes, GraceRecs
<1> QED
  BY <1>3, <1>4 DEF Join

LEMMA JoinSound == ASSUME Sound, Join PROVE Sound'
<1>1. Shapes'
  BY JoinRow DEF Sound, Shapes
<1>2. Alone' /\ Below'
  BY JoinRow DEF Sound, Alone, Below, Early
<1> QED
  BY <1>1, <1>2 DEF Sound

LEMMA ApTimeoutSound == ASSUME Sound, ApTimeout PROVE Sound'
BY DEF Sound, ApTimeout, Shapes, Alone, Below, Early

LEMMA RunsCounted ==
    ASSUME Shapes, NEW p \in PinSets
    PROVE  UpTo(past.runs[p] + 1, MostRuns) \in Nat
<1>1. past.runs[p] \in Nat
  BY DEF Shapes, PastRecs
<1>2. MostRuns \in Nat
  BY Limits DEF MostRuns
<1> QED
  BY <1>1, <1>2 DEF UpTo

LEMMA StartAudioRow ==
    ASSUME Shapes, StartAudio
    PROVE  /\ at = "i2s" /\ nv' = nv /\ used' = used /\ past' \in PastRecs
           /\ past'.failed = past.failed /\ past'.raced = past.raced
           /\ past'.swapped = past.swapped /\ ram.pins.set \in PinSets
           /\ \/ /\ ram.pins.set \in Bad /\ Blank' /\ past'.came = past.came
                 /\ past'.runs = [past.runs EXCEPT ![ram.pins.set] = UpTo(@ + 1, MostRuns)]
              \/ /\ ram.pins.set \notin Bad /\ at' = "confirm"
                 /\ past'.runs = past.runs /\ past'.bus = ram.pins.set
                 /\ past'.came = past.came \cup {ram.pins.set}
                 /\ UNCHANGED <<ram, woke, radio, link, grace, job, reboot, clock>>
<1>1. ram.pins.set \in PinSets
  BY DEF Shapes, RamRecs, PinRecs
<1>2. CASE ram.pins.set \in Bad
  <2>1. UpTo(past.runs[ram.pins.set] + 1, MostRuns) \in Nat
    BY <1>1, RunsCounted
  <2>2. past' = [past EXCEPT !.runs[ram.pins.set] = UpTo(@ + 1, MostRuns)]
    BY <1>2 DEF StartAudio
  <2>3. /\ past' \in PastRecs
        /\ past'.runs = [past.runs EXCEPT ![ram.pins.set] = UpTo(@ + 1, MostRuns)]
        /\ past'.failed = past.failed /\ past'.raced = past.raced
        /\ past'.swapped = past.swapped /\ past'.came = past.came
    BY <1>1, <2>1, <2>2 DEF Shapes, PastRecs
  <2>4. Blank'
    BY <1>2, Forgets DEF StartAudio, Restart
  <2> QED
    BY <1>1, <1>2, <2>3, <2>4 DEF StartAudio
<1>3. CASE ram.pins.set \notin Bad
  <2>1. past' = [past EXCEPT !.bus = ram.pins.set, !.came = @ \cup {ram.pins.set}]
    BY <1>3 DEF StartAudio
  <2>2. /\ past' \in PastRecs /\ past'.runs = past.runs /\ past'.bus = ram.pins.set
        /\ past'.failed = past.failed /\ past'.raced = past.raced
        /\ past'.swapped = past.swapped /\ past'.came = past.came \cup {ram.pins.set}
    BY <1>1, <2>1 DEF Shapes, PastRecs
  <2> QED
    BY <1>1, <1>3, <2>2 DEF StartAudio
<1> QED
  BY <1>2, <1>3

LEMMA StartAudioSound == ASSUME Sound, StartAudio PROVE Sound'
<1>1. CASE Blank'
  BY <1>1, StartAudioRow, BlankStart, BootAssumption DEF Sound, Shapes
<1>2. CASE ~Blank'
  <2>1. Shapes'
    BY <1>2, StartAudioRow DEF Sound, Shapes, Running
  <2>2. Alone' /\ Below'
    BY <1>2, StartAudioRow DEF Sound, Alone, Below, Early
  <2> QED
    BY <2>1, <2>2 DEF Sound
<1> QED
  BY <1>1, <1>2

LEMMA ConfirmReadRow ==
    ASSUME Shapes, ConfirmRead
    PROVE  /\ at = "confirm" /\ at' \in {"write", "up"} /\ (at' = "write" => OnTrial)
           /\ past' \in PastRecs /\ past'.came = past.came /\ past'.runs = past.runs
           /\ past'.failed = past.failed /\ past'.raced = past.raced
           /\ past.swapped \subseteq past'.swapped
           /\ OnTrial /\ past.bus # ram.pins.set => ram.pins.set \in past'.swapped
           /\ UNCHANGED <<nv, ram, woke, radio, link, grace, job, reboot, clock, used>>
<1>1. ram.pins.set \in PinSets
  BY DEF Shapes, RamRecs, PinRecs
<1>2. past' = [past EXCEPT !.bus = None,
                  !.swapped = IF OnTrial /\ past.bus # ram.pins.set
                              THEN @ \cup {ram.pins.set} ELSE @]
  BY DEF ConfirmRead
<1>3. /\ past' \in PastRecs /\ past'.came = past.came /\ past'.runs = past.runs
      /\ past'.failed = past.failed /\ past'.raced = past.raced
      /\ past.swapped \subseteq past'.swapped
      /\ OnTrial /\ past.bus # ram.pins.set => ram.pins.set \in past'.swapped
  BY <1>1, <1>2 DEF Shapes, PastRecs
<1> QED
  BY <1>3 DEF ConfirmRead

LEMMA ConfirmReadSound == ASSUME Sound, ConfirmRead PROVE Sound'
<1>1. Shapes'
  BY ConfirmReadRow DEF Sound, Shapes, Running
<1>2. Alone' /\ Below'
  BY ConfirmReadRow DEF Sound, Alone, Below, Early
<1> QED
  BY <1>1, <1>2 DEF Sound

LEMMA ConfirmWriteRow ==
    ASSUME Shapes, ConfirmWrite
    PROVE  /\ at = "write" /\ nv' \in NvRecs /\ nv'.cfg = nv.cfg
           /\ used' \in UsedRecs /\ used'.faults \in {used.faults, used.faults + 1}
           /\ \/ nv'.pins = Confirmed /\ at' = "clear" /\ used' = used
              \/ nv'.pins = nv.pins /\ at' = "up"
           /\ UNCHANGED <<ram, woke, radio, link, grace, job, reboot, clock, past>>
<1>1. Confirmed \in PinRecs
  BY Limits DEF Confirmed, PinRecs, Trials, Shapes, RamRecs
<1>2. PICK landed \in BOOLEAN : Write("pins", Confirmed, landed) /\ at' = IF landed THEN "clear" ELSE "up"
  BY DEF ConfirmWrite
<1> QED
  BY <1>1, <1>2, WritePin DEF ConfirmWrite

LEMMA ConfirmWriteSound == ASSUME Sound, ConfirmWrite PROVE Sound'
<1>1. Shapes'
  BY ConfirmWriteRow DEF Sound, Shapes, Running
<1>2. Alone' /\ Below'
  BY ConfirmWriteRow DEF Sound, Alone, Below, Early
<1> QED
  BY <1>1, <1>2 DEF Sound

LEMMA ConfirmClearRow ==
    ASSUME Shapes, ConfirmClear
    PROVE  /\ at = "clear" /\ at' = "up" /\ ram' \in RamRecs
           /\ ram'.cfg = ram.cfg /\ ram'.boot = ram.boot /\ ram'.pots = ram.pots
           /\ ram'.reason = ram.reason
           /\ ram'.pins.set = ram.pins.set
           /\ ram'.pins.trial = IF ram.pins.set = ram.boot.set THEN 0 ELSE ram.pins.trial
           /\ UNCHANGED <<nv, woke, radio, link, grace, job, reboot, clock, used, past>>
<1>1. ram.pins \in PinRecs /\ 0 \in Trials
  BY Limits DEF Shapes, RamRecs, Trials
<1>2. CASE ram.pins.set = ram.boot.set
  <2>1. ram' = [ram EXCEPT !.pins.trial = 0]
    BY <1>2 DEF ConfirmClear
  <2>2. /\ ram' \in RamRecs /\ ram'.cfg = ram.cfg /\ ram'.boot = ram.boot /\ ram'.pots = ram.pots
        /\ ram'.reason = ram.reason
        /\ ram'.pins.set = ram.pins.set /\ ram'.pins.trial = 0
    BY <1>1, <2>1 DEF Shapes, RamRecs, PinRecs
  <2> QED
    BY <1>2, <2>2 DEF ConfirmClear
<1>3. CASE ram.pins.set # ram.boot.set
  BY <1>3 DEF ConfirmClear, Shapes
<1> QED
  BY <1>2, <1>3

LEMMA ConfirmClearSound == ASSUME Sound, ConfirmClear PROVE Sound'
<1>1. Shapes'
  BY ConfirmClearRow DEF Sound, Shapes, Running
<1>2. Alone' /\ Below'
  BY ConfirmClearRow DEF Sound, Alone, Below, Early
<1> QED
  BY <1>1, <1>2 DEF Sound

\* A unit of time either restarts the device or changes two clocks.
LEMMA TickRow ==
    ASSUME Shapes, Tick
    PROVE  \/ Wipe
           \/ /\ clock' \in ClockRecs /\ grace' \in GraceRecs
              /\ grace'.at = grace.at /\ grace'.cfg = grace.cfg
              /\ UNCHANGED <<nv, ram, at, woke, radio, link, job, reboot, used, past>>
<1>1. clock.up \in 0 .. MinUptime /\ clock.checks \in 0 .. ConfirmChecks /\ clock.quiet \in 0 .. LocalQuiet
  BY DEF Shapes, ClockRecs
<1>2. CASE /\ clock' = [clock EXCEPT !.up = 1]
           /\ UNCHANGED <<nv, ram, at, woke, radio, link, grace, job, reboot, used, past>>
  <2>1. 1 \in 0 .. MinUptime
    BY Limits
  <2>2. clock' \in ClockRecs
    BY <1>2, <2>1 DEF Shapes, ClockRecs
  <2> QED
    BY <1>2, <2>2 DEF Shapes
<1>3. ASSUME NEW level \in Levels, NEW playing \in LocalInput,
             clock' = Later(level, playing), grace.at = "wait" => grace.left > 0,
             grace' = IF grace.at = "wait" THEN [grace EXCEPT !.left = @ - 1] ELSE grace,
             UNCHANGED <<nv, ram, at, woke, radio, link, job, reboot, used, past>>
      PROVE  /\ clock' \in ClockRecs /\ grace' \in GraceRecs
             /\ grace'.at = grace.at /\ grace'.cfg = grace.cfg
  <2>1. UpTo(clock.up + 1, MinUptime) \in 0 .. MinUptime
    BY <1>1, Limits DEF UpTo
  <2>2. UpTo(clock.checks + 1, ConfirmChecks) \in 0 .. ConfirmChecks /\ 0 \in 0 .. ConfirmChecks
    BY <1>1, Limits DEF UpTo
  <2>3. UpTo(clock.quiet + 1, LocalQuiet) \in 0 .. LocalQuiet /\ 0 \in 0 .. LocalQuiet
    BY <1>1, Limits DEF UpTo
  <2>4. clock' \in ClockRecs
    BY <1>3, <2>1, <2>2, <2>3 DEF Later, ClockRecs
  <2>5. grace.left \in 0 .. GraceWindow
    BY DEF Shapes, GraceRecs
  <2>6. grace.at = "wait" => grace.left - 1 \in 0 .. GraceWindow
    BY <1>3, <2>5, Limits
  <2>7. grace' \in GraceRecs /\ grace'.at = grace.at /\ grace'.cfg = grace.cfg
    BY <1>3, <2>6 DEF Shapes, GraceRecs
  <2> QED
    BY <2>4, <2>7
<1>4. CASE Restart /\ past' = [past EXCEPT !.bus = None] /\ UNCHANGED <<nv, used>>
  BY <1>4, GuardRow
<1> QED
  BY <1>2, <1>3, <1>4 DEF Tick

LEMMA TickSound == ASSUME Sound, Tick PROVE Sound'
<1>1. CASE Wipe
  BY <1>1, WipeSound
<1>2. CASE ~Wipe
  <2>1. Shapes'
    BY <1>2, TickRow DEF Sound, Shapes
  <2>2. Alone' /\ Below'
    BY <1>2, TickRow DEF Sound, Alone, Below, Early
  <2> QED
    BY <2>1, <2>2 DEF Sound
<1> QED
  BY <1>1, <1>2

-----------------------------------------------------------------------------
(* What the savers do *)

\* One saver's job changes, to j.
Turn(s, j) == job' = [job EXCEPT ![s] = j]

LEMMA JobTurns ==
    ASSUME Shapes, NEW s \in Savers, NEW j \in JobRecs, Turn(s, j)
    PROVE  /\ job' \in [Savers -> JobRecs] /\ job'[s] = j
           /\ \A t \in Savers : t # s => job'[t] = job[t]
BY DEF Turn, Shapes

LEMMA PostRow ==
    ASSUME Shapes, NEW s \in Savers, Post(s)
    PROVE  /\ Reachable(s) /\ used' \in UsedRecs /\ used'.faults = used.faults
           /\ \E j \in JobRecs : /\ Turn(s, j) /\ j.at = "blob"
                                 /\ <<j.pins.set, j.knob>> \notin Clash
           /\ UNCHANGED <<nv, ram, at, woke, radio, link, grace, reboot, clock, past>>
<1>1. used.posts \in 0 .. MaxPosts
  BY DEF Shapes, UsedRecs
<1>2. used.posts + 1 \in 0 .. MaxPosts
  BY <1>1, Limits DEF Post
<1>3. used' \in UsedRecs /\ used'.faults = used.faults
  BY <1>2 DEF Post, Shapes, UsedRecs
<1>4. PICK form \in Forms, set \in PinSets, knob \in Knobs :
        /\ <<set, knob>> \notin Clash
        /\ job' = [job EXCEPT ![s] = [at |-> "blob", form |-> form,
                      pins |-> [ram.pins EXCEPT !.set = set], knob |-> knob,
                      moved |-> \/ set # ram.pins.set \/ knob # ram.pots
                                \/ (form \in MeshForms) # (ram.cfg.form \in MeshForms)
                                \/ ram.reason # "none"]]
  BY DEF Post, SetJob
<1> DEFINE moved == \/ set # ram.pins.set \/ knob # ram.pots
                    \/ (form \in MeshForms) # (ram.cfg.form \in MeshForms)
                    \/ ram.reason # "none"
           j == [at |-> "blob", form |-> form,
                 pins |-> [ram.pins EXCEPT !.set = set], knob |-> knob, moved |-> moved]
<1>5. Turn(s, j)
  BY <1>4 DEF Turn
<1>6. moved \in BOOLEAN
  OBVIOUS
<1>7. [ram.pins EXCEPT !.set = set] \in PinRecs /\ [ram.pins EXCEPT !.set = set].set = set
  BY DEF Shapes, RamRecs, PinRecs
<1> HIDE DEF moved
<1>8. j \in JobRecs /\ j.at = "blob" /\ j.pins.set = set /\ j.knob = knob
  BY <1>6, <1>7 DEF JobRecs
<1> HIDE DEF j
<1> QED
  BY <1>3, <1>4, <1>5, <1>8 DEF Post

LEMMA SavedCfgIs ==
    ASSUME Shapes, NEW s \in Savers PROVE SavedCfg(s) \in Cfgs /\ SavedCfg(s).fails = 0
<1>1. job[s].form \in Forms
  BY DEF Shapes, JobRecs
<1> QED
  BY <1>1, Limits DEF SavedCfg, Cfgs, Fails

\* A job that goes on to its next stage, or ends, keeps its pair.
LEMMA NextStage ==
    ASSUME Shapes, NEW s \in Savers,
           NEW stage \in {"cache", "pair", "pins", "both", "rest", "last"}
    PROVE  /\ [job[s] EXCEPT !.at = stage] \in JobRecs
           /\ [job[s] EXCEPT !.at = stage].at = stage
           /\ [job[s] EXCEPT !.at = stage].pins = job[s].pins
           /\ [job[s] EXCEPT !.at = stage].knob = job[s].knob
BY DEF Shapes, JobRecs

LEMMA WriteConfigRow ==
    ASSUME Shapes, NEW s \in Savers, WriteConfig(s)
    PROVE  /\ job[s].at = "blob" /\ nv' \in NvRecs /\ nv'.pins = nv.pins
           /\ used' \in UsedRecs /\ used'.faults \in {used.faults, used.faults + 1}
           /\ past' \in PastRecs /\ past'.came = past.came /\ past'.swapped = past.swapped
           /\ past'.runs = past.runs /\ past'.bus = past.bus
           /\ \/ /\ nv'.cfg = SavedCfg(s) /\ Turn(s, [job[s] EXCEPT !.at = "cache"])
                 /\ past'.failed = 0 /\ past'.raced = Counting
              \/ nv'.cfg = nv.cfg /\ Turn(s, NoJob) /\ past' = past
           /\ UNCHANGED <<ram, at, woke, radio, link, grace, reboot, clock>>
<1>1. PICK landed \in BOOLEAN :
         /\ Write("cfg", SavedCfg(s), landed)
         /\ SetJob(s, IF landed THEN [job[s] EXCEPT !.at = "cache"] ELSE NoJob)
         /\ past' = IF ~landed THEN past
                    ELSE [past EXCEPT !.failed = 0, !.raced = Counting]
  BY DEF WriteConfig
<1>2. /\ nv' \in NvRecs /\ nv'.pins = nv.pins /\ used' \in UsedRecs
      /\ used'.faults \in {used.faults, used.faults + 1}
      /\ landed => nv'.cfg = SavedCfg(s)
      /\ ~landed => nv' = nv
  BY <1>1, WriteCfg, SavedCfgIs
<1>3. Counting \in BOOLEAN
  BY DEF Counting
<1>4. landed => past' = [past EXCEPT !.failed = 0, !.raced = Counting]
  BY <1>1
<1>5. landed => /\ past' \in PastRecs /\ past'.came = past.came /\ past'.swapped = past.swapped
                /\ past'.runs = past.runs /\ past'.bus = past.bus
                /\ past'.failed = 0 /\ past'.raced = Counting
  <2>1. past \in PastRecs /\ 0 \in Nat
    BY DEF Shapes
  <2> DEFINE w == Counting
             f == 0
  <2>2. landed => past' = [past EXCEPT !.failed = f, !.raced = w]
    BY <1>4
  <2>3. f \in Nat /\ w \in BOOLEAN
    BY <1>3
  <2> HIDE DEF f, w
  <2>4. landed => /\ past' \in PastRecs /\ past'.came = past.came /\ past'.swapped = past.swapped
                  /\ past'.runs = past.runs /\ past'.bus = past.bus
                  /\ past'.failed = f /\ past'.raced = w
    BY <2>1, <2>2, <2>3 DEF PastRecs
  <2> QED
    BY <2>4 DEF f, w
<1>6. ~landed => past' = past /\ past \in PastRecs
  BY <1>1 DEF Shapes
<1>7. landed => Turn(s, [job[s] EXCEPT !.at = "cache"])
  BY <1>1 DEF SetJob, Turn
<1>8. ~landed => Turn(s, NoJob)
  BY <1>1 DEF SetJob, Turn
<1> QED
  BY <1>1, <1>2, <1>5, <1>6, <1>7, <1>8 DEF WriteConfig

LEMMA CacheConfigRow ==
    ASSUME Shapes, NEW s \in Savers, CacheConfig(s)
    PROVE  /\ job[s].at = "cache" /\ ram' \in RamRecs /\ ram'.cfg = SavedCfg(s)
           /\ ram'.pins = ram.pins /\ ram'.boot = ram.boot /\ ram'.pots = ram.pots
           /\ ram'.reason = ram.reason
           /\ past' \in PastRecs /\ past'.came = past.came /\ past'.swapped = past.swapped
           /\ past'.runs = past.runs /\ past'.bus = past.bus
           /\ past'.failed = past.failed /\ past'.raced = (past.raced \/ Counting)
           /\ Turn(s, [job[s] EXCEPT !.at = "pair"])
           /\ UNCHANGED <<nv, at, woke, radio, link, grace, reboot, clock, used>>
<1>1. ram' = [ram EXCEPT !.cfg = SavedCfg(s)]
  BY DEF CacheConfig
<1>2. /\ ram' \in RamRecs /\ ram'.cfg = SavedCfg(s)
      /\ ram'.pins = ram.pins /\ ram'.boot = ram.boot /\ ram'.pots = ram.pots
      /\ ram'.reason = ram.reason
  BY <1>1, SavedCfgIs DEF Shapes, RamRecs
<1>3. past.raced \in BOOLEAN /\ (past.raced \/ Counting) \in BOOLEAN
  BY DEF Shapes, PastRecs, Counting
<1>4. past' = [past EXCEPT !.raced = past.raced \/ Counting]
  BY DEF CacheConfig
<1>5. /\ past' \in PastRecs /\ past'.came = past.came /\ past'.swapped = past.swapped
      /\ past'.runs = past.runs /\ past'.bus = past.bus
      /\ past'.failed = past.failed /\ past'.raced = (past.raced \/ Counting)
  BY <1>3, <1>4 DEF Shapes, PastRecs
<1> QED
  BY <1>2, <1>5 DEF CacheConfig, Turn, SetJob

LEMMA CheckPairRow ==
    ASSUME Shapes, NEW s \in Savers, CheckPair(s)
    PROVE  /\ job[s].at = "pair"
           /\ \/ Turn(s, NoJob)
              \/ \E j \in JobRecs : /\ Turn(s, j) /\ j.at = "pots" /\ j.knob = job[s].knob
                                    /\ j.pins.set = job[s].pins.set
                                    /\ j.pins.trial = TrialFor(job[s].pins.set)
           /\ UNCHANGED <<nv, ram, at, woke, radio, link, grace, reboot, clock, used, past>>
<1>1. CASE ram.erased
  BY <1>1 DEF CheckPair, Turn, SetJob
<1>2. CASE ~ram.erased
  <2> DEFINE j == [job[s] EXCEPT !.at = "pots", !.pins.trial = TrialFor(job[s].pins.set)]
  <2>1. job[s] \in JobRecs /\ ram.pins.trial \in Trials /\ 1 \in Trials
    BY Limits DEF Shapes, RamRecs, PinRecs, Trials
  <2>2. TrialFor(job[s].pins.set) \in Trials
    BY <2>1 DEF TrialFor
  <2>3. [job[s].pins EXCEPT !.trial = TrialFor(job[s].pins.set)] \in PinRecs
    BY <2>1, <2>2 DEF JobRecs, PinRecs
  <2>4. /\ j \in JobRecs /\ j.at = "pots" /\ j.knob = job[s].knob
        /\ j.pins = [job[s].pins EXCEPT !.trial = TrialFor(job[s].pins.set)]
    BY <2>1, <2>3 DEF JobRecs
  <2>5. /\ j.pins.set = job[s].pins.set
        /\ j.pins.trial = TrialFor(job[s].pins.set)
    BY <2>1, <2>4 DEF JobRecs, PinRecs
  <2>6. Turn(s, j)
    BY <1>2 DEF CheckPair, Turn, SetJob
  <2> HIDE DEF j
  <2> QED
    BY <2>4, <2>5, <2>6 DEF CheckPair
<1> QED
  BY <1>1, <1>2

LEMMA WritePotsRow ==
    ASSUME Shapes, NEW s \in Savers, WritePots(s)
    PROVE  /\ job[s].at = "pots" /\ nv' \in NvRecs /\ nv'.cfg = nv.cfg /\ nv'.pins = nv.pins
           /\ used' \in UsedRecs /\ used'.faults \in {used.faults, used.faults + 1}
           /\ Turn(s, [job[s] EXCEPT !.at = "pins"]) \/ Turn(s, NoJob)
           /\ UNCHANGED <<ram, at, woke, radio, link, grace, reboot, clock, past>>
<1>1. job[s].knob \in Knobs
  BY DEF Shapes, JobRecs
<1>2. PICK landed \in BOOLEAN :
         /\ Write("pots", job[s].knob, landed)
         /\ SetJob(s, IF landed THEN [job[s] EXCEPT !.at = "pins"] ELSE NoJob)
  BY DEF WritePots
<1>3. Turn(s, [job[s] EXCEPT !.at = "pins"]) \/ Turn(s, NoJob)
  BY <1>2 DEF SetJob, Turn
<1> QED
  BY <1>1, <1>2, <1>3, WritePot DEF WritePots

LEMMA WritePinsRow ==
    ASSUME Shapes, NEW s \in Savers, WritePins(s)
    PROVE  /\ job[s].at = "pins" /\ nv' \in NvRecs /\ nv'.cfg = nv.cfg
           /\ used' \in UsedRecs /\ used'.faults \in {used.faults, used.faults + 1}
           /\ past' \in PastRecs /\ past'.came = past.came /\ past'.swapped = past.swapped
           /\ past'.bus = past.bus /\ past'.failed = past.failed /\ past'.raced = past.raced
           /\ \/ /\ nv'.pins = job[s].pins /\ used' = used
                 /\ Turn(s, [job[s] EXCEPT !.at = "both"])
                 /\ past'.runs = IF job[s].pins.trial = 1
                                 THEN [past.runs EXCEPT ![job[s].pins.set] = 0] ELSE past.runs
              \/ nv'.pins = nv.pins /\ Turn(s, NoJob) /\ past' = past
           /\ UNCHANGED <<ram, at, woke, radio, link, grace, reboot, clock>>
<1>1. job[s].pins \in PinRecs /\ job[s].pins.set \in PinSets
  BY DEF Shapes, JobRecs, PinRecs
<1>2. PICK landed \in BOOLEAN :
         /\ Write("pins", job[s].pins, landed)
         /\ SetJob(s, IF landed THEN [job[s] EXCEPT !.at = "both"] ELSE NoJob)
         /\ past' = IF landed /\ job[s].pins.trial = 1
                    THEN [past EXCEPT !.runs[job[s].pins.set] = 0] ELSE past
  BY DEF WritePins
<1>3. /\ nv' \in NvRecs /\ nv'.cfg = nv.cfg /\ used' \in UsedRecs
      /\ used'.faults \in {used.faults, used.faults + 1}
      /\ landed => nv'.pins = job[s].pins /\ used' = used
      /\ ~landed => nv' = nv
  BY <1>1, <1>2, WritePin
<1>4. CASE landed /\ job[s].pins.trial = 1
  <2>1. past' = [past EXCEPT !.runs[job[s].pins.set] = 0]
    BY <1>2, <1>4
  <2>2. /\ past' \in PastRecs /\ past'.came = past.came /\ past'.swapped = past.swapped
        /\ past'.bus = past.bus /\ past'.failed = past.failed /\ past'.raced = past.raced
        /\ past'.runs = [past.runs EXCEPT ![job[s].pins.set] = 0]
    BY <1>1, <2>1 DEF Shapes, PastRecs
  <2>3. Turn(s, [job[s] EXCEPT !.at = "both"])
    BY <1>2, <1>4 DEF SetJob, Turn
  <2> QED
    BY <1>3, <1>4, <2>2, <2>3 DEF WritePins
<1>5. CASE landed /\ job[s].pins.trial # 1
  <2>1. past' = past /\ past \in PastRecs
    BY <1>2, <1>5 DEF Shapes
  <2>2. Turn(s, [job[s] EXCEPT !.at = "both"])
    BY <1>2, <1>5 DEF SetJob, Turn
  <2> QED
    BY <1>3, <1>5, <2>1, <2>2 DEF WritePins
<1>6. CASE ~landed
  <2>1. past' = past /\ past \in PastRecs
    BY <1>2, <1>6 DEF Shapes
  <2>2. Turn(s, NoJob)
    BY <1>2, <1>6 DEF SetJob, Turn
  <2> QED
    BY <1>3, <1>6, <2>1, <2>2 DEF WritePins
<1> QED
  BY <1>4, <1>5, <1>6

LEMMA CachePairRow ==
    ASSUME Shapes, NEW s \in Savers, CachePair(s)
    PROVE  /\ job[s].at = "both" /\ ram' \in RamRecs /\ ram'.cfg = ram.cfg
           /\ ram'.pins = job[s].pins /\ ram'.boot = ram.boot /\ ram'.pots = job[s].knob
           /\ ram'.reason = ram.reason
           /\ reboot' \in BOOLEAN /\ Turn(s, NoJob)
           /\ UNCHANGED <<nv, at, woke, radio, link, grace, clock, used, past>>
<1>1. job[s].pins \in PinRecs /\ job[s].knob \in Knobs /\ job[s].moved \in BOOLEAN
  BY DEF Shapes, JobRecs
<1>2. ram' = [ram EXCEPT !.pins = job[s].pins, !.pots = job[s].knob]
  BY DEF CachePair
<1>3. /\ ram' \in RamRecs /\ ram'.cfg = ram.cfg
      /\ ram'.pins = job[s].pins /\ ram'.boot = ram.boot /\ ram'.pots = job[s].knob
      /\ ram'.reason = ram.reason
  BY <1>1, <1>2 DEF Shapes, RamRecs
<1>4. reboot' \in BOOLEAN
  BY <1>1 DEF CachePair, Shapes
<1> QED
  BY <1>3, <1>4 DEF CachePair, Turn, SetJob

LEMMA FactoryResetRow ==
    ASSUME Shapes, NEW s \in Savers, FactoryReset(s)
    PROVE  /\ Reachable(s) /\ s \notin Remote
           /\ grace' \in GraceRecs /\ grace'.at = grace.at /\ grace'.cfg = grace.cfg
           /\ ram' \in RamRecs /\ ram'.cfg = ram.cfg /\ ram'.pins = ram.pins
           /\ ram'.boot = ram.boot /\ ram'.pots = ram.pots /\ ram'.reason = ram.reason
           /\ Turn(s, [NoJob EXCEPT !.at = "erase"])
           /\ used' \in UsedRecs /\ used'.faults = used.faults
           /\ UNCHANGED <<nv, at, woke, radio, link, reboot, clock, past>>
<1>1. used.posts \in 0 .. MaxPosts
  BY DEF Shapes, UsedRecs
<1>2. used.posts + 1 \in 0 .. MaxPosts
  BY <1>1, Limits DEF FactoryReset
<1>3. used' \in UsedRecs /\ used'.faults = used.faults
  BY <1>2 DEF FactoryReset, Shapes, UsedRecs
<1>4. /\ grace' \in GraceRecs /\ grace'.at = grace.at /\ grace'.cfg = grace.cfg
  BY DEF FactoryReset, Shapes, GraceRecs
<1>5. /\ ram' \in RamRecs /\ ram'.cfg = ram.cfg /\ ram'.pins = ram.pins
      /\ ram'.boot = ram.boot /\ ram'.pots = ram.pots /\ ram'.reason = ram.reason
  BY DEF FactoryReset, Shapes, RamRecs
<1> QED
  BY <1>3, <1>4, <1>5 DEF FactoryReset, Turn, SetJob

\* An erased job's last steps leave the configuration gone or as it was.
LEMMA EraseRow ==
    ASSUME Shapes, NEW s \in Savers, EraseConfig(s) \/ ErasePots(s) \/ ErasePins(s)
    PROVE  /\ job[s].at \in {"erase", "rest", "last"} /\ nv' \in NvRecs
           /\ nv'.cfg \in {nv.cfg, None} /\ nv'.pins \in {nv.pins, None}
           /\ used' \in UsedRecs /\ used'.faults \in {used.faults, used.faults + 1}
           /\ reboot' \in BOOLEAN
           /\ \/ \E stage \in {"rest", "last"} : Turn(s, [job[s] EXCEPT !.at = stage])
              \/ Turn(s, NoJob)
           /\ UNCHANGED <<ram, at, woke, radio, link, grace, clock, past>>
<1>1. CASE EraseConfig(s)
  <2>1. PICK landed \in BOOLEAN :
         /\ Write("cfg", None, landed)
         /\ SetJob(s, IF landed THEN [job[s] EXCEPT !.at = "rest"] ELSE NoJob)
         /\ reboot' = (reboot \/ ~landed)
    BY <1>1 DEF EraseConfig
  <2>2. Turn(s, [job[s] EXCEPT !.at = "rest"]) \/ Turn(s, NoJob)
    BY <2>1 DEF SetJob, Turn
  <2>3. /\ nv' \in NvRecs /\ nv'.cfg \in {nv.cfg, None} /\ nv'.pins = nv.pins
        /\ used' \in UsedRecs /\ used'.faults \in {used.faults, used.faults + 1}
    BY <2>1, WriteCfg
  <2>4. reboot' \in BOOLEAN
    BY <2>1 DEF Shapes
  <2> QED
    BY <1>1, <2>2, <2>3, <2>4 DEF EraseConfig
<1>2. CASE ErasePots(s)
  <2>1. PICK landed \in BOOLEAN : Write("pots", None, landed)
    BY <1>2 DEF ErasePots
  <2>2. Turn(s, [job[s] EXCEPT !.at = "last"])
    BY <1>2 DEF ErasePots, SetJob, Turn
  <2>3. /\ nv' \in NvRecs /\ nv'.cfg = nv.cfg /\ nv'.pins = nv.pins
        /\ used' \in UsedRecs /\ used'.faults \in {used.faults, used.faults + 1}
    BY <2>1, WritePot
  <2> QED
    BY <1>2, <2>2, <2>3 DEF ErasePots, Shapes
<1>3. CASE ErasePins(s)
  <2>1. PICK landed \in BOOLEAN : Write("pins", None, landed)
    BY <1>3 DEF ErasePins
  <2>2. Turn(s, NoJob)
    BY <1>3 DEF ErasePins, SetJob, Turn
  <2>3. /\ nv' \in NvRecs /\ nv'.cfg = nv.cfg /\ nv'.pins \in {nv.pins, None}
        /\ used' \in UsedRecs /\ used'.faults \in {used.faults, used.faults + 1}
    BY <2>1, WritePin
  <2> QED
    BY <1>3, <2>2, <2>3 DEF ErasePins, Shapes
<1> QED
  BY <1>1, <1>2, <1>3

-----------------------------------------------------------------------------
(* What the window's task does *)

LEMMA GraceExpiresRow ==
    ASSUME Sound, GraceExpires
    PROVE  /\ grace.at = "wait" /\ grace' \in GraceRecs
           /\ past' \in PastRecs /\ past'.came = past.came /\ past'.swapped = past.swapped
           /\ past'.runs = past.runs /\ past'.bus = past.bus
           /\ \/ grace' = NoGrace /\ past' = past
              \/ /\ grace'.at = "copy"
                 /\ past'.raced = (past.raced \/ \E s \in Savers : job[s].at = "cache")
                 /\ \/ grace'.cfg.fails = 0 /\ past'.failed = past.failed
                    \/ grace'.cfg.fails = ram.cfg.fails + 1 /\ past'.failed = past.failed + 1
           /\ UNCHANGED <<nv, ram, at, woke, radio, link, job, reboot, clock, used>>
<1>0. Shapes /\ past \in PastRecs /\ grace \in GraceRecs
  BY DEF Sound, Shapes
<1>1. CASE grace.cancelled
  BY <1>0, <1>1, Defaults DEF GraceExpires
<1>2. CASE ~grace.cancelled
  <2> DEFINE n == IF grace.seen THEN 0 ELSE ram.cfg.fails + 1
             c == [ram.cfg EXCEPT !.fails = n]
             w == past.raced \/ \E s \in Savers : job[s].at = "cache"
             f == IF grace.seen THEN past.failed ELSE past.failed + 1
  <2>1. grace' = [grace EXCEPT !.at = "copy", !.cfg = c]
    <3>1. ram.cfg \in Cfgs
      BY <1>0 DEF Shapes, RamRecs
    <3>2. grace' = [grace EXCEPT !.at = "copy", !.cfg =
                      [ram.cfg EXCEPT !.fails = IF grace.seen THEN 0 ELSE @ + 1]]
      BY <1>2 DEF GraceExpires
    <3>3. [ram.cfg EXCEPT !.fails = IF grace.seen THEN 0 ELSE @ + 1] = c
      BY <3>1 DEF Cfgs
    <3> QED
      BY <3>2, <3>3
  <2>2. past' = [past EXCEPT !.failed = f, !.raced = w]
    BY <1>2 DEF GraceExpires
  <2>3. ram.cfg \in Cfgs /\ ram.cfg.fails \in 0 .. FailThreshold /\ past.failed \in Nat
    BY <1>0 DEF Shapes, RamRecs, Cfgs, Fails, PastRecs
  <2>4. ram.cfg.fails < FailThreshold
    BY DEF GraceExpires, Sound, Below
  <2>5. n \in Fails
    BY <2>3, <2>4, Limits DEF Fails
  <2>6. c \in Cfgs /\ c.fails = n
    BY <2>3, <2>5 DEF Cfgs
  <2>7. grace' \in GraceRecs /\ grace'.at = "copy" /\ grace'.cfg = c
    BY <1>0, <2>1, <2>6 DEF GraceRecs
  <2>8. f \in Nat
    BY <2>3
  <2>9. past.raced \in BOOLEAN /\ w \in BOOLEAN
    BY <1>0 DEF PastRecs
  <2> HIDE DEF f, w
  <2>10. /\ past' \in PastRecs /\ past'.came = past.came /\ past'.swapped = past.swapped
         /\ past'.runs = past.runs /\ past'.bus = past.bus
    BY <1>0, <2>2, <2>8, <2>9 DEF PastRecs
  <2>11. past'.failed = f /\ past'.raced = w
    BY <1>0, <2>2 DEF PastRecs
  <2>12. \/ n = 0 /\ f = past.failed
         \/ n = ram.cfg.fails + 1 /\ f = past.failed + 1
    BY DEF f
  <2> HIDE DEF n, c
  <2>13. \/ grace'.cfg.fails = 0 /\ past'.failed = past.failed
         \/ grace'.cfg.fails = ram.cfg.fails + 1 /\ past'.failed = past.failed + 1
    BY <2>6, <2>7, <2>11, <2>12
  <2>14. past'.raced = (past.raced \/ \E s \in Savers : job[s].at = "cache")
    BY <2>11 DEF w
  <2> QED
    BY <2>7, <2>10, <2>13, <2>14 DEF GraceExpires
<1> QED
  BY <1>1, <1>2

LEMMA GraceCopyRow ==
    ASSUME Shapes, GraceCopy
    PROVE  /\ grace.at = "copy" /\ grace' \in GraceRecs
           /\ \/ grace' = NoGrace
              \/ grace'.at = "write" /\ grace'.cfg.fails = grace.cfg.fails
           /\ UNCHANGED <<nv, ram, at, woke, radio, link, job, reboot, clock, used, past>>
<1>1. CASE ram.erased
  BY <1>1, Defaults DEF GraceCopy
<1>2. CASE ~ram.erased
  <2>1. grace \in GraceRecs /\ grace.cfg \in Cfgs /\ ram.cfg.form \in Forms
    BY DEF Shapes, GraceRecs, RamRecs, Cfgs
  <2>2. grace' = [grace EXCEPT !.at = "write", !.cfg = [grace.cfg EXCEPT !.form = ram.cfg.form]]
    BY <1>2, <2>1 DEF GraceCopy, GraceRecs
  <2>3. /\ [grace.cfg EXCEPT !.form = ram.cfg.form] \in Cfgs
        /\ [grace.cfg EXCEPT !.form = ram.cfg.form].fails = grace.cfg.fails
    BY <2>1 DEF Cfgs
  <2>4. /\ grace' \in GraceRecs /\ grace'.at = "write"
        /\ grace'.cfg = [grace.cfg EXCEPT !.form = ram.cfg.form]
    BY <2>1, <2>2, <2>3 DEF GraceRecs
  <2> QED
    BY <2>3, <2>4 DEF GraceCopy
<1> QED
  BY <1>1, <1>2

LEMMA GraceWriteRow ==
    ASSUME Shapes, GraceWrite
    PROVE  /\ grace.at = "write" /\ grace' \in GraceRecs
           /\ nv' \in NvRecs /\ nv'.pins = nv.pins
           /\ used' \in UsedRecs /\ used'.faults \in {used.faults, used.faults + 1}
           /\ past' \in PastRecs /\ past'.came = past.came /\ past'.swapped = past.swapped
           /\ past'.runs = past.runs /\ past'.bus = past.bus /\ past'.raced = past.raced
           /\ \/ /\ nv'.cfg = grace.cfg /\ grace'.at = "cache" /\ grace'.cfg = grace.cfg
                 /\ past'.failed = IF grace.cfg.fails = 0 THEN 0 ELSE past.failed
              \/ nv'.cfg = nv.cfg /\ grace' = NoGrace /\ past' = past
           /\ UNCHANGED <<ram, at, woke, radio, link, job, reboot, clock>>
<1>0. grace \in GraceRecs /\ grace.cfg \in Cfgs /\ past \in PastRecs
  BY DEF Shapes, GraceRecs
<1>1. PICK landed \in BOOLEAN :
         /\ Write("cfg", grace.cfg, landed)
         /\ grace' = IF landed THEN [grace EXCEPT !.at = "cache"] ELSE NoGrace
         /\ past' = IF landed /\ grace.cfg.fails = 0 THEN [past EXCEPT !.failed = 0] ELSE past
  BY DEF GraceWrite
<1>2. /\ nv' \in NvRecs /\ nv'.pins = nv.pins
      /\ used' \in UsedRecs /\ used'.faults \in {used.faults, used.faults + 1}
      /\ landed => nv'.cfg = grace.cfg
      /\ ~landed => nv' = nv
  BY <1>0, <1>1, WriteCfg
<1>3. landed => grace' \in GraceRecs /\ grace'.at = "cache" /\ grace'.cfg = grace.cfg
  BY <1>0, <1>1 DEF GraceRecs
<1>4. ~landed => grace' \in GraceRecs /\ grace' = NoGrace /\ past' = past
  BY <1>1, Defaults
<1>5. /\ past' \in PastRecs /\ past'.came = past.came /\ past'.swapped = past.swapped
      /\ past'.runs = past.runs /\ past'.bus = past.bus /\ past'.raced = past.raced
      /\ landed => past'.failed = IF grace.cfg.fails = 0 THEN 0 ELSE past.failed
  BY <1>0, <1>1 DEF PastRecs
<1> QED
  BY <1>1, <1>2, <1>3, <1>4, <1>5 DEF GraceWrite

LEMMA GraceCacheRow ==
    ASSUME Shapes, GraceCache
    PROVE  /\ grace.at = "cache" /\ grace' = NoGrace /\ ram' \in RamRecs
           /\ ram'.cfg = grace.cfg /\ ram'.pins = ram.pins /\ ram'.boot = ram.boot
           /\ ram'.pots = ram.pots /\ ram'.reason = ram.reason
           /\ UNCHANGED <<nv, at, woke, radio, link, job, reboot, clock, used, past>>
<1>1. grace.cfg \in Cfgs
  BY DEF Shapes, GraceRecs
<1>2. /\ ram' \in RamRecs
      /\ ram'.cfg = grace.cfg /\ ram'.pins = ram.pins /\ ram'.boot = ram.boot
      /\ ram'.pots = ram.pots /\ ram'.reason = ram.reason
  BY <1>1 DEF GraceCache, Shapes, RamRecs
<1> QED
  BY <1>2 DEF GraceCache

-----------------------------------------------------------------------------
(* Types, and who runs when: savers and window *)

\* A saver can be reached, and works, only once something besides app_main runs.
LEMMA SaverRuns ==
    ASSUME Alone, NEW s \in Savers, Reachable(s) \/ job[s].at # "idle"
    PROVE  ~Early
BY DEF Alone, Early, Reachable, Serving

LEMMA SaverSound ==
    ASSUME Sound, NEW s \in Savers, Reachable(s) \/ job[s].at # "idle",
           NEW j \in JobRecs, Turn(s, j),
           nv' \in NvRecs, ram' \in RamRecs, used' \in UsedRecs, past' \in PastRecs,
           grace' \in GraceRecs, grace'.at = grace.at, reboot' \in BOOLEAN,
           ram'.cfg.fails = ram.cfg.fails \/ ram'.cfg.fails = 0,
           ram'.reason = ram.reason,
           UNCHANGED <<at, woke, radio, link, clock>>
    PROVE  Sound'
<1>1. ~Early
  BY SaverRuns DEF Sound
<1>2. job' \in [Savers -> JobRecs]
  BY JobTurns DEF Sound
<1>3. Shapes'
  BY <1>2 DEF Sound, Shapes
<1>4. Alone'
  BY <1>1 DEF Sound, Alone, Early
<1>5. Below'
  BY Limits DEF Sound, Below
<1> QED
  BY <1>3, <1>4, <1>5 DEF Sound

LEMMA SaversSound ==
    ASSUME Sound, NEW s \in Savers, Post(s) \/ FactoryReset(s) \/ Saver(s) PROVE Sound'
<1>0. /\ Shapes /\ nv \in NvRecs /\ ram \in RamRecs /\ used \in UsedRecs /\ past \in PastRecs
      /\ grace \in GraceRecs /\ reboot \in BOOLEAN /\ NoJob \in JobRecs
  BY Defaults DEF Sound, Shapes
<1>1. CASE Post(s)
  <2>1. PICK j \in JobRecs : Turn(s, j)
    BY <1>0, <1>1, PostRow
  <2> QED
    BY <1>0, <1>1, <2>1, PostRow, SaverSound
<1>2. CASE FactoryReset(s)
  <2>1. [NoJob EXCEPT !.at = "erase"] \in JobRecs
    BY <1>0 DEF JobRecs
  <2> QED
    BY <1>0, <1>2, <2>1, FactoryResetRow, SaverSound
<1>3. CASE WriteConfig(s)
  <2>1. PICK j \in JobRecs : Turn(s, j)
    BY <1>0, <1>3, WriteConfigRow, NextStage
  <2> QED
    BY <1>0, <1>3, <2>1, WriteConfigRow, SaverSound
<1>4. CASE CacheConfig(s)
  <2>1. [job[s] EXCEPT !.at = "pair"] \in JobRecs
    BY <1>0, NextStage
  <2> QED
    BY <1>0, <1>4, <2>1, CacheConfigRow, SavedCfgIs, SaverSound
<1>5. CASE CheckPair(s)
  <2>1. PICK j \in JobRecs : Turn(s, j)
    BY <1>0, <1>5, CheckPairRow
  <2> QED
    BY <1>0, <1>5, <2>1, CheckPairRow, SaverSound
<1>6. CASE WritePots(s)
  <2>1. PICK j \in JobRecs : Turn(s, j)
    BY <1>0, <1>6, WritePotsRow, NextStage
  <2> QED
    BY <1>0, <1>6, <2>1, WritePotsRow, SaverSound
<1>7. CASE WritePins(s)
  <2>1. PICK j \in JobRecs : Turn(s, j)
    BY <1>0, <1>7, WritePinsRow, NextStage
  <2> QED
    BY <1>0, <1>7, <2>1, WritePinsRow, SaverSound
<1>8. CASE CachePair(s)
  BY <1>0, <1>8, CachePairRow, SaverSound
<1>9. CASE EraseConfig(s) \/ ErasePots(s) \/ ErasePins(s)
  <2>1. PICK j \in JobRecs : Turn(s, j)
    BY <1>0, <1>9, EraseRow, NextStage
  <2> QED
    BY <1>0, <1>9, <2>1, EraseRow, SaverSound
<1> QED
  BY <1>1, <1>2, <1>3, <1>4, <1>5, <1>6, <1>7, <1>8, <1>9 DEF Saver

LEMMA GraceTaskSound == ASSUME Sound, GraceTask PROVE Sound'
<1>0. Shapes
  BY DEF Sound
<1>1. CASE GraceExpires
  <2>1. Shapes'
    BY <1>0, <1>1, GraceExpiresRow DEF Shapes
  <2>2. Alone' /\ Below'
    BY <1>1, GraceExpiresRow, Defaults DEF Sound, Alone, Early, Below
  <2> QED
    BY <2>1, <2>2 DEF Sound
<1>2. CASE GraceCopy
  <2>1. Shapes'
    BY <1>0, <1>2, GraceCopyRow DEF Shapes
  <2>2. Alone' /\ Below'
    BY <1>0, <1>2, GraceCopyRow, Defaults DEF Sound, Alone, Early, Below
  <2> QED
    BY <2>1, <2>2 DEF Sound
<1>3. CASE GraceWrite
  <2>1. Shapes'
    BY <1>0, <1>3, GraceWriteRow DEF Shapes
  <2>2. Alone' /\ Below'
    BY <1>0, <1>3, GraceWriteRow, Defaults DEF Sound, Alone, Early, Below
  <2> QED
    BY <2>1, <2>2 DEF Sound
<1>4. CASE GraceCache
  <2>1. Shapes'
    BY <1>0, <1>4, GraceCacheRow, Defaults DEF Shapes
  <2>2. Alone' /\ Below'
    BY <1>0, <1>4, GraceCacheRow, Defaults DEF Sound, Alone, Early, Below
  <2> QED
    BY <2>1, <2>2 DEF Sound
<1> QED
  BY <1>1, <1>2, <1>3, <1>4 DEF GraceTask

\* Init and every step keep the types and who runs when.
LEMMA SoundInit == Init => Sound
<1> SUFFICES ASSUME Init PROVE Sound
  OBVIOUS
<1>1. nv \in NvRecs
  BY DEF Init, NvRecs
<1>2. used \in UsedRecs
  BY Limits DEF Init, UsedRecs
<1>3. past \in PastRecs
  BY DEF Init, PastRecs
<1>4. Shapes
  BY <1>1, <1>2, <1>3, Defaults DEF Init, Shapes
<1>5. Alone /\ Below
  BY Defaults DEF Init, Alone, Early, Below
<1> QED
  BY <1>4, <1>5 DEF Sound

LEMMA SoundStep == Sound /\ [Next]_vars => Sound'
<1> SUFFICES ASSUME Sound, [Next]_vars PROVE Sound'
  OBVIOUS
<1>0. Shapes
  BY DEF Sound
<1>1. CASE PowerOn \/ PowerCycle \/ Trouble \/ SwitchOff \/ Press \/ Reboot
  BY <1>0, <1>1, SwitchRow, WipeSound
<1>2. CASE Join \/ ApTimeout \/ Tick
  BY <1>2, JoinSound, ApTimeoutSound, TickSound
<1>3. CASE AppMain
  BY <1>3, PowerButtonBootSound, LoadPinsSound, LoadConfigSound, StartMeshSound,
     StartFallbackApSound, ArmGraceWindowSound, StartAudioSound, ConfirmReadSound,
     ConfirmWriteSound, ConfirmClearSound DEF AppMain
<1>4. CASE GraceTask
  BY <1>4, GraceTaskSound
<1>5. ASSUME NEW s \in Savers, Post(s) \/ FactoryReset(s) \/ Saver(s) PROVE Sound'
  BY <1>5, SaversSound
<1>6. CASE UNCHANGED vars
  BY <1>6 DEF vars, Sound, Shapes, Alone, Early, Below
<1> QED
  BY <1>1, <1>2, <1>3, <1>4, <1>5, <1>6 DEF Next

-----------------------------------------------------------------------------
(* No pair clashes *)

\* Steps that leave RAM's pair and give a saver, if any, a safe one.
LEMMA PairTurn ==
    ASSUME Shapes, PairsApart, ram'.pins.set = ram.pins.set, ram'.pots = ram.pots,
           NEW s \in Savers, NEW j \in JobRecs, Turn(s, j),
           <<j.pins.set, j.knob>> \notin Clash
    PROVE  PairsApart'
BY JobTurns DEF PairsApart, KnobApart

LEMMA PairKept ==
    ASSUME Shapes, PairsApart, ram'.pins.set = ram.pins.set, ram'.pots = ram.pots, job' = job
    PROVE  PairsApart'
BY DEF PairsApart, KnobApart

LEMMA SaverApart ==
    ASSUME Shapes, PairsApart, NEW s \in Savers, Post(s) \/ FactoryReset(s) \/ Saver(s)
    PROVE  PairsApart'
<1>1. NoJob \in JobRecs /\ <<NoJob.pins.set, NoJob.knob>> \notin Clash
  BY Defaults
<1>2. <<job[s].pins.set, job[s].knob>> \notin Clash
  BY DEF PairsApart
<1>3. CASE Post(s)
  <2>1. PICK j \in JobRecs : Turn(s, j) /\ <<j.pins.set, j.knob>> \notin Clash
    BY <1>3, PostRow
  <2> QED
    BY <1>3, <2>1, PostRow, PairTurn
<1>4. CASE FactoryReset(s)
  <2>1. /\ [NoJob EXCEPT !.at = "erase"] \in JobRecs
        /\ [NoJob EXCEPT !.at = "erase"].pins = NoJob.pins
        /\ [NoJob EXCEPT !.at = "erase"].knob = NoJob.knob
    BY <1>1 DEF JobRecs
  <2>2. /\ ram'.pins.set = ram.pins.set /\ ram'.pots = ram.pots
        /\ Turn(s, [NoJob EXCEPT !.at = "erase"])
    BY <1>4, FactoryResetRow
  <2> DEFINE j == [NoJob EXCEPT !.at = "erase"]
  <2>3. j \in JobRecs /\ Turn(s, j) /\ <<j.pins.set, j.knob>> \notin Clash
    BY <1>1, <2>1, <2>2
  <2> HIDE DEF j
  <2> QED
    BY <2>2, <2>3, PairTurn
<1>5. ASSUME NEW stage \in {"cache", "pair", "pins", "both", "rest", "last"},
             ram'.pins.set = ram.pins.set, ram'.pots = ram.pots,
             \/ Turn(s, [job[s] EXCEPT !.at = stage]) \/ Turn(s, NoJob)
      PROVE  PairsApart'
  <2> DEFINE j == [job[s] EXCEPT !.at = stage]
  <2>1. j \in JobRecs /\ j.pins = job[s].pins /\ j.knob = job[s].knob
    BY NextStage
  <2>2. Turn(s, j) \/ Turn(s, NoJob)
    BY <1>5
  <2> HIDE DEF j
  <2> QED
    BY <1>1, <1>2, <1>5, <2>1, <2>2, PairTurn
<1>6. CASE WriteConfig(s) \/ CacheConfig(s) \/ WritePots(s) \/ WritePins(s)
  BY <1>5, <1>6, WriteConfigRow, CacheConfigRow, WritePotsRow, WritePinsRow
<1>7. CASE CheckPair(s)
  <2>1. CASE Turn(s, NoJob)
    BY <1>1, <1>7, <2>1, CheckPairRow, PairTurn
  <2>2. CASE ~Turn(s, NoJob)
    <3>1. PICK j \in JobRecs : Turn(s, j) /\ j.knob = job[s].knob /\ j.pins.set = job[s].pins.set
      BY <1>7, <2>2, CheckPairRow
    <3> QED
      BY <1>2, <1>7, <3>1, CheckPairRow, PairTurn
  <2> QED
    BY <2>1, <2>2
<1>8. CASE CachePair(s)
  <2>1. /\ ram'.pins = job[s].pins /\ ram'.pots = job[s].knob /\ Turn(s, NoJob)
    BY <1>8, CachePairRow
  <2> QED
    BY <1>1, <1>2, <2>1, JobTurns DEF PairsApart, KnobApart
<1>9. CASE EraseConfig(s) \/ ErasePots(s) \/ ErasePins(s)
  BY <1>5, <1>9, EraseRow
<1> QED
  BY <1>3, <1>4, <1>6, <1>7, <1>8, <1>9 DEF Saver

LEMMA PairsStep == Sound /\ PairsApart /\ [Next]_vars => PairsApart'
<1> SUFFICES ASSUME Sound, PairsApart, [Next]_vars PROVE PairsApart'
  OBVIOUS
<1>0. Shapes
  BY DEF Sound
<1>a. Wipe => PairsApart'
  BY <1>0, BlankStart, BootAssumption DEF Wipe, SameBooks, Shapes
<1>1. CASE PowerOn \/ PowerCycle \/ Trouble \/ SwitchOff \/ Press \/ Reboot
  BY <1>0, <1>1, <1>a, SwitchRow
<1>2. CASE Join \/ ApTimeout \/ Tick
  BY <1>0, <1>2, <1>a, JoinRow, TickRow, PairKept DEF ApTimeout
<1>3. CASE AppMain
  <2>1. CASE PowerButtonBoot \/ StartMesh \/ ArmGraceWindow
    BY <1>0, <2>1, PairKept DEF PowerButtonBoot, StartMesh, ArmGraceWindow
  <2>2. CASE LoadPins
    BY <1>0, <2>2, LoadPinsRow, LoadedPins, LoadedPair DEF PairsApart, KnobApart
  <2>3. CASE LoadConfig
    BY <1>0, <1>a, <2>3, LoadConfigRow, PairKept
  <2>4. CASE StartFallbackAp
    <3>1. ram'.pins = ram.pins /\ ram'.pots = ram.pots
      BY <1>0, <2>4 DEF StartFallbackAp, Shapes, RamRecs
    <3> QED
      BY <1>0, <2>4, <3>1, PairKept DEF StartFallbackAp
  <2>5. CASE StartAudio
    <3>1. CASE Blank'
      BY <1>0, <2>5, <3>1, StartAudioRow, BlankStart, BootAssumption DEF Shapes
    <3>2. CASE ~Blank'
      BY <1>0, <2>5, <3>2, StartAudioRow, PairKept
    <3> QED
      BY <3>1, <3>2
  <2>6. CASE ConfirmRead \/ ConfirmWrite \/ ConfirmClear
    BY <1>0, <2>6, ConfirmReadRow, ConfirmWriteRow, ConfirmClearRow, PairKept
  <2> QED
    BY <1>3, <2>1, <2>2, <2>3, <2>4, <2>5, <2>6 DEF AppMain
<1>4. CASE GraceTask
  BY <1>0, <1>4, GraceExpiresRow, GraceCopyRow, GraceWriteRow, GraceCacheRow, PairKept DEF GraceTask
<1>5. ASSUME NEW s \in Savers, Post(s) \/ FactoryReset(s) \/ Saver(s) PROVE PairsApart'
  BY <1>0, <1>5, SaverApart
<1>6. CASE UNCHANGED vars
  BY <1>6 DEF vars, PairsApart, KnobApart
<1> QED
  BY <1>1, <1>2, <1>3, <1>4, <1>5, <1>6 DEF Next

-----------------------------------------------------------------------------
(* What is confirmed has come up *)

\* What has come up stays so, and nothing bad is added.
MoreCame == /\ past.came \subseteq past'.came /\ past.swapped \subseteq past'.swapped
            /\ past'.came \cap Bad = {}

\* Steps that make no new claim about pins.
LEMMA ClaimsKept ==
    ASSUME Shapes, Vouched, MoreCame, nv'.pins \in {nv.pins, None}, ram'.pins = ram.pins, ram'.boot = ram.boot,
           job' = job \/ \E s \in Savers, j \in JobRecs :
                           /\ Turn(s, j)
                           /\ \/ j.at \notin {"pots", "pins", "both"}
                              \/ job[s].at \in {"pots", "pins", "both"} /\ j.pins = job[s].pins,
           at' = "confirm" => past'.bus \in past'.came,
           at' \in {"write", "clear"} => at \in {"write", "clear"}
    PROVE  Vouched'
<1>1. Fair(nv.pins)' \/ nv'.pins = None
  BY DEF Vouched, MoreCame, Fair, Came
<1>2. Fair(ram.pins)'
  BY DEF Vouched, MoreCame, Fair, Came
<1>3. ASSUME NEW t \in Savers, Decides(t)' PROVE Fair(job[t].pins)'
  <2>1. CASE job' = job
    BY <1>3, <2>1 DEF Vouched, MoreCame, Fair, Came, Decides
  <2>2. ASSUME NEW s \in Savers, NEW j \in JobRecs, Turn(s, j),
               \/ j.at \notin {"pots", "pins", "both"}
               \/ job[s].at \in {"pots", "pins", "both"} /\ j.pins = job[s].pins
        PROVE  Fair(job[t].pins)'
    <3>1. job'[s] = j /\ \A u \in Savers : u # s => job'[u] = job[u]
      BY <2>2, JobTurns
    <3>2. Decides(t) /\ job'[t].pins = job[t].pins
      BY <1>3, <2>2, <3>1 DEF Decides
    <3> QED
      BY <3>2 DEF Vouched, MoreCame, Fair, Came
  <2> QED
    BY <2>1, <2>2
<1>4. at' \in {"write", "clear"} => Came(ram.boot.set)'
  BY DEF Vouched, MoreCame, Came
<1> QED
  BY <1>1, <1>2, <1>3, <1>4 DEF Vouched, MoreCame

\* A blank device claims only what flash does.
LEMMA BlankClaims ==
    ASSUME Vouched, Blank', nv' = nv, MoreCame PROVE Vouched'
<1>1. Fair(ram.pins)'
  BY Defaults DEF Blank, Fair, Came
<1>2. \A s \in Savers : ~Decides(s)'
  BY Defaults DEF Blank, Decides
<1> QED
  BY <1>1, <1>2 DEF Vouched, MoreCame, Blank, Fair, Came

LEMMA SaverClaims ==
    ASSUME Shapes, Vouched, NEW s \in Savers, Post(s) \/ FactoryReset(s) \/ Saver(s)
    PROVE  Vouched'
<1>1. NoJob \in JobRecs /\ NoJob.at = "idle"
  BY Defaults
<1>2. past.came \cap Bad = {} /\ (at = "confirm" => past.bus \in past.came)
  BY DEF Vouched
<1>3. CASE Post(s)
  <2>1. PICK j \in JobRecs : Turn(s, j) /\ j.at = "blob"
    BY <1>3, PostRow
  <2> QED
    BY <1>2, <1>3, <2>1, PostRow, ClaimsKept DEF MoreCame
<1>4. CASE FactoryReset(s)
  <2> DEFINE j == [NoJob EXCEPT !.at = "erase"]
  <2>1. j \in JobRecs /\ j.at = "erase"
    BY <1>1 DEF JobRecs
  <2>2. Turn(s, j) /\ ram'.pins = ram.pins /\ ram'.boot = ram.boot
    BY <1>4, FactoryResetRow
  <2> HIDE DEF j
  <2> QED
    BY <1>2, <1>4, <2>1, <2>2, FactoryResetRow, ClaimsKept DEF MoreCame
<1>5. CASE WriteConfig(s)
  <2>1. PICK j \in JobRecs : Turn(s, j) /\ j.at \in {"cache", "idle"}
    BY <1>1, <1>5, WriteConfigRow, NextStage
  <2> QED
    BY <1>2, <1>5, <2>1, WriteConfigRow, ClaimsKept DEF MoreCame
<1>6. CASE CacheConfig(s)
  <2>1. PICK j \in JobRecs : Turn(s, j) /\ j.at = "pair"
    BY <1>6, CacheConfigRow, NextStage
  <2> QED
    BY <1>2, <1>6, <2>1, CacheConfigRow, ClaimsKept DEF MoreCame
<1>7. CASE CheckPair(s)
  <2>1. CASE Turn(s, NoJob)
    BY <1>1, <1>2, <1>7, <2>1, CheckPairRow, ClaimsKept DEF MoreCame
  <2>2. CASE ~Turn(s, NoJob)
    <3>1. PICK j \in JobRecs : /\ Turn(s, j) /\ j.pins.set = job[s].pins.set
                               /\ j.pins.trial = TrialFor(job[s].pins.set)
      BY <1>7, <2>2, CheckPairRow
    <3>2. job'[s] = j /\ \A u \in Savers : u # s => job'[u] = job[u]
      BY <3>1, JobTurns
    <3>3. Fair(j.pins)
      BY <3>1 DEF TrialFor, Vouched, Fair, Came
    <3> QED
      BY <1>7, <3>2, <3>3, CheckPairRow DEF Vouched, Fair, Came, Decides
  <2> QED
    BY <2>1, <2>2
<1>8. CASE WritePots(s)
  <2>1. PICK j \in JobRecs : Turn(s, j) /\ (j.at = "idle" \/ j.pins = job[s].pins)
    BY <1>1, <1>8, WritePotsRow, NextStage
  <2> QED
    BY <1>2, <1>8, <2>1, WritePotsRow, ClaimsKept DEF MoreCame
<1>9. CASE WritePins(s)
  <2>1. CASE nv'.pins = job[s].pins /\ Turn(s, [job[s] EXCEPT !.at = "both"])
    <3>0. PICK j \in JobRecs : Turn(s, j) /\ j.pins = job[s].pins
      BY <2>1, NextStage
    <3>1. job'[s].pins = job[s].pins /\ \A u \in Savers : u # s => job'[u] = job[u]
      BY <3>0, JobTurns
    <3>2. Fair(job[s].pins)
      BY <1>9, WritePinsRow DEF Vouched, Decides
    <3>3. \A u \in Savers : Decides(u)' => Decides(u) /\ job'[u].pins = job[u].pins
      BY <1>9, <3>1, WritePinsRow DEF Decides
    <3> QED
      BY <1>9, <2>1, <3>2, <3>3, WritePinsRow DEF Vouched, Fair, Came
  <2>2. CASE nv'.pins = nv.pins /\ Turn(s, NoJob)
    BY <1>1, <1>2, <1>9, <2>2, WritePinsRow, ClaimsKept DEF MoreCame
  <2> QED
    BY <1>9, <2>1, <2>2, WritePinsRow
<1>10. CASE CachePair(s)
  <2>1. job'[s] = NoJob /\ \A u \in Savers : u # s => job'[u] = job[u]
    BY <1>1, <1>10, CachePairRow, JobTurns
  <2>2. Fair(job[s].pins)
    BY <1>10, CachePairRow DEF Vouched, Decides
  <2>3. \A u \in Savers : Decides(u)' => Decides(u) /\ job'[u].pins = job[u].pins
    BY <1>1, <2>1 DEF Decides
  <2> QED
    BY <1>10, <2>2, <2>3, CachePairRow DEF Vouched, Fair, Came
<1>11. CASE EraseConfig(s) \/ ErasePots(s) \/ ErasePins(s)
  <2>1. PICK j \in JobRecs : Turn(s, j) /\ j.at \in {"rest", "last", "idle"}
    BY <1>1, <1>11, EraseRow, NextStage
  <2> QED
    BY <1>2, <1>11, <2>1, EraseRow, ClaimsKept DEF MoreCame
<1> QED
  BY <1>3, <1>4, <1>5, <1>6, <1>7, <1>8, <1>9, <1>10, <1>11 DEF Saver

LEMMA VouchedStep == Sound /\ Vouched /\ [Next]_vars => Vouched'
<1> SUFFICES ASSUME Sound, Vouched, [Next]_vars PROVE Vouched'
  OBVIOUS
<1>0. Shapes /\ past.came \cap Bad = {} /\ (at = "confirm" => past.bus \in past.came)
  BY DEF Sound, Vouched
<1>a. Wipe => Vouched'
  BY <1>0, BlankClaims DEF Wipe, SameBooks, MoreCame
<1>1. CASE PowerOn \/ PowerCycle \/ Trouble \/ SwitchOff \/ Press \/ Reboot
  BY <1>0, <1>1, <1>a, SwitchRow
<1>2. CASE Join \/ ApTimeout \/ Tick
  BY <1>0, <1>2, <1>a, JoinRow, TickRow, ClaimsKept DEF ApTimeout, MoreCame
<1>3. CASE AppMain
  <2>1. CASE PowerButtonBoot \/ StartMesh \/ ArmGraceWindow
    BY <1>0, <2>1, ClaimsKept DEF PowerButtonBoot, StartMesh, ArmGraceWindow, MoreCame
  <2>2. CASE LoadPins
    <3>1. /\ at' = "seed" /\ ram'.pins = Loaded /\ nv'.pins \in {nv.pins, Loaded} /\ job' = job
          /\ past' = past
      BY <1>0, <2>2, LoadPinsRow
    <3>2. Fair(Loaded)
      BY <1>0, LoadedPins, Defaults DEF Vouched, Fair, Came
    <3> QED
      BY <3>1, <3>2 DEF Vouched, Fair, Came, Decides
  <2>3. CASE LoadConfig
    <3>1. CASE Wipe
      BY <3>1, <1>a
    <3>2. CASE ~Wipe
      <4>1. past'.came = past.came /\ past'.swapped = past.swapped
        BY <1>0, <2>3, <3>2, LoadConfigRow DEF Shapes, PastRecs
      <4> QED
        BY <1>0, <2>3, <3>2, <4>1, LoadConfigRow, ClaimsKept DEF MoreCame
    <3> QED
      BY <3>1, <3>2
  <2>4. CASE StartFallbackAp
    <3>1. ram'.pins = ram.pins /\ ram'.boot = ram.boot
      BY <1>0, <2>4 DEF StartFallbackAp, Shapes, RamRecs
    <3> QED
      BY <1>0, <2>4, <3>1, ClaimsKept DEF StartFallbackAp, MoreCame
  <2>5. CASE StartAudio
    <3>1. MoreCame
      BY <1>0, <2>5, StartAudioRow DEF MoreCame
    <3>2. CASE Blank'
      BY <1>0, <2>5, <3>1, <3>2, StartAudioRow, BlankClaims
    <3>3. CASE ~Blank'
      BY <1>0, <2>5, <3>1, <3>3, StartAudioRow, ClaimsKept
    <3> QED
      BY <3>2, <3>3
  <2>6. CASE ConfirmRead
    <3>1. at' = "write" => Came(ram.boot.set)'
      BY <1>0, <2>6, ConfirmReadRow DEF OnTrial, Came
    <3>2. \A s \in Savers : Decides(s)' <=> Decides(s)
      BY <1>0, <2>6, ConfirmReadRow DEF Decides
    <3> QED
      BY <1>0, <2>6, <3>1, <3>2, ConfirmReadRow DEF Vouched, Fair, Came
  <2>7. CASE ConfirmWrite
    <3>1. Came(ram.boot.set)
      BY <1>0, <2>7, ConfirmWriteRow DEF Vouched
    <3>2. \A s \in Savers : Decides(s)' <=> Decides(s)
      BY <1>0, <2>7, ConfirmWriteRow DEF Decides
    <3>3. Fair(nv.pins)' \/ nv'.pins = None
      BY <1>0, <2>7, <3>1, ConfirmWriteRow DEF Vouched, Fair, Came, Confirmed
    <3> QED
      BY <1>0, <2>7, <3>1, <3>2, <3>3, ConfirmWriteRow DEF Vouched, Fair, Came
  <2>8. CASE ConfirmClear
    <3>1. Came(ram.boot.set)
      BY <1>0, <2>8, ConfirmClearRow DEF Vouched
    <3>2. \A s \in Savers : Decides(s)' <=> Decides(s)
      BY <1>0, <2>8, ConfirmClearRow DEF Decides
    <3>3. Fair(ram.pins)'
      BY <1>0, <2>8, <3>1, ConfirmClearRow DEF Vouched, Fair, Came
    <3> QED
      BY <1>0, <2>8, <3>2, <3>3, ConfirmClearRow DEF Vouched, Fair, Came
  <2> QED
    BY <1>3, <2>1, <2>2, <2>3, <2>4, <2>5, <2>6, <2>7, <2>8 DEF AppMain
<1>4. CASE GraceTask
  <2>1. /\ nv'.pins = nv.pins /\ ram'.pins = ram.pins /\ ram'.boot = ram.boot /\ job' = job
        /\ at' = at /\ past'.came = past.came /\ past'.swapped = past.swapped
        /\ past'.bus = past.bus
    BY <1>0, <1>4, GraceExpiresRow, GraceCopyRow, GraceWriteRow, GraceCacheRow DEF GraceTask
  <2> QED
    BY <1>0, <2>1, ClaimsKept DEF MoreCame
<1>5. ASSUME NEW s \in Savers, Post(s) \/ FactoryReset(s) \/ Saver(s) PROVE Vouched'
  BY <1>0, <1>5, SaverClaims
<1>6. CASE UNCHANGED vars
  BY <1>6 DEF vars, Vouched, Fair, Came, Decides
<1> QED
  BY <1>1, <1>2, <1>3, <1>4, <1>5, <1>6 DEF Next

-----------------------------------------------------------------------------
(* Crashes are counted *)

\* The numbers Counted compares.
LEMMA Numbers ==
    ASSUME Shapes, NEW p \in PinSets
    PROVE  /\ past.runs[p] \in Int /\ past.runs[p] >= 0
           /\ used.faults \in Int /\ used.faults >= 0
           /\ nv.pins # None => nv.pins.trial \in Int /\ nv.pins.set \in PinSets
           /\ ram.boot.trial \in Int /\ ram.boot.trial <= TrialBootsMax + 1
           /\ ram.pins.trial \in Int /\ TrialBootsMax \in Int /\ TrialBootsMax >= 1
<1>1. past.runs[p] \in Nat
  BY DEF Shapes, PastRecs
<1>2. used.faults \in 0 .. MaxFaults
  BY DEF Shapes, UsedRecs
<1>3. nv.pins # None => nv.pins.trial \in Trials /\ nv.pins.set \in PinSets
  BY DEF Shapes, NvRecs, PinRecs
<1>4. ram.boot.trial \in Trials /\ ram.pins.trial \in Trials
  BY DEF Shapes, RamRecs, PinRecs
<1>5. \A n \in Trials : n \in Int /\ n <= TrialBootsMax + 1
  BY Limits DEF Trials
<1> QED
  BY <1>1, <1>2, <1>3, <1>4, <1>5, Limits

\* A failed write leaves every bound as far away as it was, or further.
LEMMA Slack ==
    \A n, m, f, g \in Int : g \in {f, f + 1} =>
        /\ n <= m + f => n <= m + g
        /\ n + 1 <= m + f => n + 1 <= m + g
        /\ n + 1 <= m + f => n <= m + g
        /\ n <= m + 1 + f => n <= m + 1 + g
OBVIOUS

\* Pins that crash are no default, and nothing has vouched for them.
LEMMA NotVouched ==
    ASSUME Vouched, NEW p \in Crashing
    PROVE  p \in PinSets /\ p \in Bad /\ p # DefaultPins /\ ~Came(p)
BY Defaults, BootAssumption DEF Crashing, Vouched, Came

\* Steps that leave the pins where they are.
LEMMA CountKept ==
    ASSUME Shapes, NEW p \in PinSets, Counted(p),
           used'.faults \in {used.faults, used.faults + 1}, past'.runs = past.runs,
           nv'.pins = nv.pins \/ nv'.pins = None,
           ram'.pins = ram.pins, ram'.boot = ram.boot, Uncounted' <=> Uncounted,
           job' = job \/ \E s \in Savers, j \in JobRecs :
                           /\ Turn(s, j)
                           /\ \/ j.at \notin {"pots", "pins", "both"}
                              \/ /\ job[s].at \in {"pots", "pins", "both"} /\ j.pins = job[s].pins
                                 /\ j.at # "both"
    PROVE  Counted(p)'
<1>1. used'.faults \in Int
  BY Numbers
<1>2. past'.runs[p] <= TrialBootsMax + 1 + used'.faults
  BY <1>1, Numbers DEF Counted
<1>3. nv'.pins # None /\ nv'.pins.set = p =>
         /\ past'.runs[p] <= nv'.pins.trial + used'.faults
         /\ ~Uncounted' => past'.runs[p] + 1 <= nv'.pins.trial + used'.faults
  BY <1>1, Numbers, Slack DEF Counted
<1>4. ~Uncounted' /\ ram'.boot.set = p => past'.runs[p] + 1 <= ram'.boot.trial + used'.faults
  BY <1>1, Numbers, Slack DEF Counted
<1>5. ram'.pins.set = p => /\ ram'.pins.trial = 1 \/ ram'.pins = ram'.boot
                           /\ past'.runs[p] <= TrialBootsMax + used'.faults
  BY <1>1, Numbers, Slack DEF Counted
<1>6. past.runs[p] <= TrialBootsMax + used.faults => past'.runs[p] <= TrialBootsMax + used'.faults
  BY <1>1, Numbers, Slack
<1>7. \A t \in Savers :
         /\ Decides(t)' => Decides(t) /\ job'[t].pins = job[t].pins
         /\ job'[t].at = "both" => job[t].at = "both"
  <2>1. CASE job' = job
    BY <2>1 DEF Decides
  <2>2. ASSUME NEW s \in Savers, NEW j \in JobRecs, Turn(s, j),
               \/ j.at \notin {"pots", "pins", "both"}
               \/ /\ job[s].at \in {"pots", "pins", "both"} /\ j.pins = job[s].pins
                  /\ j.at # "both"
        PROVE  \A t \in Savers :
                 /\ Decides(t)' => Decides(t) /\ job'[t].pins = job[t].pins
                 /\ job'[t].at = "both" => job[t].at = "both"
    BY <2>2, JobTurns DEF Decides
  <2> QED
    BY <2>1, <2>2
<1>8. \A t \in Savers :
         /\ Decides(t)' /\ job'[t].pins.set = p
              => job'[t].pins.trial = 1 \/ job'[t].pins = ram'.boot
         /\ job'[t].at = "both" /\ job'[t].pins.set = p
              => past'.runs[p] <= TrialBootsMax + used'.faults
  BY <1>6, <1>7 DEF Counted, Decides
<1> QED
  BY <1>2, <1>3, <1>4, <1>5, <1>8 DEF Counted

\* A blank device counts from what flash holds.
LEMMA BlankCount ==
    ASSUME Shapes, NEW p \in PinSets, p # DefaultPins, Counted(p),
           used'.faults \in {used.faults, used.faults + 1},
           past'.runs = past.runs, nv' = nv, Blank'
    PROVE  Counted(p)'
<1>1. used'.faults \in Int
  BY Numbers
<1>2. past'.runs[p] <= TrialBootsMax + 1 + used'.faults
  BY <1>1, Numbers DEF Counted
<1>3. nv.pins # None /\ nv.pins.set = p => past'.runs[p] <= nv.pins.trial + used'.faults
  BY <1>1, Numbers, Slack DEF Counted
<1>4. /\ Uncounted' /\ ram'.pins.set # p /\ ram'.boot.set # p
      /\ \A s \in Savers : ~Decides(s)' /\ job'[s].at # "both"
  BY Defaults DEF Blank, Uncounted, Decides
<1> QED
  BY <1>2, <1>3, <1>4 DEF Counted

\* The load takes the count up, in RAM and, unless the write fails, in flash.
LEMMA LoadCount ==
    ASSUME Sound, Vouched, NEW p \in Crashing, Counted(p), LoadPins
    PROVE  Counted(p)'
<1>0. Shapes /\ p \in PinSets /\ p # DefaultPins /\ ~Came(p) /\ Uncounted /\ ~Uncounted' /\ Early
  BY NotVouched, LoadPinsRow DEF Sound, Uncounted, Early
<1>1. /\ past' = past /\ job' = job /\ ram'.pins = Loaded /\ ram'.boot = Loaded
      /\ \/ nv'.pins = Loaded /\ used' = used
         \/ nv'.pins = nv.pins /\ nv.pins = None /\ used' = used
         \/ nv'.pins = nv.pins /\ used'.faults = used.faults + 1
  BY <1>0, LoadPinsRow
<1>2. used'.faults \in Int /\ used'.faults \in {used.faults, used.faults + 1}
  BY <1>0, <1>1, Numbers
<1>3. past'.runs[p] <= TrialBootsMax + 1 + used'.faults
  BY <1>0, <1>1, <1>2, Numbers, Slack DEF Counted
<1>4. \A s \in Savers : ~Decides(s)' /\ job'[s].at # "both"
  BY <1>0, <1>1 DEF Sound, Alone, Decides
<1>5. CASE Loaded.set # p
  <2>1. nv'.pins # None /\ nv'.pins.set = p =>
           past'.runs[p] + 1 <= nv'.pins.trial + used'.faults
    <3>1. nv.pins # None /\ nv.pins.set = p => past.runs[p] <= nv.pins.trial + used.faults
      BY DEF Counted
    <3> QED
      BY <1>0, <1>1, <1>5, <3>1, Numbers
  <2>2. nv'.pins # None /\ nv'.pins.set = p =>
           past'.runs[p] <= nv'.pins.trial + used'.faults
    <3>1. nv.pins # None /\ nv.pins.set = p => past.runs[p] <= nv.pins.trial + used.faults
      BY DEF Counted
    <3> QED
      BY <1>0, <1>1, <1>5, <3>1, Numbers
  <2> QED
    BY <1>1, <1>3, <1>4, <1>5, <2>1, <2>2 DEF Counted
<1>6. CASE Loaded.set = p
  <2>1. /\ nv.pins # None /\ nv.pins.set = p /\ nv.pins.trial \in 0 .. TrialBootsMax
        /\ Loaded.trial = IF nv.pins.trial = 0 THEN 0 ELSE nv.pins.trial + 1
    BY <1>0, <1>6, LoadedPins, Defaults
  <2>2. nv.pins.trial # 0
    BY <1>0, <2>1 DEF Vouched, Fair
  <2>3. past.runs[p] <= nv.pins.trial + used.faults
    BY <2>1 DEF Counted
  <2>4. Loaded.trial = nv.pins.trial + 1 /\ nv.pins.trial \in Int /\ nv.pins.trial <= TrialBootsMax
    BY <2>1, <2>2, Limits
  <2>5. past.runs[p] + 1 <= Loaded.trial + used'.faults
    BY <1>0, <1>2, <2>3, <2>4, Numbers
  <2>6. nv'.pins # None => past.runs[p] + 1 <= nv'.pins.trial + used'.faults
    BY <1>0, <1>1, <2>1, <2>3, <2>4, Numbers
  <2>7. past.runs[p] <= TrialBootsMax + used'.faults
    BY <1>0, <1>2, <2>3, <2>4, Numbers
  <2>8. nv'.pins # None => past.runs[p] <= nv'.pins.trial + used'.faults
    BY <1>0, <1>1, <2>1, <2>3, <2>4, Numbers
  <2> QED
    BY <1>1, <1>3, <1>4, <2>5, <2>6, <2>7, <2>8 DEF Counted
<1> QED
  BY <1>5, <1>6

\* A crash of p in audio_i2s_start uses up one of its trials.
LEMMA CrashCount ==
    ASSUME Sound, NEW p \in PinSets, p # DefaultPins, Counted(p), StartAudio, Blank'
    PROVE  Counted(p)'
<1>0. Shapes /\ ~Uncounted /\ used' = used /\ nv' = nv /\ at = "i2s"
  BY StartAudioRow DEF Sound, Uncounted
<1>1. past.runs \in [PinSets -> Nat] /\ past.runs[p] \in Nat /\ MostRuns \in Int
  BY <1>0, Limits DEF Shapes, PastRecs, MostRuns
<1>2. CASE ram.pins.set = p /\ p \in Bad
  <2>1. past'.runs = [past.runs EXCEPT ![p] = UpTo(@ + 1, MostRuns)]
    BY <1>0, <1>2, StartAudioRow
  <2>2. past'.runs[p] = UpTo(past.runs[p] + 1, MostRuns)
    BY <1>1, <2>1
  <2>3. past'.runs[p] \in Int /\ past'.runs[p] <= past.runs[p] + 1
    BY <1>1, <2>2 DEF UpTo
  <2>4. past.runs[p] <= TrialBootsMax + used.faults
    BY <1>2 DEF Counted
  <2>5. past'.runs[p] <= TrialBootsMax + 1 + used'.faults
    BY <1>0, <2>3, <2>4, Numbers
  <2>6. nv.pins # None /\ nv.pins.set = p => past.runs[p] + 1 <= nv.pins.trial + used.faults
    BY <1>0 DEF Counted
  <2>7. nv'.pins # None /\ nv'.pins.set = p => past'.runs[p] <= nv'.pins.trial + used'.faults
    BY <1>0, <2>3, <2>6, Numbers
  <2>8. /\ Uncounted' /\ ram'.pins.set # p /\ ram'.boot.set # p
        /\ \A s \in Savers : ~Decides(s)' /\ job'[s].at # "both"
    BY Defaults DEF Blank, Uncounted, Decides
  <2> QED
    BY <2>5, <2>7, <2>8 DEF Counted
<1>3. CASE ~(ram.pins.set = p /\ p \in Bad)
  <2>1. past'.runs[p] = past.runs[p]
    <3>1. CASE past'.runs = past.runs
      BY <3>1
    <3>2. CASE /\ ram.pins.set \in Bad
               /\ past'.runs = [past.runs EXCEPT ![ram.pins.set] = UpTo(@ + 1, MostRuns)]
      BY <1>1, <1>3, <3>2
    <3> QED
      BY <1>0, <3>1, <3>2, StartAudioRow
  <2>2. past'.runs[p] <= TrialBootsMax + 1 + used'.faults
    BY <1>0, <2>1 DEF Counted
  <2>3. nv'.pins # None /\ nv'.pins.set = p => past'.runs[p] <= nv'.pins.trial + used'.faults
    BY <1>0, <2>1 DEF Counted
  <2>4. /\ Uncounted' /\ ram'.pins.set # p /\ ram'.boot.set # p
        /\ \A s \in Savers : ~Decides(s)' /\ job'[s].at # "both"
    BY Defaults DEF Blank, Uncounted, Decides
  <2> QED
    BY <2>2, <2>3, <2>4 DEF Counted
<1> QED
  BY <1>2, <1>3

\* A pin record is its pins and their trial.
LEMMA SamePins ==
    ASSUME NEW a \in PinRecs, NEW b \in PinRecs, a.set = b.set, a.trial = b.trial PROVE a = b
<1>1. a = [set |-> a.set, trial |-> a.trial] /\ b = [set |-> b.set, trial |-> b.trial]
  BY DEF PinRecs
<1> QED
  BY <1>1

\* New pins start a trial; pins that stay keep the one they are on.
LEMMA TrialCount ==
    ASSUME Shapes, NEW p \in PinSets, Counted(p), NEW s \in Savers, CheckPair(s)
    PROVE  Counted(p)'
<1>1. CASE Turn(s, NoJob)
  BY <1>1, CheckPairRow, CountKept, Defaults, Numbers DEF Uncounted
<1>2. CASE ~Turn(s, NoJob)
  <2>1. PICK j \in JobRecs : /\ Turn(s, j) /\ j.at = "pots" /\ j.pins.set = job[s].pins.set
                             /\ j.pins.trial = TrialFor(job[s].pins.set)
    BY <1>2, CheckPairRow
  <2>2. job'[s] = j /\ \A u \in Savers : u # s => job'[u] = job[u]
    BY <2>1, JobTurns
  <2>3. j.pins.set = p => j.pins.trial = 1 \/ j.pins = ram.boot
    <3>1. CASE j.pins.set = ram.pins.set /\ j.pins.set = p
      <4>1. j.pins.trial = ram.pins.trial
        BY <2>1, <3>1 DEF TrialFor
      <4>2. j.pins \in PinRecs /\ ram.pins \in PinRecs
        BY <2>1 DEF JobRecs, Shapes, RamRecs
      <4>3. j.pins = ram.pins
        BY <2>1, <3>1, <4>1, <4>2, SamePins
      <4> QED
        BY <3>1, <4>3 DEF Counted
    <3>2. CASE j.pins.set # ram.pins.set
      BY <2>1, <3>2 DEF TrialFor
    <3> QED
      BY <3>1, <3>2
  <2>4. \A u \in Savers :
         /\ Decides(u)' /\ job'[u].pins.set = p
              => job'[u].pins.trial = 1 \/ job'[u].pins = ram'.boot
         /\ job'[u].at = "both" /\ job'[u].pins.set = p
              => past'.runs[p] <= TrialBootsMax + used'.faults
    BY <2>1, <2>2, <2>3, CheckPairRow DEF Counted, Decides
  <2> QED
    BY <2>4, CheckPairRow DEF Counted, Uncounted
<1> QED
  BY <1>1, <1>2

\* What is stored on trial starts at no crash; what is stored again is what
\* this boot loaded and counted.
LEMMA StoreCount ==
    ASSUME Sound, NEW p \in PinSets, Counted(p), NEW s \in Savers, WritePins(s)
    PROVE  Counted(p)'
<1>0. Shapes /\ job[s].at = "pins" /\ Decides(s) /\ ~Early /\ ~Uncounted /\ at' = at
  BY WritePinsRow, SaverRuns DEF Sound, Decides, Early, Uncounted
<1>1. CASE nv'.pins = nv.pins /\ Turn(s, NoJob) /\ past' = past
  BY <1>0, <1>1, WritePinsRow, CountKept, Defaults, Numbers DEF Uncounted
<1>2. CASE /\ nv'.pins = job[s].pins /\ used' = used
           /\ Turn(s, [job[s] EXCEPT !.at = "both"])
           /\ past'.runs = IF job[s].pins.trial = 1
                           THEN [past.runs EXCEPT ![job[s].pins.set] = 0] ELSE past.runs
  <2>1. PICK j \in JobRecs : Turn(s, j) /\ j.pins = job[s].pins
    BY <1>0, <1>2, NextStage
  <2>2. job'[s].pins = job[s].pins /\ \A u \in Savers : u # s => job'[u] = job[u]
    BY <1>0, <2>1, JobTurns
  <2>3. past.runs \in [PinSets -> Nat]
    BY <1>0 DEF Shapes, PastRecs
  <2>4. past'.runs[p] \in Int /\ past'.runs[p] >= 0 /\ past'.runs[p] <= past.runs[p]
    BY <1>0, <1>2, <2>3, Numbers
  <2>5. past'.runs[p] <= TrialBootsMax + 1 + used.faults
    BY <1>0, <2>4, Numbers DEF Counted
  <2>6. ram.boot.set = p => past'.runs[p] + 1 <= ram.boot.trial + used.faults
    <3>1. ram.boot.set = p => past.runs[p] + 1 <= ram.boot.trial + used.faults
      BY <1>0 DEF Counted
    <3> QED
      BY <1>0, <2>4, <3>1, Numbers
  <2>7. ram.pins.set = p => past'.runs[p] <= TrialBootsMax + used.faults
    <3>1. ram.pins.set = p => past.runs[p] <= TrialBootsMax + used.faults
      BY DEF Counted
    <3> QED
      BY <1>0, <2>4, <3>1, Numbers
  <2>8. ram.pins.set = p => ram.pins.trial = 1 \/ ram.pins = ram.boot
    BY DEF Counted
  <2>9. job[s].pins.set = p => job[s].pins.trial = 1 \/ job[s].pins = ram.boot
    BY <1>0 DEF Counted
  <2>10. job[s].pins.set = p => /\ past'.runs[p] + 1 <= job[s].pins.trial + used.faults
                                /\ past'.runs[p] <= TrialBootsMax + used.faults
    <3>1. CASE job[s].pins.set = p /\ job[s].pins.trial = 1
      <4>1. past'.runs[p] = 0
        BY <1>2, <2>3, <3>1
      <4> QED
        BY <1>0, <3>1, <4>1, Numbers
    <3>2. CASE job[s].pins.set = p /\ job[s].pins = ram.boot
      <4>1. past'.runs[p] + 1 <= ram.boot.trial + used.faults
        BY <2>6, <3>2
      <4>2. past'.runs[p] <= TrialBootsMax + used.faults
        BY <1>0, <2>4, <4>1, Numbers
      <4> QED
        BY <3>2, <4>1, <4>2
    <3> QED
      BY <2>9, <3>1, <3>2
  <2>11. nv'.pins # None /\ nv'.pins.set = p =>
           /\ past'.runs[p] + 1 <= nv'.pins.trial + used.faults
           /\ past'.runs[p] <= nv'.pins.trial + used.faults
    <3>1. nv'.pins.set = p => past'.runs[p] + 1 <= nv'.pins.trial + used.faults
      BY <1>2, <2>10
    <3>2. nv'.pins.trial \in Int
      <4>1. job[s].pins.trial \in Trials
        BY <1>0 DEF Shapes, JobRecs, PinRecs
      <4> QED
        BY <1>2, <4>1, Limits DEF Trials
    <3> QED
      BY <1>0, <2>4, <3>1, <3>2, Numbers
  <2>12. \A u \in Savers :
         /\ Decides(u)' /\ job'[u].pins.set = p
              => job'[u].pins.trial = 1 \/ job'[u].pins = ram.boot
         /\ job'[u].at = "both" /\ job'[u].pins.set = p
              => past'.runs[p] <= TrialBootsMax + used.faults
    <3>1. ASSUME NEW u \in Savers, u # s
          PROVE  /\ Decides(u)' /\ job'[u].pins.set = p
                      => job'[u].pins.trial = 1 \/ job'[u].pins = ram.boot
                 /\ job'[u].at = "both" /\ job'[u].pins.set = p
                      => past'.runs[p] <= TrialBootsMax + used.faults
      <4>1. job'[u] = job[u]
        BY <2>2, <3>1
      <4>2. /\ Decides(u) /\ job[u].pins.set = p => job[u].pins.trial = 1 \/ job[u].pins = ram.boot
            /\ job[u].at = "both" /\ job[u].pins.set = p
                 => past.runs[p] <= TrialBootsMax + used.faults
        BY DEF Counted
      <4>3. past.runs[p] <= TrialBootsMax + used.faults
              => past'.runs[p] <= TrialBootsMax + used.faults
        BY <1>0, <2>4, Numbers
      <4> QED
        BY <4>1, <4>2, <4>3 DEF Decides
    <3>2. /\ job'[s].pins.set = p => job'[s].pins.trial = 1 \/ job'[s].pins = ram.boot
          /\ job'[s].pins.set = p => past'.runs[p] <= TrialBootsMax + used.faults
      BY <2>2, <2>9, <2>10
    <3> QED
      BY <3>1, <3>2
  <2>13. ram' = ram /\ used' = used
    BY <1>0, <1>2, WritePinsRow
  <2> QED
    BY <1>0, <2>5, <2>6, <2>7, <2>8, <2>11, <2>12, <2>13 DEF Counted
<1> QED
  BY <1>0, <1>1, <1>2, WritePinsRow

LEMMA CacheCount ==
    ASSUME Shapes, NEW p \in PinSets, Counted(p), NEW s \in Savers, CachePair(s)
    PROVE  Counted(p)'
<1>1. job'[s] = NoJob /\ \A u \in Savers : u # s => job'[u] = job[u]
  BY CachePairRow, JobTurns, Defaults
<1>2. job[s].pins.set = p => /\ job[s].pins.trial = 1 \/ job[s].pins = ram.boot
                             /\ past.runs[p] <= TrialBootsMax + used.faults
  BY CachePairRow DEF Counted, Decides
<1>3. \A u \in Savers : /\ Decides(u)' => Decides(u) /\ job'[u].pins = job[u].pins
                        /\ job'[u].at = "both" => job[u].at = "both" /\ job'[u].pins = job[u].pins
  BY <1>1, Defaults DEF Decides
<1>4. /\ ram'.pins = job[s].pins /\ ram'.boot = ram.boot /\ nv' = nv /\ past' = past
      /\ used' = used /\ Uncounted' = Uncounted
  BY CachePairRow DEF Uncounted
<1>5. \A u \in Savers :
         /\ Decides(u)' /\ job'[u].pins.set = p
              => job'[u].pins.trial = 1 \/ job'[u].pins = ram'.boot
         /\ job'[u].at = "both" /\ job'[u].pins.set = p
              => past'.runs[p] <= TrialBootsMax + used'.faults
  BY <1>3, <1>4 DEF Counted
<1> QED
  BY <1>2, <1>4, <1>5 DEF Counted

LEMMA SaverCount ==
    ASSUME Sound, NEW p \in PinSets, Counted(p), NEW s \in Savers,
           Post(s) \/ FactoryReset(s) \/ Saver(s)
    PROVE  Counted(p)'
<1>0. /\ Shapes /\ NoJob \in JobRecs /\ NoJob.at = "idle"
      /\ used.faults \in {used.faults, used.faults + 1}
  BY Defaults DEF Sound
<1>1. CASE Post(s)
  <2>1. PICK j \in JobRecs : Turn(s, j) /\ j.at = "blob"
    BY <1>0, <1>1, PostRow
  <2> QED
    BY <1>0, <1>1, <2>1, PostRow, CountKept DEF Uncounted
<1>2. CASE FactoryReset(s)
  <2> DEFINE j == [NoJob EXCEPT !.at = "erase"]
  <2>1. j \in JobRecs /\ j.at = "erase"
    BY <1>0 DEF JobRecs
  <2>2. Turn(s, j) /\ ram'.pins = ram.pins /\ ram'.boot = ram.boot
    BY <1>0, <1>2, FactoryResetRow
  <2> HIDE DEF j
  <2> QED
    BY <1>0, <1>2, <2>1, <2>2, FactoryResetRow, CountKept DEF Uncounted
<1>3. CASE WriteConfig(s)
  <2>1. PICK j \in JobRecs : Turn(s, j) /\ j.at \in {"cache", "idle"}
    BY <1>0, <1>3, WriteConfigRow, NextStage
  <2> QED
    BY <1>0, <1>3, <2>1, WriteConfigRow, CountKept DEF Uncounted
<1>4. CASE CacheConfig(s)
  <2>1. PICK j \in JobRecs : Turn(s, j) /\ j.at = "pair"
    BY <1>0, <1>4, CacheConfigRow, NextStage
  <2> QED
    BY <1>0, <1>4, <2>1, CacheConfigRow, CountKept DEF Uncounted
<1>5. CASE CheckPair(s)
  BY <1>0, <1>5, TrialCount
<1>6. CASE WritePots(s)
  <2>1. PICK j \in JobRecs : Turn(s, j) /\ (j.at = "idle" \/ (j.at = "pins" /\ j.pins = job[s].pins))
    BY <1>0, <1>6, WritePotsRow, NextStage
  <2> QED
    BY <1>0, <1>6, <2>1, WritePotsRow, CountKept DEF Uncounted
<1>7. CASE WritePins(s)
  BY <1>7, StoreCount
<1>8. CASE CachePair(s)
  BY <1>0, <1>8, CacheCount
<1>9. CASE EraseConfig(s) \/ ErasePots(s) \/ ErasePins(s)
  <2>1. PICK j \in JobRecs : Turn(s, j) /\ j.at \in {"rest", "last", "idle"}
    BY <1>0, <1>9, EraseRow, NextStage
  <2> QED
    BY <1>0, <1>9, <2>1, EraseRow, CountKept DEF Uncounted
<1> QED
  BY <1>1, <1>2, <1>3, <1>4, <1>5, <1>6, <1>7, <1>8, <1>9 DEF Saver

LEMMA AppMainCount ==
    ASSUME Sound, Vouched, NEW p \in Crashing, Counted(p), AppMain
    PROVE  Counted(p)'
<1>0. /\ Shapes /\ p \in PinSets /\ p # DefaultPins /\ ~Came(p)
      /\ used.faults \in {used.faults, used.faults + 1}
  BY NotVouched DEF Sound
<1>1. CASE PowerButtonBoot \/ StartMesh \/ ArmGraceWindow
  BY <1>0, <1>1, CountKept DEF PowerButtonBoot, StartMesh, ArmGraceWindow, Uncounted
<1>2. CASE LoadPins
  BY <1>2, LoadCount
<1>3. CASE LoadConfig
  <2>1. CASE Wipe
    BY <1>0, <2>1, BlankCount DEF Wipe, SameBooks
  <2>2. CASE ~Wipe
    <3>1. past'.runs = past.runs
      BY <1>0, <1>3, <2>2, LoadConfigRow DEF Shapes, PastRecs
    <3> QED
      BY <1>0, <1>3, <2>2, <3>1, LoadConfigRow, CountKept DEF Uncounted
  <2> QED
    BY <2>1, <2>2
<1>4. CASE StartFallbackAp
  <2>1. ram'.pins = ram.pins /\ ram'.boot = ram.boot
    BY <1>0, <1>4 DEF StartFallbackAp, Shapes, RamRecs
  <2> QED
    BY <1>0, <1>4, <2>1, CountKept DEF StartFallbackAp, Uncounted
<1>5. CASE StartAudio
  <2>1. CASE Blank'
    BY <1>0, <1>5, <2>1, CrashCount
  <2>2. CASE ~Blank'
    BY <1>0, <1>5, <2>2, StartAudioRow, CountKept DEF Uncounted
  <2> QED
    BY <2>1, <2>2
<1>6. CASE ConfirmRead
  BY <1>0, <1>6, ConfirmReadRow, CountKept DEF Uncounted
<1>7. CASE ConfirmWrite
  <2>1. /\ at = "write" /\ used'.faults \in {used.faults, used.faults + 1} /\ ~Uncounted /\ ~Uncounted'
        /\ \/ nv'.pins = Confirmed \/ nv'.pins = nv.pins
        /\ UNCHANGED <<ram, job, past>>
    BY <1>0, <1>7, ConfirmWriteRow DEF Uncounted
  <2>2. ram.boot.set # p
    BY <1>0, <2>1 DEF Vouched
  <2>3. CASE nv'.pins = nv.pins
    BY <1>0, <2>1, <2>3, CountKept
  <2>4. CASE nv'.pins = Confirmed
    <3>1. nv'.pins.set # p
      BY <2>2, <2>4 DEF Confirmed
    <3>2. used'.faults \in Int
      BY <1>0, <2>1, Numbers
    <3>3. /\ past.runs[p] <= TrialBootsMax + 1 + used'.faults
          /\ past.runs[p] <= TrialBootsMax + used.faults
               => past.runs[p] <= TrialBootsMax + used'.faults
      BY <1>0, <2>1, <3>2, Numbers, Slack DEF Counted
    <3>4. \A s \in Savers : Decides(s)' <=> Decides(s)
      BY <2>1 DEF Decides
    <3> QED
      BY <2>1, <2>2, <3>1, <3>3, <3>4 DEF Counted
  <2> QED
    BY <2>1, <2>3, <2>4
<1>8. CASE ConfirmClear
  <2>1. /\ at = "clear" /\ ~Uncounted /\ ~Uncounted' /\ ram'.boot = ram.boot
        /\ ram'.pins \in PinRecs /\ ram.pins \in PinRecs
        /\ ram'.pins.set = ram.pins.set
        /\ ram'.pins.trial = IF ram.pins.set = ram.boot.set THEN 0 ELSE ram.pins.trial
        /\ UNCHANGED <<nv, job, used, past>>
    BY <1>0, <1>8, ConfirmClearRow DEF Uncounted, Shapes, RamRecs
  <2>2. ram.boot.set # p
    BY <1>0, <2>1 DEF Vouched
  <2>3. ram'.pins.set = p => ram'.pins = ram.pins
    BY <2>1, <2>2, SamePins
  <2>4. \A s \in Savers : Decides(s)' <=> Decides(s)
    BY <2>1 DEF Decides
  <2> QED
    BY <2>1, <2>2, <2>3, <2>4 DEF Counted
<1> QED
  BY <1>1, <1>2, <1>3, <1>4, <1>5, <1>6, <1>7, <1>8 DEF AppMain

LEMMA CountStep ==
    ASSUME Sound, Vouched, NEW p \in Crashing, Counted(p), [Next]_vars
    PROVE  Counted(p)'
<1>0. /\ Shapes /\ p \in PinSets /\ p # DefaultPins
      /\ used.faults \in {used.faults, used.faults + 1}
  BY NotVouched DEF Sound
<1>a. Wipe => Counted(p)'
  BY <1>0, BlankCount DEF Wipe, SameBooks
<1>1. CASE PowerOn \/ PowerCycle \/ Trouble \/ SwitchOff \/ Press \/ Reboot
  BY <1>0, <1>1, <1>a, SwitchRow
<1>2. CASE Join \/ ApTimeout \/ Tick
  BY <1>0, <1>2, <1>a, JoinRow, TickRow, CountKept DEF ApTimeout, Uncounted
<1>3. CASE AppMain
  BY <1>3, AppMainCount
<1>4. CASE GraceTask
  <2>1. /\ nv'.pins = nv.pins /\ ram'.pins = ram.pins /\ ram'.boot = ram.boot /\ job' = job
        /\ at' = at /\ past'.runs = past.runs
        /\ used'.faults \in {used.faults, used.faults + 1}
    BY <1>0, <1>4, GraceExpiresRow, GraceCopyRow, GraceWriteRow, GraceCacheRow DEF GraceTask
  <2> QED
    BY <1>0, <2>1, CountKept DEF Uncounted
<1>5. ASSUME NEW s \in Savers, Post(s) \/ FactoryReset(s) \/ Saver(s) PROVE Counted(p)'
  BY <1>0, <1>5, SaverCount
<1>6. CASE UNCHANGED vars
  BY <1>6 DEF vars, Counted, Uncounted, Decides
<1> QED
  BY <1>1, <1>2, <1>3, <1>4, <1>5, <1>6 DEF Next

\* Crashes of pins are booked only by pins that crash.
LEMMA RunsRow ==
    ASSUME Sound, [Next]_vars
    PROVE  /\ past.swapped \subseteq past'.swapped
           /\ \A p \in PinSets \ Bad : past.runs[p] = 0 => past'.runs[p] = 0
<1>0. Shapes /\ past.runs \in [PinSets -> Nat]
  BY DEF Sound, Shapes, PastRecs
<1>1. CASE PowerOn \/ PowerCycle \/ Trouble \/ SwitchOff \/ Press \/ Reboot
  BY <1>0, <1>1, SwitchRow DEF Wipe, SameBooks
<1>2. CASE Join \/ ApTimeout \/ Tick
  BY <1>0, <1>2, JoinRow, TickRow DEF ApTimeout, Wipe, SameBooks
<1>3. CASE AppMain
  <2>1. CASE PowerButtonBoot \/ StartMesh \/ ArmGraceWindow \/ StartFallbackAp
    BY <2>1 DEF PowerButtonBoot, StartMesh, ArmGraceWindow, StartFallbackAp
  <2>2. CASE LoadPins
    BY <1>0, <2>2, LoadPinsRow
  <2>3. CASE LoadConfig
    <3>1. CASE Wipe
      BY <3>1 DEF Wipe, SameBooks
    <3>2. CASE ~Wipe
      BY <1>0, <2>3, <3>2, LoadConfigRow DEF Shapes, PastRecs
    <3> QED
      BY <3>1, <3>2
  <2>4. CASE StartAudio
    <3>1. past'.swapped = past.swapped
      BY <1>0, <2>4, StartAudioRow
    <3>2. CASE past'.runs = past.runs
      BY <3>1, <3>2
    <3>3. CASE /\ ram.pins.set \in Bad
               /\ past'.runs = [past.runs EXCEPT ![ram.pins.set] = UpTo(@ + 1, MostRuns)]
      BY <1>0, <3>1, <3>3
    <3> QED
      BY <1>0, <2>4, <3>2, <3>3, StartAudioRow
  <2>5. CASE ConfirmRead \/ ConfirmWrite \/ ConfirmClear
    BY <1>0, <2>5, ConfirmReadRow, ConfirmWriteRow, ConfirmClearRow
  <2> QED
    BY <1>3, <2>1, <2>2, <2>3, <2>4, <2>5 DEF AppMain
<1>4. CASE GraceTask
  BY <1>0, <1>4, GraceExpiresRow, GraceCopyRow, GraceWriteRow, GraceCacheRow DEF GraceTask
<1>5. ASSUME NEW s \in Savers, Post(s) \/ FactoryReset(s) \/ Saver(s)
      PROVE  /\ past.swapped \subseteq past'.swapped
             /\ \A p \in PinSets \ Bad : past.runs[p] = 0 => past'.runs[p] = 0
  <2>1. CASE WritePins(s)
    <3>1. past'.swapped = past.swapped
      BY <1>0, <2>1, WritePinsRow
    <3>2. \/ past'.runs = past.runs
          \/ past'.runs = [past.runs EXCEPT ![job[s].pins.set] = 0]
      BY <1>0, <2>1, WritePinsRow
    <3> QED
      BY <1>0, <3>1, <3>2
  <2>2. CASE ~WritePins(s)
    BY <1>0, <1>5, <2>2, PostRow, FactoryResetRow, WriteConfigRow, CacheConfigRow, CheckPairRow,
       WritePotsRow, CachePairRow, EraseRow DEF Saver
  <2> QED
    BY <2>1, <2>2
<1>6. CASE UNCHANGED vars
  BY <1>6 DEF vars
<1> QED
  BY <1>1, <1>2, <1>3, <1>4, <1>5, <1>6 DEF Next

LEMMA TrialsStep == Sound /\ Vouched /\ TrialsCount /\ [Next]_vars => TrialsCount'
<1> SUFFICES ASSUME Sound, Vouched, TrialsCount, [Next]_vars PROVE TrialsCount'
  OBVIOUS
<1>1. \A p \in Crashing : Counted(p)'
  BY CountStep DEF TrialsCount
<1>2. Crashing' \subseteq Crashing
  BY RunsRow DEF Crashing
<1>3. (\A p \in PinSets \ Bad : past.runs[p] = 0)'
  BY RunsRow DEF TrialsCount
<1> QED
  BY <1>1, <1>2, <1>3 DEF TrialsCount

-----------------------------------------------------------------------------
(* Failed boots are counted *)

LEMMA FailNumbers ==
    ASSUME Shapes
    PROVE  /\ past.failed \in Int /\ past.failed >= 0
           /\ ram.cfg.fails \in Int /\ grace.cfg.fails \in Int
           /\ nv.cfg # None => nv.cfg.fails \in Int
<1>1. past.failed \in Nat
  BY DEF Shapes, PastRecs
<1>2. ram.cfg.fails \in Fails /\ grace.cfg.fails \in Fails /\ (nv.cfg # None => nv.cfg.fails \in Fails)
  BY DEF Shapes, RamRecs, GraceRecs, NvRecs, Cfgs
<1> QED
  BY <1>1, <1>2, Limits DEF Fails

\* Steps that leave the counters alone.
LEMMA FailsKept ==
    ASSUME Shapes, FailsCount, nv'.cfg \in {nv.cfg, None}, ram'.cfg = ram.cfg,
           past'.failed = past.failed, past'.raced = past.raced,
           \/ grace'.at = grace.at /\ grace'.cfg = grace.cfg
           \/ ~Counting /\ ~Counting',
           job' = job \/ \E s \in Savers, j \in JobRecs :
                           Turn(s, j) /\ job[s].at # "cache" /\ j.at # "cache"
    PROVE  FailsCount'
<1>1. \A s \in Savers : job'[s].at = "cache" <=> job[s].at = "cache"
  <2>1. CASE job' = job
    BY <2>1
  <2>2. ASSUME NEW s \in Savers, NEW j \in JobRecs,
               Turn(s, j), job[s].at # "cache", j.at # "cache"
        PROVE  \A t \in Savers : job'[t].at = "cache" <=> job[t].at = "cache"
    BY <2>2, JobTurns
  <2> QED
    BY <2>1, <2>2
<1>2. CASE grace'.at = grace.at /\ grace'.cfg = grace.cfg
  BY <1>1, <1>2 DEF FailsCount, Counting
<1>3. CASE ~Counting /\ ~Counting'
  BY <1>1, <1>3 DEF FailsCount, Counting
<1> QED
  BY <1>2, <1>3

LEMMA BlankFails ==
    ASSUME Shapes, FailsCount, Blank', nv' = nv,
           past'.failed = past.failed, past'.raced = past.raced
    PROVE  FailsCount'
<1>1. ram'.cfg.fails = 0 /\ ~Counting'
  BY Defaults DEF Blank, Counting
<1>2. 0 <= past.failed
  BY FailNumbers
<1> QED
  BY <1>1, <1>2 DEF FailsCount

LEMMA GraceFails ==
    ASSUME Sound, FailsCount, GraceTask PROVE FailsCount'
<1>0. Shapes
  BY DEF Sound
<1>1. CASE GraceExpires
  <2>1. CASE grace' = NoGrace /\ past' = past
    BY <1>0, <1>1, <2>1, GraceExpiresRow, FailsKept, Defaults DEF Counting
  <2>2. CASE /\ grace'.at = "copy"
             /\ past'.raced = (past.raced \/ \E s \in Savers : job[s].at = "cache")
             /\ \/ grace'.cfg.fails = 0 /\ past'.failed = past.failed
                \/ grace'.cfg.fails = ram.cfg.fails + 1 /\ past'.failed = past.failed + 1
    <3> SUFFICES ASSUME ~past'.raced PROVE FailsCount'
      BY DEF FailsCount
    <3>1. ~past.raced /\ \A s \in Savers : job[s].at # "cache"
      BY <2>2
    <3>2. grace.at = "wait" /\ UNCHANGED <<nv, ram, job>>
      BY <1>1, GraceExpiresRow
    <3>3. /\ ram.cfg.fails <= past.failed
          /\ nv.cfg # None => nv.cfg.fails <= past.failed
      BY <3>1, <3>2 DEF FailsCount
    <3>4. /\ grace'.cfg.fails <= past'.failed /\ ram.cfg.fails <= past'.failed
          /\ nv.cfg # None => nv.cfg.fails <= past'.failed
      BY <1>0, <2>2, <3>3, FailNumbers
    <3> QED
      BY <3>1, <3>2, <3>4 DEF FailsCount
  <2> QED
    BY <1>1, <2>1, <2>2, GraceExpiresRow
<1>2. CASE GraceCopy
  BY <1>0, <1>2, GraceCopyRow, Defaults DEF FailsCount, Counting
<1>3. CASE GraceWrite
  <2>1. CASE /\ nv'.cfg = grace.cfg /\ grace'.at = "cache" /\ grace'.cfg = grace.cfg
             /\ past'.failed = IF grace.cfg.fails = 0 THEN 0 ELSE past.failed
    <3>1. ~past.raced => grace.cfg.fails <= past'.failed
      BY <1>0, <1>3, <2>1, GraceWriteRow, FailNumbers DEF FailsCount, Counting
    <3> QED
      BY <1>0, <1>3, <2>1, <3>1, GraceWriteRow DEF FailsCount, Counting
  <2>2. CASE nv'.cfg = nv.cfg /\ grace' = NoGrace /\ past' = past
    BY <1>0, <1>3, <2>2, GraceWriteRow, Defaults DEF FailsCount, Counting
  <2> QED
    BY <1>0, <1>3, <2>1, <2>2, GraceWriteRow
<1>4. CASE GraceCache
  BY <1>0, <1>4, GraceCacheRow, Defaults DEF FailsCount, Counting
<1> QED
  BY <1>1, <1>2, <1>3, <1>4 DEF GraceTask

LEMMA SaverFails ==
    ASSUME Shapes, FailsCount, NEW s \in Savers, Post(s) \/ FactoryReset(s) \/ Saver(s)
    PROVE  FailsCount'
<1>0. NoJob \in JobRecs /\ NoJob.at = "idle"
  BY Defaults
<1>1. CASE Post(s)
  <2>1. PICK j \in JobRecs : Turn(s, j) /\ j.at = "blob" /\ job[s].at = "idle"
    BY <1>1, PostRow DEF Post
  <2> QED
    BY <1>1, <2>1, PostRow, FailsKept
<1>2. CASE FactoryReset(s)
  <2> DEFINE j == [NoJob EXCEPT !.at = "erase"]
  <2>1. j \in JobRecs /\ j.at = "erase" /\ job[s].at = "idle"
    BY <1>0, <1>2 DEF JobRecs, FactoryReset
  <2>2. Turn(s, j)
    BY <1>2, FactoryResetRow
  <2> HIDE DEF j
  <2> QED
    BY <1>2, <2>1, <2>2, FactoryResetRow, FailsKept
<1>3. CASE WriteConfig(s)
  <2>1. CASE /\ nv'.cfg = SavedCfg(s) /\ Turn(s, [job[s] EXCEPT !.at = "cache"])
             /\ past'.failed = 0 /\ past'.raced = Counting
    <3>1. PICK j \in JobRecs : Turn(s, j) /\ j.at = "cache"
      BY <2>1, NextStage
    <3>2. job'[s].at = "cache"
      BY <3>1, JobTurns
    <3>3. Counting' = Counting
      BY <1>3, WriteConfigRow DEF Counting
    <3> QED
      BY <2>1, <3>2, <3>3, SavedCfgIs DEF FailsCount
  <2>2. CASE nv'.cfg = nv.cfg /\ Turn(s, NoJob) /\ past' = past
    BY <1>0, <1>3, <2>2, WriteConfigRow, FailsKept
  <2> QED
    BY <1>3, <2>1, <2>2, WriteConfigRow
<1>4. CASE CacheConfig(s)
  <2>1. PICK j \in JobRecs : Turn(s, j) /\ j.at = "pair"
    BY <1>4, CacheConfigRow, NextStage
  <2>2. \A u \in Savers : job'[u].at = "cache" => job[u].at = "cache"
    BY <2>1, JobTurns
  <2>3. 0 <= past.failed
    BY FailNumbers
  <2> QED
    BY <1>4, <2>2, <2>3, CacheConfigRow, SavedCfgIs DEF FailsCount, Counting
<1>5. CASE CheckPair(s)
  <2>1. PICK j \in JobRecs : Turn(s, j) /\ j.at \in {"idle", "pots"}
    BY <1>0, <1>5, CheckPairRow
  <2> QED
    BY <1>5, <2>1, CheckPairRow, FailsKept
<1>6. CASE WritePots(s)
  <2>1. PICK j \in JobRecs : Turn(s, j) /\ j.at \in {"idle", "pins"}
    BY <1>0, <1>6, WritePotsRow, NextStage
  <2> QED
    BY <1>6, <2>1, WritePotsRow, FailsKept
<1>7. CASE WritePins(s)
  <2>1. PICK j \in JobRecs : Turn(s, j) /\ j.at \in {"idle", "both"}
    BY <1>0, <1>7, WritePinsRow, NextStage
  <2> QED
    BY <1>7, <2>1, WritePinsRow, FailsKept
<1>8. CASE CachePair(s)
  BY <1>0, <1>8, CachePairRow, FailsKept
<1>9. CASE EraseConfig(s) \/ ErasePots(s) \/ ErasePins(s)
  <2>1. PICK j \in JobRecs : Turn(s, j) /\ j.at \in {"rest", "last", "idle"}
    BY <1>0, <1>9, EraseRow, NextStage
  <2> QED
    BY <1>9, <2>1, EraseRow, FailsKept
<1> QED
  BY <1>1, <1>2, <1>3, <1>4, <1>5, <1>6, <1>7, <1>8, <1>9 DEF Saver

LEMMA FailsStep == Sound /\ FailsCount /\ [Next]_vars => FailsCount'
<1> SUFFICES ASSUME Sound, FailsCount, [Next]_vars PROVE FailsCount'
  OBVIOUS
<1>0. Shapes
  BY DEF Sound
<1>a. Wipe => FailsCount'
  BY <1>0, BlankFails DEF Wipe, SameBooks
<1>1. CASE PowerOn \/ PowerCycle \/ Trouble \/ SwitchOff \/ Press \/ Reboot
  BY <1>0, <1>1, <1>a, SwitchRow
<1>2. CASE Join \/ ApTimeout \/ Tick
  BY <1>0, <1>2, <1>a, JoinRow, TickRow, FailsKept DEF ApTimeout
<1>3. CASE AppMain
  <2>1. CASE PowerButtonBoot \/ StartMesh
    BY <1>0, <2>1, FailsKept DEF PowerButtonBoot, StartMesh
  <2>2. CASE LoadPins
    BY <1>0, <2>2, LoadPinsRow, FailsKept
  <2>3. CASE LoadConfig
    <3>1. CASE Wipe
      BY <3>1, <1>a
    <3>2. CASE ~Wipe
      <4>1. ~Counting /\ ~Counting'
        BY <1>0, <2>3, <3>2, LoadConfigRow DEF Sound, Alone, Early, Counting
      <4>2. CASE nv.cfg # None /\ ram'.cfg = nv.cfg /\ nv' = nv /\ past' = past
        BY <4>1, <4>2 DEF FailsCount
      <4>3. CASE nv'.cfg = Seeded /\ ram'.cfg = Seeded /\ past' = [past EXCEPT !.failed = 0]
        <5>1. past'.failed = 0
          BY <1>0, <4>3 DEF Shapes, PastRecs
        <5>2. nv'.cfg.fails <= past'.failed /\ ram'.cfg.fails <= past'.failed
          BY <4>3, <5>1, Defaults
        <5> QED
          BY <4>1, <5>2 DEF FailsCount
      <4> QED
        BY <1>0, <2>3, <3>2, <4>2, <4>3, LoadConfigRow
    <3> QED
      BY <3>1, <3>2
  <2>4. CASE StartFallbackAp
    <3>1. ram'.cfg = ram.cfg
      BY <1>0, <2>4 DEF StartFallbackAp, Shapes, RamRecs
    <3> QED
      BY <1>0, <2>4, <3>1, FailsKept DEF StartFallbackAp
  <2>5. CASE ArmGraceWindow
    <3>1. grace.at = "none"
      BY <2>5 DEF Sound, Alone, ArmGraceWindow
    <3>2. grace'.at = "wait"
      BY <1>0, <2>5, Defaults DEF ArmGraceWindow, GraceRecs
    <3>3. ~Counting /\ ~Counting'
      BY <3>1, <3>2 DEF Counting
    <3> QED
      BY <1>0, <2>5, <3>3, FailsKept DEF ArmGraceWindow
  <2>6. CASE StartAudio
    <3>1. CASE Blank'
      BY <1>0, <2>6, <3>1, StartAudioRow, BlankFails
    <3>2. CASE ~Blank'
      BY <1>0, <2>6, <3>2, StartAudioRow, FailsKept
    <3> QED
      BY <3>1, <3>2
  <2>7. CASE ConfirmRead \/ ConfirmWrite \/ ConfirmClear
    BY <1>0, <2>7, ConfirmReadRow, ConfirmWriteRow, ConfirmClearRow, FailsKept
  <2> QED
    BY <1>3, <2>1, <2>2, <2>3, <2>4, <2>5, <2>6, <2>7 DEF AppMain
<1>4. CASE GraceTask
  BY <1>4, GraceFails
<1>5. ASSUME NEW s \in Savers, Post(s) \/ FactoryReset(s) \/ Saver(s) PROVE FailsCount'
  BY <1>0, <1>5, SaverFails
<1>6. CASE UNCHANGED vars
  BY <1>6 DEF vars, FailsCount, Counting
<1> QED
  BY <1>1, <1>2, <1>3, <1>4, <1>5, <1>6 DEF Next

-----------------------------------------------------------------------------
(* The invariant, and what follows from it *)

LEMMA BootInit == Init => BootInv
<1> SUFFICES ASSUME Init PROVE BootInv
  OBVIOUS
<1>1. Sound
  BY SoundInit
<1>2. /\ nv.cfg = None /\ nv.pins = None /\ ram = BlankRam /\ at = "off" /\ grace = NoGrace
      /\ job = [s \in Savers |-> NoJob]
      /\ past.came = {} /\ past.runs = [p \in PinSets |-> 0] /\ ~past.raced /\ past.failed = 0
      /\ used.faults = 0
  BY DEF Init
<1>3. PairsApart
  BY <1>2, Defaults DEF PairsApart, KnobApart
<1>4. \A s \in Savers : ~Decides(s) /\ job[s].at = "idle"
  BY <1>2, Defaults DEF Decides
<1>5. Vouched
  BY <1>2, <1>4, Defaults DEF Vouched, Fair, Came
<1>6. \A p \in PinSets : past.runs[p] = 0
  BY <1>2
<1>7. ASSUME NEW p \in Crashing PROVE Counted(p)
  <2>1. p \in PinSets /\ p # DefaultPins
    BY <1>5, NotVouched
  <2>2. past.runs[p] <= TrialBootsMax + 1 + used.faults
    BY <1>2, <1>6, <2>1, Limits
  <2> QED
    BY <1>2, <1>4, <2>1, <2>2, Defaults DEF Counted, Uncounted
<1>8. TrialsCount
  BY <1>6, <1>7 DEF TrialsCount
<1>9. FailsCount
  <2>1. ram.cfg.fails = 0 /\ grace.at = "none"
    BY <1>2, Defaults
  <2> QED
    BY <1>2, <2>1 DEF FailsCount, Counting
<1> QED
  BY <1>1, <1>3, <1>5, <1>8, <1>9 DEF BootInv

LEMMA BootStep == BootInv /\ [Next]_vars => BootInv'
BY SoundStep, PairsStep, VouchedStep, TrialsStep, FailsStep DEF BootInv

\* The device's state and what it stores stay what device_config.c counts on,
\* whichever write fails and wherever power goes.
THEOREM BootCorrect == Spec => []BootInv
BY BootInit, BootStep, PTL DEF Spec

\* Every variable keeps its type; in particular the counters of failed boots
\* and of trials never leave the ranges their records have room for.
THEOREM TypeCorrect == Spec => []TypeOK
<1>1. BootInv => TypeOK
  BY ShapesAreTypes DEF BootInv, Sound
<1> QED
  BY <1>1, BootCorrect, PTL

\* No knob reads a pin the bus, the light or the button has, from the load on,
\* whatever of a pair power failed to let reach flash.
THEOREM KnobsApart == Spec => []KnobApart
<1>1. BootInv => KnobApart
  BY DEF BootInv, PairsApart
<1> QED
  BY <1>1, BootCorrect, PTL

\* Pins stored as confirmed have carried audio or are the defaults, unless a
\* boot whose audio had started with another form's pins confirmed them.
THEOREM OnlyProvenPins == Spec => []ConfirmedCameUp
<1>1. BootInv => ConfirmedCameUp
  BY DEF BootInv, Vouched, Fair, Came, ConfirmedCameUp
<1> QED
  BY <1>1, BootCorrect, PTL

\* Pins that crash the device are given up after their trial boots: the count
\* in flash is never behind the crashes by more than the writes that failed.
THEOREM CrashLoopEnds == Spec => []BadPinsDropped
<1>1. BootInv => BadPinsDropped
  <2> SUFFICES ASSUME BootInv, NEW p \in PinSets \ past.swapped
               PROVE  past.runs[p] <= TrialBootsMax + 1 + used.faults
    BY DEF BadPinsDropped
  <2>1. CASE p \in Bad
    BY <2>1 DEF BootInv, TrialsCount, Counted, Crashing
  <2>2. CASE p \notin Bad
    <3>1. past.runs[p] = 0
      BY <2>2 DEF BootInv, TrialsCount
    <3>2. Shapes
      BY DEF BootInv, Sound
    <3> QED
      BY <3>1, <3>2, Numbers
  <2> QED
    BY <2>1, <2>2
<1> QED
  BY <1>1, BootCorrect, PTL

\* The open fallback network comes up for a streak only when that many boots
\* failed, or a form raced the window's count.
THEOREM FallbackIsEarned == Spec => FallbackEarned
<1>1. BootInv /\ [Next]_vars
        => [at = "mesh" /\ ram'.reason = "streak"
              => past.failed >= FailThreshold \/ past.raced]_vars
  <2> SUFFICES ASSUME BootInv, Next, at = "mesh", ram'.reason = "streak", ~past.raced
               PROVE  past.failed >= FailThreshold
    OBVIOUS
  <2>0. Sound /\ Shapes
    BY DEF BootInv, Sound
  <2>1. ram.reason = "none" /\ grace.at = "none" /\ \A s \in Savers : job[s].at = "idle"
    BY <2>0 DEF Sound, Alone, Early
  <2>2. StartFallbackAp
    <3>1. ~Wipe
      BY Defaults DEF Wipe, Blank
    <3>2. ~(PowerOn \/ PowerCycle \/ Trouble \/ SwitchOff \/ Press \/ Reboot)
      BY <2>0, <3>1, SwitchRow
    <3>3. ~(Join \/ ApTimeout \/ Tick)
      BY <2>0, <2>1, <3>1, JoinRow, TickRow DEF ApTimeout
    <3>4. ~GraceTask
      BY <2>1 DEF GraceTask, GraceExpires, GraceCopy, GraceWrite, GraceCache
    <3>5. ASSUME NEW s \in Savers PROVE ~(Post(s) \/ FactoryReset(s) \/ Saver(s))
      <4>1. ram' # ram
        BY <2>1
      <4>2. ~Reachable(s)
        BY <2>0 DEF Sound, Alone, Early, Reachable, Serving
      <4> QED
        BY <2>1, <4>2 DEF Post, FactoryReset, Saver, WriteConfig, CacheConfig, CheckPair,
           WritePots, WritePins, CachePair, EraseConfig, ErasePots, ErasePins
    <3>6. AppMain
      BY <3>2, <3>3, <3>4, <3>5 DEF Next
    <3>7. ~StartMesh
      BY <2>1 DEF StartMesh
    <3> QED
      BY <3>6, <3>7 DEF AppMain, PowerButtonBoot, LoadPins, LoadConfig, ArmGraceWindow, StartAudio,
         ConfirmRead, ConfirmWrite, ConfirmClear
  <2>3. Decided = "streak"
    BY <2>0, <2>2 DEF StartFallbackAp, Shapes, RamRecs
  <2>4. ram.cfg.fails >= FailThreshold
    BY <2>3 DEF Decided
  <2>5. ram.cfg.fails <= past.failed
    BY <2>1 DEF BootInv, FailsCount
  <2> QED
    BY <2>0, <2>4, <2>5, FailNumbers, Limits
<1> QED
  BY <1>1, BootCorrect, PTL DEF Spec, FallbackEarned

=============================================================================
