------------------------------ MODULE ThinkPad ------------------------------
(* The ThinkPad plugin (src/plugins/thinkpad, src/cmd/sysc-plugin-thinkpad):   *)
(* one loop owns the fan, the keyboard backlight and the lid light, and a file *)
(* of profiles.  The hardware keys change the lights behind its back; the      *)
(* kernel counts those changes, but the counter cannot always be read.  A      *)
(* write may be refused, the file may refuse to be written, and the process    *)
(* may end between any two events.                                             *)
EXTENDS Absent, Naturals, FiniteSets

CONSTANTS
  Names,        \* profile names the user types
  MaxLevel,     \* the brightest step a profile may ask for (MaxKeyboardLevel)
  LightMax,     \* the brightest step of the keyboard light (max_brightness)
  Unreadable,   \* the lights whose counter (brightness_hw_changed) may be unreadable
  PressesMax,   \* bound: inputs of the user and key presses
  FaultsMax,    \* bound: refused writes and failing saves
  StartsMax     \* bound: starts of the plugin

VARIABLES
  machine,   \* [fan, keyboard, lid]: what the hardware does
  unseen,    \* lights whose key was pressed since their counter was last read
  missed,    \* lights of which a read could not tell the plugin that their key was pressed
  up,        \* "off", "new" (no settings yet) or "warm"
  sampled,   \* lights whose counter has a baseline (hwValid)
  want,      \* the Settings the controller wants
  store,     \* [profiles, last]: the profile table in memory
  active,    \* the profile in effect, or None
  selected,  \* the profile picked in the panel, or None
  external,  \* lights shown as "A hardware key changed"
  disk,      \* the store as it is in the file
  refused,   \* controls whose last write was refused
  lasting,   \* the settings of the last change that succeeded and was saved
  presses, faults, starts

vars == <<machine, unseen, missed, up, sampled, want, store, active, selected, external, disk,
          refused, lasting, presses, faults, starts>>

Controls == {"fan", "keyboard", "lid"}
Lights == {"keyboard", "lid"}
FanLevels == {"auto", "full"}
Settings == [fan : FanLevels \union {None}, on : BOOLEAN, level : 0..MaxLevel, lid : BOOLEAN]

\* A profile that is not there is not one of the settings.
ThinkPadAssumption ==
  /\ MaxLevel \in Nat /\ LightMax \in 1..MaxLevel
  /\ {PressesMax, FaultsMax, StartsMax} \subseteq Nat
  /\ None \notin Names \union Settings

-----------------------------------------------------------------------------
(* Settings and the machine.                                               *)

KeyboardValue(s) == IF s.on THEN s.level ELSE 0

\* A write is clamped to what the light can do (clampLevel); the want is not.
Clamped(level) == IF level > LightMax THEN LightMax ELSE level

\* The settings that describe the machine (settingsFromState).
FromMachine(m) ==
  [fan |-> m.fan, on |-> m.keyboard > 0, level |-> m.keyboard, lid |-> m.lid]

\* Whether control c of the machine is as s says; a profile may leave the fan alone.
Agrees(m, s, c) ==
  CASE c = "fan" -> s.fan \in {None, m.fan}
    [] c = "keyboard" -> m.keyboard = Clamped(KeyboardValue(s))
    [] c = "lid" -> m.lid = s.lid

\* Write the wanted value of the controls in mask (hw.SetFanLevel, SetKeyboard, SetLid).
Written(m, s, mask) ==
  [fan |-> IF "fan" \in mask /\ s.fan # None THEN s.fan ELSE m.fan,
   keyboard |-> IF "keyboard" \in mask THEN Clamped(KeyboardValue(s)) ELSE m.keyboard,
   lid |-> IF "lid" \in mask THEN s.lid ELSE m.lid]

\* What a read may find of the counters, the lights whose it can read (HWChangedValid):
\* before the first key since boot, and on some kernels ever, the kernel answers with an
\* error.
Legible == {lights \in SUBSET Lights : Lights \ Unreadable \subseteq lights}

\* The lights reported as changed by a key when the counters in legible are read: the
\* first sample of a counter is its baseline (detectExternalLocked).
KeyChanges(legible) == unseen \intersect sampled \intersect legible

\* The wants follow the lights that a key changed.
Followed(s, m, changed) ==
  [s EXCEPT !.on = IF "keyboard" \in changed THEN m.keyboard > 0 ELSE @,
            !.level = IF "keyboard" \in changed /\ m.keyboard > 0 THEN m.keyboard ELSE @,
            !.lid = IF "lid" \in changed THEN m.lid ELSE @]

\* Read the hardware after writing the lights in done: shown are the lights whose
\* change the panel still tells, changed those a key has changed since.  What was just
\* written takes its baseline from this read, even if there is none (refresh).
HardwareRead(s, m, done, shown, changed, legible) ==
  /\ want' = Followed(s, m, changed)
  /\ external' = shown \union changed
  /\ unseen' = unseen \ (done \union legible)
  /\ missed' = (missed \union unseen) \ (done \union changed)
  /\ sampled' = (sampled \ done) \union legible

-----------------------------------------------------------------------------
(* The file.                                                               *)

\* Every change of the store is followed by a write of the whole file, which may
\* fail; the table in memory has changed all the same (writeLocked).
Stored(new, ok) == store' = new /\ disk' = IF ok THEN new ELSE disk

\* As Saved, but a profile that exists is left as it is.
KeepsOld(s, name, settings) ==
  IF s.profiles[name] # None THEN s ELSE [s EXCEPT !.profiles[name] = settings]

\* Insert or replace a profile.
Saved(s, name, settings) == [s EXCEPT !.profiles[name] = settings]

\* The profile that is applied is written down only when it is not there yet.
Remembered(s, name) == [s EXCEPT !.last = name]

Profiles(s) == {n \in Names : s.profiles[n] # None}

\* Troubles of one step: the writes it is refused and whether its save fails.
Troubled(bad, ok) ==
  /\ faults + Cardinality(bad) + (IF ok THEN 0 ELSE 1) <= FaultsMax
  /\ faults' = faults + Cardinality(bad) + (IF ok THEN 0 ELSE 1)

-----------------------------------------------------------------------------
(* Applying.                                                               *)

\* Write the controls in mask, all but those that are refused, and read back
\* (apply).  shown and changed are as the last read left them; the lights just
\* written no longer count as changed by a key.
Apply(s, mask, bad, shown, changed, legible) ==
  LET done == mask \ bad
  IN  /\ machine' = Written(machine, s, done)
      /\ HardwareRead(s, machine', done, shown \ done, changed \ done, legible)
      /\ refused' = (refused \ mask) \union bad

\* What the next start must restore is what was wanted at the last success.
Lasts(success, name, settings) ==
  lasting' = IF success /\ name # None /\ disk' = store' /\ store'.last = name
             THEN settings ELSE None

Press == presses < PressesMax /\ presses' = presses + 1

\* A direct control: change the wants, write that control only, and when it was
\* not refused save all wants into the active profile (applyAndPersist,
\* persistActive).
Direct(control, s) ==
  \E bad \in SUBSET {control}, ok \in BOOLEAN, legible \in Legible :
    /\ up # "off" /\ Press
    /\ Troubled(bad, ok)
    /\ Apply(s, {control}, bad, external, KeyChanges(legible), legible)
    /\ IF bad = {} /\ active # None
       THEN Stored(Saved(store, active, want'), ok)
       ELSE ok /\ UNCHANGED <<store, disk>>
    /\ Lasts(bad = {} /\ ok, active, want')
    /\ UNCHANGED <<up, active, selected, starts>>

SetFanLevel == \E level \in FanLevels : Direct("fan", [want EXCEPT !.fan = level])

SetKeyboardStep ==
  \/ Direct("keyboard", [want EXCEPT !.on = FALSE])
  \/ \E level \in 1..MaxLevel : Direct("keyboard", [want EXCEPT !.on = TRUE, !.level = level])

\* The toggle flips the want, and lights the remembered level.
ToggleKeyboard ==
  Direct("keyboard",
         IF want.on THEN [want EXCEPT !.on = FALSE]
         ELSE [want EXCEPT !.on = TRUE, !.level = IF @ < 1 THEN 1 ELSE @])

ToggleLid == Direct("lid", [want EXCEPT !.lid = ~@])

\* Push a profile to all controls; it is remembered only when none is refused.
ApplyNamed(name, bad, ok, shown, changed, legible) ==
  /\ Troubled(bad, ok)
  /\ active' = name
  /\ Apply(store.profiles[name], Controls, bad, shown, changed, legible)
  /\ IF bad = {} /\ store.last # name
     THEN Stored(Remembered(store, name), ok)
     ELSE ok /\ UNCHANGED <<store, disk>>
  /\ Lasts(bad = {} /\ ok, name, want')

ApplyProfile ==
  \E name \in Profiles(store), bad \in SUBSET Controls, ok \in BOOLEAN, legible \in Legible :
    /\ up # "off" /\ Press
    /\ ApplyNamed(name, bad, ok, external, KeyChanges(legible), legible)
    /\ selected' = name
    /\ UNCHANGED <<up, starts>>

\* Save the wants under a name, make it active and remember it: two writes of
\* the file, each of which may fail.
SaveProfile ==
  \E name \in Names, ok \in BOOLEAN, rememberOk \in BOOLEAN :
    LET saved == Saved(store, name, want)
    IN  /\ up # "off" /\ Press
        /\ selected' = name
        /\ IF ~ok \/ store.last = name
           THEN rememberOk /\ Stored(saved, ok)
           ELSE /\ store' = Remembered(saved, name)
                /\ disk' = IF rememberOk THEN store' ELSE saved
        /\ active' = IF ok THEN name ELSE active
        /\ Troubled({}, ok /\ rememberOk)
        /\ Lasts(ok /\ rememberOk, name, want)
        /\ UNCHANGED <<machine, unseen, missed, up, sampled, want, external, refused, starts>>

\* The last profile cannot be deleted.
DeleteProfile ==
  \E name \in Profiles(store), ok \in BOOLEAN :
    /\ up # "off" /\ Press
    /\ selected' = IF selected = name THEN None ELSE selected
    /\ IF Cardinality(Profiles(store)) = 1 THEN ok /\ UNCHANGED <<store, disk, active>>
       ELSE /\ Stored([profiles |-> [store.profiles EXCEPT ![name] = None],
                       last |-> IF store.last = name THEN None ELSE store.last], ok)
            /\ active' = IF ok /\ active = name THEN None ELSE active
    /\ Troubled({}, ok)
    /\ lasting' = IF ok /\ name # active THEN lasting ELSE None
    /\ UNCHANGED <<machine, unseen, missed, up, sampled, want, external, refused, starts>>

\* A profile that exists is not overwritten; the panel selects the new name
\* whatever comes of it.
RenameProfile ==
  \E to \in Names, ok \in BOOLEAN :
    LET from == selected
        possible == from \in Profiles(store) /\ (to = from \/ to \notin Profiles(store))
    IN  /\ up # "off" /\ Press /\ selected # None
        /\ selected' = to
        /\ IF ~possible THEN ok /\ UNCHANGED <<store, disk, active>>
           ELSE /\ Stored([profiles |-> [[store.profiles EXCEPT ![from] = None]
                                           EXCEPT ![to] = store.profiles[from]],
                           last |-> IF store.last = from THEN to ELSE store.last], ok)
                /\ active' = IF ok /\ active = from THEN to ELSE active
        /\ Troubled({}, ok)
        /\ lasting' = IF ok THEN lasting ELSE None
        /\ UNCHANGED <<machine, unseen, missed, up, sampled, want, external, refused, starts>>

PickProfile ==
  \E name \in Profiles(store) :
    /\ up # "off" /\ selected' = name
    /\ UNCHANGED <<machine, unseen, missed, up, sampled, want, store, active, external, disk, refused,
                   lasting, presses, faults, starts>>

-----------------------------------------------------------------------------
(* Time and the host.                                                      *)

\* The poll, an opened view and Re-check read the hardware.
ReadHardware ==
  /\ up # "off"
  /\ \E legible \in Legible :
       HardwareRead(want, machine, {}, external, KeyChanges(legible), legible)
  /\ UNCHANGED <<machine, up, store, active, selected, disk, refused, lasting, presses,
                 faults, starts>>

\* The profile to begin with: the configured one, or the last one used.
StartName(configured) ==
  IF configured \in Profiles(store) THEN configured
  ELSE IF store.last \in Profiles(store) THEN store.last ELSE None

\* The first settings: read the machine and restore the profile; of the counters the
\* read before the writes gives what the one after them gives (Reconfigure, startOnce).
Reconfigure ==
  \E configured \in Names \union {None}, applyOnStart \in BOOLEAN,
     bad \in SUBSET Controls, ok \in BOOLEAN, legible \in Legible :
    LET name == StartName(configured)
        begin == FromMachine(machine)
    IN  /\ up = "new" /\ up' = "warm"
        /\ IF name # None /\ applyOnStart THEN 
             ApplyNamed(name, bad, ok, KeyChanges(legible), {}, legible)
           ELSE /\ bad = {}
                /\ active' = name
                /\ want' = IF name = None \/ begin.on THEN begin
                           ELSE [begin EXCEPT !.level = store.profiles[name].level]
                /\ external' = KeyChanges(legible)
                /\ unseen' = unseen \ legible /\ missed' = {}
                /\ sampled' = sampled \union legible
                /\ refused' = {}
                /\ lasting' = None
                /\ IF name # None /\ store.last # name
                   THEN Stored(Remembered(store, name), ok)
                   ELSE ok /\ UNCHANGED <<store, disk>>
                /\ Troubled({}, ok)
                /\ UNCHANGED machine
        /\ UNCHANGED <<selected, presses, starts>>

\* The wants before the first settings.
Unknown == [fan |-> None, on |-> FALSE, level |-> 0, lid |-> FALSE]

\* The process starts: it reads the file, and knows nothing of the machine.
Start ==
  /\ up = "off" /\ starts < StartsMax
  /\ up' = "new" /\ starts' = starts + 1
  /\ store' = disk
  /\ want' = Unknown /\ active' = None /\ selected' = None
  /\ external' = {} /\ unseen' = {} /\ missed' = {} /\ sampled' = {} /\ refused' = {}
  /\ UNCHANGED <<machine, disk, lasting, presses, faults>>

\* The process ends; after a reboot the firmware's defaults are back.
Stop ==
  /\ up # "off" /\ up' = "off"
  /\ machine' \in {machine, [fan |-> "auto", keyboard |-> 0, lid |-> TRUE]}
  /\ store' = disk
  /\ want' = Unknown /\ active' = None /\ selected' = None
  /\ external' = {} /\ unseen' = {} /\ missed' = {} /\ sampled' = {} /\ refused' = {}
  /\ UNCHANGED <<disk, lasting, presses, faults, starts>>

\* The user presses the key of a light.
PressKey ==
  /\ Press
  /\ \/ /\ machine' = [machine EXCEPT !.keyboard = (@ + 1) % (LightMax + 1)]
        /\ unseen' = IF up = "off" THEN {} ELSE unseen \union {"keyboard"}
        /\ refused' = refused \ {"keyboard"}
     \/ /\ machine' = [machine EXCEPT !.lid = ~@]
        /\ unseen' = IF up = "off" THEN {} ELSE unseen \union {"lid"}
        /\ refused' = refused \ {"lid"}
  /\ UNCHANGED <<missed, up, sampled, want, store, active, selected, external, disk, lasting,
                 faults, starts>>

\* The starter profiles are on disk from the first run on; one is enough here.
Init ==
  \E first \in Names :
    LET everyday == [fan |-> "auto", on |-> TRUE, level |-> 1, lid |-> FALSE]
    IN  /\ machine = [fan |-> "auto", keyboard |-> 0, lid |-> TRUE]
        /\ disk = [profiles |-> [n \in Names |-> IF n = first THEN everyday ELSE None],
                   last |-> first]
        /\ store = disk
        /\ unseen = {} /\ missed = {} /\ up = "off" /\ sampled = {} /\ want = Unknown
        /\ active = None /\ selected = None /\ external = {} /\ refused = {}
        /\ lasting = None
        /\ presses = 0 /\ faults = 0 /\ starts = 0

Input == SetFanLevel \/ SetKeyboardStep \/ ToggleKeyboard \/ ToggleLid \/ ApplyProfile
         \/ SaveProfile \/ DeleteProfile \/ RenameProfile \/ PickProfile
Next == Input \/ ReadHardware \/ Reconfigure \/ Start \/ Stop \/ PressKey
Spec == Init /\ [][Next]_vars

-----------------------------------------------------------------------------
(* Properties.                                                             *)

\* Once the settings have come, what the controller wants of a light is what the
\* light does, as far as the light can: unless its last write was refused, a key was
\* pressed since its counter was last read, or a read that could not read the counter
\* has missed the key.  Otherwise the toggle would not flip the light (controller.go,
\* detectExternalLocked).
WantsFollowLights ==
  up = "warm" => \A c \in Lights \ (unseen \union missed \union refused) : Agrees(machine, want, c)

\* "writeMask keeps direct controls independent": several controls change in one step
\* only when a profile is applied, and those are then as it says (controller.go:31).
ChangedControls == {c \in Controls : machine'[c] # machine[c]}
ControlIsIndependent ==
  (up = "warm" /\ up' = "warm" /\ Cardinality(ChangedControls) > 1) =>
    /\ active' \in Profiles(store)
    /\ \A c \in ChangedControls : Agrees(machine', store.profiles[active'], c)

\* A change that succeeded and was saved is what the next start restores when no
\* other profile is configured, whatever was renamed, deleted or saved in between.
StartRestores ==
  (up = "new" /\ up' = "warm" /\ None \notin {lasting, lasting'} /\ StartName(None) = active')
     => \A c \in Controls : Agrees(machine', lasting, c)

\* A toggle flips the light it shows, a control changes alone, and a start restores the
\* last change that succeeded and was saved (controller.go, store.go).
ControlsKeepSettings ==
  []WantsFollowLights /\ [][ControlIsIndependent /\ StartRestores]_vars
=============================================================================
