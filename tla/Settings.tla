------------------------------ MODULE Settings ------------------------------
(***************************************************************************)
(* The settings of the open photo (RSSettings, one snapshot) and those who *)
(* hold a copy of them: the sliders of the toolbox and the RSDcp filters   *)
(* of the loupe, the navigator and the view.  Everything runs on the main  *)
(* thread; what makes it hard is re-entrance.  Setting a property emits    *)
(* "settings-changed", its handlers set properties of the same settings,   *)
(* and these emit again, inside a commit or not.  The call stack is the    *)
(* agenda: a sequence of calls still to be made, whose head may put the    *)
(* calls it makes in front of the rest.                                    *)
(*                                                                         *)
(* A white balance is chosen as a warmth (standing for the pair warmth and *)
(* tint) with recalc set; the first filter that sees it computes the       *)
(* temperature (standing for dcp-temp and dcp-tint) with its own profile,  *)
(* stores it in the settings and clears recalc.                            *)
(***************************************************************************)
EXTENDS Naturals, Sequences

CONSTANTS
    Profiles,     \* DCP profiles of the camera
    Temps,        \* temperatures
    DefaultTemp,  \* 5000, the default and the answer without a profile
    TempOf,       \* TempOf[p][w]: the temperature of warmth w under profile p
    None,
    MaxOps        \* bound: operations of the user

Chains    == {"loupe", "navigator", "view"}
Kinds     == {"raw", "raw_without_mul", "jpeg"}
Warmths   == {"zero", "neutral", "camera", "auto", "picked"}
Presets   == {"camera", "auto", None}
Exposures == {0, 1}
AllBits   == {"exposure", "wb", "switch", "curve"}
Ticked    == AllBits \ {"switch"}  \* all that the copy dialog offers

ASSUME TempAssumption ==
    /\ DefaultTemp \in Temps
    /\ TempOf \in [Profiles -> [Warmths -> Temps]]

ASSUME BoundAssumption == MaxOps \in Nat

VARIABLES
    kind,      \* what the file is: it decides what the camera's balance means
    profile,   \* photo->dcp
    settings,  \* photo->settings[snapshot]
    commit,    \* settings->commit
    todo,      \* settings->commit_todo
    tool,      \* the sliders and the switch of the toolbox
    mute,      \* toolbox->mute_from_photo
    follows,   \* the toolbox is connected to this photo
    chain,     \* what each RSDcp has read from the settings, and its profile
    linked,    \* the filters connected to these settings, in that order
    opened,    \* rs->opened_settings
    buffer,    \* rs->settings_buffer and rs->dcp_buffer
    agenda,    \* the calls pending
    ops,       \* operations so far
    want,      \* what the last operations asked for
    choice,    \* the photo's profile when a warmth was last converted, if known
    before,    \* what was closed, if nothing was done since; None otherwise
    unseen,    \* a copy has changed the switch and told nobody
    late       \* an operation found a recalculation left waiting

photoVars == <<kind, profile, opened, buffer>>
userVars  == <<ops, want, choice, before, late>>
signalVars == <<tool, mute, follows, chain, linked>>
vars == <<photoVars, settings, commit, todo, signalVars, agenda, userVars, unseen>>

-----------------------------------------------------------------------------
(* The calls.                                                              *)

Call(what)         == [do |-> what]
Set(field, value)  == [do |-> "set", field |-> field, value |-> value]
Tell(what, bits)   == [do |-> what, bits |-> bits]
Read(c, bits)      == [do |-> "read", chain |-> c, bits |-> bits]
OnChain(what, c)   == [do |-> what, chain |-> c]
CopyOf(s, bits)    == [do |-> "copy", from |-> s, bits |-> bits]
Mute(b)            == [do |-> "mute", value |-> b]

Defaults == [exposure |-> 0, warmth |-> "zero", temp |-> DefaultTemp,
             preset |-> None, switch |-> FALSE, recalc |-> FALSE]

SetWb(warmth, preset) ==
    <<Call("start"), Set("warmth", warmth), Set("preset", preset),
      Set("recalc", TRUE), Call("stop")>>

Reset_NoStop ==
    <<Call("start"), Set("exposure", Defaults.exposure),
      Set("warmth", Defaults.warmth), Set("temp", Defaults.temp),
      Set("switch", Defaults.switch), Tell("announce", {"curve"})>>

\* rs_settings_reset()
Reset ==
    <<Call("start"), Set("exposure", Defaults.exposure),
      Set("warmth", Defaults.warmth), Set("temp", Defaults.temp),
      Set("switch", Defaults.switch), Tell("announce", {"curve"}), Call("stop")>>

\* rs_photo_set_wb_from_camera()
FromCamera ==
    CASE kind = "raw"    -> SetWb("camera", "camera")
      [] kind # "raw" /\ profile = None ->
            <<Call("start"), Set("temp", DefaultTemp), Set("preset", "camera"),
              Set("recalc", FALSE), Call("stop")>>
      [] OTHER           -> <<>>

\* rs_photo_apply_to_filters()
ApplyTo(c) ==
    <<OnChain("profile", c), Call("camera_if_preset"), OnChain("connect", c)>>

\* rs_photo_load_from_file() with the sidecar f, and the rest of open_photo()
Open(f) ==
    (IF f = None
     THEN <<Call("default_preset")>>
     ELSE <<CopyOf(f, AllBits), Call("camera_if_preset")>>)
    \o <<Call("neutral"), Call("remember"), Call("auto_if_preset")>>
    \o ApplyTo("loupe") \o ApplyTo("navigator") \o ApplyTo("view")
    \o <<Call("toolbox_set_photo")>>

Handed(p) ==  \* profile_changed() of the preview: the loupe is left alone
    <<OnChain("profile", "view"), Read("view", AllBits),
      OnChain("profile", "navigator"), Read("navigator", AllBits)>>

-----------------------------------------------------------------------------
At(what)      == agenda # <<>> /\ Head(agenda).do = what
Continue(now) == agenda' = now \o Tail(agenda)
Quiet         == agenda = <<>>

\* The bits set_property() raises when field becomes value.
RaisedBy(field, value) ==
    CASE field = "exposure" -> {"exposure"}
      [] field = "switch"   -> {"switch"}
      [] field = "recalc"   -> IF value THEN {"wb"} ELSE {}
      [] OTHER              -> {"wb"}

\* A new value of warmth or temp drops the preset, which is announced first.
SetProperty ==
    LET field == Head(agenda).field
        value == Head(agenda).value
        same  == field \notin {"preset", "recalc"} /\ settings[field] = value
    IN  /\ settings' = [settings EXCEPT ![field] = value]
        /\ Continue(IF same THEN <<>>
                    ELSE (IF field \in {"warmth", "temp"}
                          THEN <<Set("preset", None)>> ELSE <<>>)
                         \o <<Tell("announce", RaisedBy(field, value))>>)
        /\ UNCHANGED <<photoVars, commit, todo, signalVars, userVars, unseen>>

Announce ==
    LET bits == Head(agenda).bits
    IN  /\ todo' = IF commit > 0 THEN todo \union bits ELSE todo
        /\ Continue(IF commit > 0 \/ bits = {} THEN <<>>
                    ELSE <<Tell("emit", bits)>>)
        /\ UNCHANGED <<photoVars, settings, commit, signalVars, userVars, unseen>>

EmitChanged_FiltersFirst ==
    LET bits == Head(agenda).bits
    IN  /\ Continue([i \in DOMAIN linked |-> Read(linked[i], bits)]
                    \o <<Tell("photo", bits)>>)
        /\ UNCHANGED <<photoVars, settings, commit, todo, signalVars, userVars, unseen>>

\* "settings-changed": the photo connected first, then the filters.
EmitChanged ==
    LET bits == Head(agenda).bits
    IN  /\ Continue(<<Tell("photo", bits)>>
                    \o [i \in DOMAIN linked |-> Read(linked[i], bits)])
        /\ UNCHANGED <<photoVars, settings, commit, todo, signalVars, userVars, unseen>>

\* The photo passes the signal on to the toolbox, once that is connected.
PhotoChanged ==
    /\ Continue(IF follows THEN <<Tell("toolbox", Head(agenda).bits)>> ELSE <<>>)
    /\ UNCHANGED <<photoVars, settings, commit, todo, signalVars, userVars, unseen>>

Shown(bits) ==
    [exposure |-> settings.exposure, temp |-> settings.temp,
     switch |-> IF "switch" \in bits THEN settings.switch ELSE tool.switch]

\* The toolbox copies the sliders, then hands the settings to the chain of
\* the histogram, which is the navigator's.
ToolboxChanged ==
    LET bits == Head(agenda).bits
    IN  /\ tool' = IF mute THEN tool ELSE Shown(bits)
        /\ unseen' = IF mute \/ "switch" \notin bits THEN unseen ELSE FALSE
        /\ Continue(<<Read("navigator", AllBits)>>)
        /\ UNCHANGED <<photoVars, settings, commit, todo, mute, follows, chain,
                       linked, userVars>>

WbRecalculated_Nobody ==
    /\ Continue(<<>>)
    /\ UNCHANGED <<photoVars, settings, commit, todo, signalVars, userVars, unseen>>

\* "wb-recalculated" has the toolbox for its only listener.
WbRecalculated ==
    /\ Continue(IF follows /\ ~mute THEN <<Tell("toolbox", {"wb"})>> ELSE <<>>)
    /\ UNCHANGED <<photoVars, settings, commit, todo, signalVars, userVars, unseen>>

Recalculated(c) ==
    IF chain[c].profile = None THEN DefaultTemp
    ELSE TempOf[chain[c].profile][settings.warmth]

AfterRecalc(t) ==
    <<Set("temp", t), Set("recalc", FALSE), Call("wb_recalculated")>>

\* settings_changed() of an RSDcp: it converts the warmth if recalc is set.
ReadSettings ==
    LET c      == Head(agenda).chain
        bits   == Head(agenda).bits
        recalc == "wb" \in bits /\ settings.recalc
        t      == IF recalc THEN Recalculated(c) ELSE settings.temp
        old    == chain[c]
    IN  /\ chain' = [chain EXCEPT ![c] =
             [profile  |-> old.profile,
              exposure |-> IF "exposure" \in bits THEN settings.exposure
                                                  ELSE old.exposure,
              temp     |-> IF "wb" \in bits THEN t ELSE old.temp,
              warmth   |-> IF "wb" \in bits THEN settings.warmth ELSE old.warmth]]
        /\ choice' = IF recalc THEN profile ELSE choice
        /\ Continue(IF recalc THEN AfterRecalc(t) ELSE <<>>)
        /\ UNCHANGED <<photoVars, settings, commit, todo, tool, mute, follows,
                       linked, ops, want, before, late, unseen>>

CommitStart ==
    /\ todo' = IF commit = 0 THEN {} ELSE todo
    /\ commit' = commit + 1
    /\ Continue(<<>>)
    /\ UNCHANGED <<photoVars, settings, signalVars, userVars, unseen>>

CommitStop_EmitsOnly ==
    /\ Continue(IF commit = 1 /\ todo # {} THEN <<Tell("emit", todo)>>
                ELSE <<Call("stopped")>>)
    /\ UNCHANGED <<photoVars, settings, commit, todo, signalVars, userVars, unseen>>

\* The signal is emitted while commit is still 1, then commit goes down.
CommitStop ==
    /\ Continue((IF commit = 1 /\ todo # {} THEN <<Tell("emit", todo)>> ELSE <<>>)
                \o <<Call("stopped")>>)
    /\ UNCHANGED <<photoVars, settings, commit, todo, signalVars, userVars, unseen>>

CommitStopped ==
    /\ commit' = IF commit > 0 THEN commit - 1 ELSE 0
    /\ Continue(<<>>)
    /\ UNCHANGED <<photoVars, settings, todo, signalVars, userVars, unseen>>

-----------------------------------------------------------------------------
\* rs_settings_copy(): the switches and recalc are copied without a bit, and
\* the signal is emitted at once, in a commit or not.
Copied(from, bits) ==
    [exposure |-> IF "exposure" \in bits THEN from.exposure ELSE settings.exposure,
     warmth   |-> IF "wb" \in bits THEN from.warmth ELSE settings.warmth,
     temp     |-> IF "wb" \in bits THEN from.temp ELSE settings.temp,
     preset   |-> IF "wb" \in bits THEN from.preset ELSE settings.preset,
     switch   |-> IF "switch" \in bits THEN from.switch ELSE settings.switch,
     recalc   |-> IF "wb" \in bits THEN from.recalc ELSE settings.recalc]

CopyBits(new) ==
    {b \in {"exposure", "wb"} :
        \/ b = "exposure" /\ new.exposure # settings.exposure
        \/ b = "wb" /\ <<new.warmth, new.temp, new.preset>>
                       # <<settings.warmth, settings.temp, settings.preset>>}

CopySettings ==
    LET new  == Copied(Head(agenda).from, Head(agenda).bits)
        bits == CopyBits(new)
    IN  /\ settings' = new
        /\ unseen' = (unseen \/ (follows /\ new.switch # settings.switch))
        /\ Continue(IF bits = {} THEN <<>> ELSE <<Tell("emit", bits)>>)
        /\ UNCHANGED <<photoVars, commit, todo, signalVars, userVars>>

\* The callers that replay a preset: paste, apply_settings(), apply_to_filters()
\* and open_photo().
CameraIfPreset ==
    /\ Continue(IF settings.preset = "camera" THEN FromCamera ELSE <<>>)
    /\ UNCHANGED <<photoVars, settings, commit, todo, signalVars, userVars, unseen>>

AutoIfPreset ==
    /\ Continue(IF settings.preset = "auto" THEN SetWb("auto", "auto") ELSE <<>>)
    /\ UNCHANGED <<photoVars, settings, commit, todo, signalVars, userVars, unseen>>

CameraNow ==
    /\ Continue(FromCamera)
    /\ UNCHANGED <<photoVars, settings, commit, todo, signalVars, userVars, unseen>>

MutePhoto ==
    /\ mute' = Head(agenda).value
    /\ Continue(<<>>)
    /\ UNCHANGED <<photoVars, settings, commit, todo, tool, follows, chain, linked,
                   userVars, unseen>>

-----------------------------------------------------------------------------
(* Opening a photo.                                                        *)

DefaultPreset ==
    /\ settings' = [settings EXCEPT !.preset = "camera"]
    /\ Continue(<<>>)
    /\ UNCHANGED <<photoVars, commit, todo, signalVars, userVars, unseen>>

\* A file with an embedded profile has no DCP profile, and if its warmth was never
\* set it gets a neutral one.
NeutralWb ==
    /\ profile' = IF kind = "jpeg" THEN None ELSE profile
    /\ Continue(IF kind = "jpeg" /\ settings.warmth = "zero"
                THEN SetWb("neutral", "camera") ELSE <<>>)
    /\ UNCHANGED <<kind, opened, buffer, settings, commit, todo, signalVars, userVars, unseen>>

Remember ==
    /\ opened' = settings
    /\ Continue(<<>>)
    /\ UNCHANGED <<kind, profile, buffer, settings, commit, todo, signalVars,
                   userVars, unseen>>

SetProfile ==
    /\ chain' = [chain EXCEPT ![Head(agenda).chain].profile = profile]
    /\ Continue(<<>>)
    /\ UNCHANGED <<photoVars, settings, commit, todo, tool, mute, follows, linked,
                   userVars, unseen>>

Connect ==
    LET c == Head(agenda).chain
    IN  /\ linked' = Append(linked, c)
        /\ Continue(<<Read(c, AllBits)>>)
        /\ UNCHANGED <<photoVars, settings, commit, todo, tool, mute, follows, chain,
                       userVars, unseen>>

ToolboxSetPhoto ==
    /\ follows' = TRUE
    /\ tool' = Shown(AllBits)
    /\ unseen' = FALSE
    /\ Continue(<<>>)
    /\ UNCHANGED <<photoVars, settings, commit, todo, mute, chain, linked, userVars>>

Run ==
    \/ At("set") /\ SetProperty
    \/ At("announce") /\ Announce
    \/ At("emit") /\ EmitChanged
    \/ At("photo") /\ PhotoChanged
    \/ At("toolbox") /\ ToolboxChanged
    \/ At("wb_recalculated") /\ WbRecalculated
    \/ At("read") /\ ReadSettings
    \/ At("start") /\ CommitStart
    \/ At("stop") /\ CommitStop
    \/ At("stopped") /\ CommitStopped
    \/ At("copy") /\ CopySettings
    \/ At("camera_if_preset") /\ CameraIfPreset
    \/ At("auto_if_preset") /\ AutoIfPreset
    \/ At("camera") /\ CameraNow
    \/ At("mute") /\ MutePhoto
    \/ At("default_preset") /\ DefaultPreset
    \/ At("neutral") /\ NeutralWb
    \/ At("remember") /\ Remember
    \/ At("profile") /\ SetProfile
    \/ At("connect") /\ Connect
    \/ At("toolbox_set_photo") /\ ToolboxSetPhoto

-----------------------------------------------------------------------------
(* The user.                                                               *)

\* The temperature a white balance from a warmth should give.
Asked(p, warmth) == IF p = None THEN DefaultTemp ELSE TempOf[p][warmth]

\* ... and the camera's, for a photo that now has temperature t.
AskedCamera(p, t) ==
    CASE kind = "raw"              -> Asked(p, "camera")
      [] kind # "raw" /\ p = None -> DefaultTemp
      [] OTHER                     -> t

\* ... and a preset copied along with temperature t.
AskedPreset(p, preset, t) ==
    CASE preset = "camera" -> AskedCamera(p, t)
      [] preset = "auto"   -> Asked(p, "auto")
      [] OTHER             -> t

User(calls) ==
    /\ Quiet
    /\ ops < MaxOps
    /\ ops' = ops + 1
    /\ agenda' = calls
    /\ UNCHANGED <<kind, commit, todo, mute>>

Edit(calls) ==
    /\ User(calls)
    /\ before' = None
    /\ late' = (late \/ settings.recalc)
    /\ UNCHANGED <<opened, settings, follows, chain, linked, unseen>>

WantTemp(t) == want' = [want EXCEPT !.temp = t]

MoveExposure(v) ==
    /\ v # tool.exposure
    /\ Edit(<<Set("exposure", v)>>)
    /\ tool' = [tool EXCEPT !.exposure = v]
    /\ want' = [want EXCEPT !.exposure = v]
    /\ UNCHANGED <<choice, profile, buffer>>

MoveTemp(t) ==
    /\ t # tool.temp
    /\ Edit(<<Set("temp", t)>>)
    /\ tool' = [tool EXCEPT !.temp = t]
    /\ WantTemp(t)
    /\ UNCHANGED <<choice, profile, buffer>>

\* bw_enable_toggled() and its like mute the toolbox while they set.
Toggle ==
    /\ Edit(<<Mute(TRUE), Set("switch", ~tool.switch), Mute(FALSE)>>)
    /\ tool' = [tool EXCEPT !.switch = ~@]
    /\ UNCHANGED <<want, choice, profile, buffer>>

PickWb ==
    /\ Edit(SetWb("picked", None) \o <<Tell("photo", {"wb"})>>)
    /\ WantTemp(Asked(profile, "picked"))
    /\ UNCHANGED <<tool, choice, profile, buffer>>

AutoWb ==
    /\ Edit(SetWb("auto", "auto"))
    /\ WantTemp(Asked(profile, "auto"))
    /\ UNCHANGED <<tool, choice, profile, buffer>>

CameraWb ==
    /\ Edit(<<Call("camera")>>)
    /\ WantTemp(AskedCamera(profile, want.temp))
    /\ UNCHANGED <<tool, choice, profile, buffer>>

ResetSettings ==
    /\ Edit(<<Call("start")>> \o Reset \o <<Call("camera"), Call("stop")>>)
    /\ want' = [exposure |-> Defaults.exposure,
                temp |-> AskedCamera(profile, DefaultTemp)]
    /\ UNCHANGED <<tool, choice, profile, buffer>>

\* revert_settings: rs_photo_apply_settings() with the settings as opened, which
\* may still have been waiting to be converted.
Revert ==
    LET t == IF opened.recalc THEN Asked(profile, opened.warmth) ELSE opened.temp IN
    /\ Edit(<<CopyOf(opened, AllBits), Call("camera_if_preset")>>)
    /\ want' = [exposure |-> opened.exposure,
                temp |-> IF opened.preset = "camera"
                         THEN AskedCamera(profile, t) ELSE t]
    /\ choice' = None
    /\ UNCHANGED <<tool, profile, buffer>>

CopyToBuffer ==
    /\ Edit(<<>>)
    /\ buffer' = [settings |-> settings, profile |-> profile]
    /\ UNCHANGED <<tool, want, choice, profile>>

\* What the copy dialog lets the user tick: exposure, white balance, all of it
\* with the profile.
Paste(bits) ==
    LET s    == buffer.settings
        all  == bits = Ticked
        hand == all /\ buffer.profile # None
        p    == IF hand THEN buffer.profile ELSE profile
        wb   == "wb" \in bits
    IN  /\ Edit((IF hand THEN Handed(p) ELSE <<>>)
                \o <<CopyOf(s, bits)>>
                \o (IF wb THEN <<Call("camera_if_preset"), Call("auto_if_preset")>>
                    ELSE <<>>))
        /\ profile' = p
        /\ want' = [exposure |-> IF "exposure" \in bits THEN s.exposure ELSE want.exposure,
                    temp |-> IF wb THEN AskedPreset(p, s.preset, s.temp) ELSE want.temp]
        /\ UNCHANGED <<tool, choice, buffer>>

\* A profile keeps the temperature.
ChooseProfile(p) ==
    /\ kind # "jpeg"
    /\ Edit(Handed(p))
    /\ profile' = p
    /\ UNCHANGED <<tool, want, choice, buffer>>

\* The loupe gets its profile when it is shown.
ShowLoupe ==
    /\ Edit(<<OnChain("profile", "loupe"), Read("loupe", AllBits)>>)
    /\ UNCHANGED <<tool, want, choice, profile, buffer>>

Saved_ToConvert == [Defaults EXCEPT !.exposure = settings.exposure,
                      !.temp = settings.temp, !.preset = settings.preset,
                      !.switch = settings.switch, !.recalc = TRUE]

\* rs_photo_close() saves the settings; the sidecar has no warmth, only the
\* temperature and the preset.
Saved == [Defaults EXCEPT !.exposure = settings.exposure, !.temp = settings.temp,
                          !.preset = settings.preset, !.switch = settings.switch]

\* The photo is closed and opened again, with a new RSSettings.
Reopen ==
    /\ User(Open(Saved))
    /\ before' = [settings |-> settings, choice |-> choice]
    /\ settings' = Defaults
    /\ linked' = <<>>
    /\ follows' = FALSE
    /\ unseen' = FALSE
    /\ late' = FALSE
    /\ want' = [want EXCEPT !.temp =
                  IF kind = "jpeg" THEN DefaultTemp
                  ELSE AskedPreset(profile, settings.preset, settings.temp)]
    /\ UNCHANGED <<tool, chain, choice, profile, opened, buffer>>

UserStep ==
    \/ \E v \in Exposures : MoveExposure(v)
    \/ \E t \in Temps : MoveTemp(t)
    \/ Toggle
    \/ PickWb
    \/ AutoWb
    \/ CameraWb
    \/ ResetSettings
    \/ Revert
    \/ CopyToBuffer
    \/ \E bits \in {{"exposure"}, {"wb"}, Ticked} : Paste(bits)
    \/ \E p \in Profiles : ChooseProfile(p)
    \/ ShowLoupe
    \/ Reopen

Next == Run \/ UserStep

\* A photo opened for the first time, with settings of another one in the buffer.
Init ==
    /\ kind \in Kinds
    /\ profile \in IF kind = "jpeg" THEN {None} ELSE Profiles
    /\ settings = Defaults
    /\ commit = 0
    /\ todo = {}
    /\ tool = [exposure |-> 0, temp |-> DefaultTemp, switch |-> FALSE]
    /\ mute = FALSE
    /\ follows = FALSE
    /\ chain = [c \in Chains |-> [profile |-> None, exposure |-> 0,
                                  temp |-> DefaultTemp, warmth |-> "zero"]]
    /\ linked = <<>>
    /\ opened = Defaults
    /\ \E t \in Temps \ {DefaultTemp}, preset \in Presets, p \in Profiles :
         buffer = [settings |-> [Defaults EXCEPT !.exposure = 1, !.temp = t,
                                   !.warmth = "picked", !.preset = preset,
                                   !.switch = TRUE],
                   profile |-> p]
    /\ agenda = Open(None)
    /\ ops = 0
    /\ want = [exposure |-> 0, temp |-> AskedCamera(profile, DefaultTemp)]
    /\ choice = profile
    /\ before = None
    /\ unseen = FALSE
    /\ late = FALSE

Spec == Init /\ [][Next]_vars

-----------------------------------------------------------------------------
(* Properties.                                                             *)

SettingsType ==
    [exposure : Exposures, warmth : Warmths, temp : Temps, preset : Presets,
     switch : BOOLEAN, recalc : BOOLEAN]

\* None is the NULL of a missing profile, preset or sidecar.
ASSUME NoneAssumption ==
    None \notin Profiles /\ None \notin Warmths /\ None \notin SettingsType

\* The variables keep their types; the commit never nests deeper than the one of
\* reset_settings() around that of rs_settings_reset().
TypeOK ==
    /\ kind \in Kinds
    /\ profile \in Profiles \union {None}
    /\ settings \in SettingsType
    /\ commit \in 0..2
    /\ todo \in SUBSET AllBits
    /\ tool \in [exposure : Exposures, temp : Temps, switch : BOOLEAN]
    /\ mute \in BOOLEAN /\ follows \in BOOLEAN /\ unseen \in BOOLEAN
    /\ late \in BOOLEAN
    /\ chain \in [Chains -> [profile : Profiles \union {None}, exposure : Exposures,
                            temp : Temps, warmth : Warmths]]
    /\ linked \in Seq(Chains)
    /\ opened \in SettingsType
    /\ buffer \in [settings : SettingsType, profile : Profiles \union {None}]
    /\ ops \in 0..MaxOps
    /\ want \in [exposure : Exposures, temp : Temps]
    /\ choice \in Profiles \union {None}

\* When the calls of an operation have returned, the sliders and every filter
\* agree with the settings, whatever was emitted in a commit, in another signal
\* or while the toolbox was muted.  A switch that rs_settings_copy() changed
\* without a bit is excepted until the toolbox is next told of the switches.
Coherent ==
    Quiet =>
        /\ \A c \in Chains :
              /\ chain[c].exposure = settings.exposure
              /\ chain[c].temp = settings.temp
              /\ chain[c].warmth = settings.warmth
        /\ \A c \in Chains \ {"loupe"} : chain[c].profile = profile
        /\ tool.exposure = settings.exposure
        /\ tool.temp = settings.temp
        /\ unseen \/ tool.switch = settings.switch

\* The temperature and the exposure are those the operations asked for: a white
\* balance is converted once, with the photo's profile, though the loupe still
\* has another one, and no nested emission replaces what was set later.
AskedFor ==
    (Quiet /\ ~late) => settings.exposure = want.exposure /\ settings.temp = want.temp

\* A raw photo that is closed and opened again has the settings it was closed
\* with, though its warmth is not saved; a preset is converted anew, so a profile
\* chosen since the preset was is excepted.
Reopened ==
    (Quiet /\ before # None /\ kind # "jpeg") =>
        LET old == before.settings
        IN  (old.preset = None \/ before.choice = profile) =>
                <<settings.exposure, settings.temp, settings.preset, settings.switch>>
                = <<old.exposure, old.temp, old.preset, old.switch>>

\* Nothing is left over between operations: every commit was closed, so that the
\* next change is announced, and no recalculation waits for a later signal.  The
\* exception: Revert on a file with an embedded profile that was given a DCP
\* profile copies recalc back, and says nothing when nothing else differs.
NothingHeld ==
    Quiet =>
        /\ commit = 0
        /\ ~mute
        /\ settings.recalc => kind = "jpeg" /\ profile # None
=============================================================================
