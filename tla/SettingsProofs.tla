--------------------------- MODULE SettingsProofs ---------------------------
(***************************************************************************)
(* What TLAPS proves about the settings of the open photo.                 *)
(*                                                                         *)
(* The agenda is a stack of calls, each of which may put others in front   *)
(* of the rest.  The proof gives every kind of call a contract: from a     *)
(* world (what is known of the settings and of those who hold a copy of    *)
(* them) in which the call is Able, to the world it leaves behind when it  *)
(* and all that it called have returned.  The invariant is that the calls  *)
(* pending lead, contract by contract, from the present state to one in    *)
(* which an operation may end.                                             *)
(***************************************************************************)
EXTENDS Settings, SequenceTheorems, TLAPS

-----------------------------------------------------------------------------
(* Worlds.                                                                 *)

Holders == Chains \union {"toolbox"}
Choices == Profiles \union {None}
Links   == {{}, {"loupe"}, {"loupe", "navigator"}, Chains}

\* exposure and wb are those known to have read the exposure, the balance.
World ==
    [kind : Kinds, set : SettingsType, todo : SUBSET AllBits, commit : 0..2,
     exposure : SUBSET Holders, wb : SUBSET Holders, link : Links,
     follows : BOOLEAN, mute : BOOLEAN, prof : [Chains -> Choices],
     profile : Choices, choice : Choices, switch : BOOLEAN, unseen : BOOLEAN,
     opened : SettingsType]

InOrder(link) ==
    CASE link = {} -> <<>>
      [] link = {"loupe"} -> <<"loupe">>
      [] link = {"loupe", "navigator"} -> <<"loupe", "navigator">>
      [] OTHER -> <<"loupe", "navigator", "view">>

\* The world w is one of the present state.
Holds(w) ==
    /\ w.kind = kind /\ w.set = settings /\ w.todo = todo /\ w.commit = commit
    /\ linked = InOrder(w.link)
    /\ w.follows = follows /\ w.mute = mute
    /\ w.prof = [c \in Chains |-> chain[c].profile]
    /\ w.profile = profile /\ w.choice = choice
    /\ w.switch = tool.switch /\ w.unseen = unseen /\ w.opened = opened
    /\ \A c \in Chains :
          /\ c \in w.exposure => chain[c].exposure = settings.exposure
          /\ c \in w.wb => /\ chain[c].temp = settings.temp
                           /\ chain[c].warmth = settings.warmth
    /\ "toolbox" \in w.exposure => tool.exposure = settings.exposure
    /\ "toolbox" \in w.wb => tool.temp = settings.temp

\* The world v knows no more than w.
Below(v, w) ==
    /\ v.kind = w.kind /\ v.set = w.set /\ v.todo = w.todo /\ v.commit = w.commit
    /\ v.link = w.link /\ v.follows = w.follows /\ v.mute = w.mute
    /\ v.prof = w.prof /\ v.profile = w.profile /\ v.choice = w.choice
    /\ v.switch = w.switch /\ v.unseen = w.unseen /\ v.opened = w.opened
    /\ v.exposure \subseteq w.exposure /\ v.wb \subseteq w.wb

-----------------------------------------------------------------------------
(* The contracts: what each call makes of a world, and what it needs.      *)

\* The world w after signals: what they change of it.
Known(w, set, todoNow, chosen, exposure, wb) ==
    [w EXCEPT !.set = set, !.todo = todoNow, !.choice = chosen,
              !.exposure = exposure, !.wb = wb]

Learnt(w, c, bits) ==
    Known(w, w.set, w.todo, w.choice,
          IF "exposure" \in bits THEN w.exposure \union {c} ELSE w.exposure,
          IF "wb" \in bits THEN w.wb \union {c} ELSE w.wb)

Converts(w, bits)  == "wb" \in bits /\ w.set.recalc
Converted(w, c)    == Asked(w.prof[c], w.set.warmth)
Listening(w)       == w.follows /\ ~w.mute

\* Who knows the balance once c has converted it to another temperature.
Informed(w, c) ==
    IF w.commit = 0
    THEN w.link \union (IF w.follows THEN {"toolbox"} ELSE {})
    ELSE IF w.follows THEN {"toolbox", "navigator"} ELSE {}

\* c converts the balance: to the temperature there is, or to another one.
Kept(w, c, bits) ==
    Known(w, [w.set EXCEPT !.recalc = FALSE], w.todo, w.profile,
          Learnt(w, c, bits).exposure, Learnt(w, c, bits).wb)
Moved(w, c, bits) ==
    Known(w, [w.set EXCEPT !.temp = Converted(w, c), !.preset = None,
                           !.recalc = FALSE],
          IF w.commit > 0 THEN w.todo \union {"wb"} ELSE w.todo, w.profile,
          Learnt(w, c, bits).exposure, Informed(w, c))

AfterRead(w, c, bits) ==
    IF ~Converts(w, bits) THEN Learnt(w, c, bits)
    ELSE IF Converted(w, c) = w.set.temp THEN Kept(w, c, bits)
    ELSE Moved(w, c, bits)

\* A conversion to another temperature comes from a filter whose profile is that
\* of the filter which is first to hear of it, when the toolbox is not muted.
AbleRead(w, c, bits) ==
    Converts(w, bits) /\ Converted(w, c) # w.set.temp =>
        /\ c \in w.link
        /\ w.follows => ~w.mute /\ w.link = Chains
        /\ w.prof[IF w.follows THEN "navigator" ELSE "loupe"] = w.prof[c]

ToolShown(w, bits) ==
    IF w.mute THEN w
    ELSE [w EXCEPT !.exposure = @ \union {"toolbox"}, !.wb = @ \union {"toolbox"},
                   !.switch = IF "switch" \in bits THEN w.set.switch ELSE @,
                   !.unseen = IF "switch" \in bits THEN FALSE ELSE @]

AfterToolbox(w, bits) == AfterRead(ToolShown(w, bits), "navigator", AllBits)
AbleToolbox(w, bits)  == AbleRead(ToolShown(w, bits), "navigator", AllBits)

AfterPhoto(w, bits) == IF w.follows THEN AfterToolbox(w, bits) ELSE w
AblePhoto(w, bits)  == w.follows => AbleToolbox(w, bits)

ReadBy(w, c, bits)  == IF c \in w.link THEN AfterRead(w, c, bits) ELSE w
AbleBy(w, c, bits)  == c \in w.link => AbleRead(w, c, bits)

AfterReads(w, bits) ==
    ReadBy(ReadBy(ReadBy(w, "loupe", bits), "navigator", bits), "view", bits)
AbleReads(w, bits) ==
    /\ AbleBy(w, "loupe", bits)
    /\ AbleBy(ReadBy(w, "loupe", bits), "navigator", bits)
    /\ AbleBy(ReadBy(ReadBy(w, "loupe", bits), "navigator", bits), "view", bits)

AfterEmit(w, bits) == AfterReads(AfterPhoto(w, bits), bits)
AbleEmit(w, bits)  == AblePhoto(w, bits) /\ AbleReads(AfterPhoto(w, bits), bits)

AfterAnnounce(w, bits) ==
    IF w.commit > 0 THEN Known(w, w.set, w.todo \union bits, w.choice, w.exposure, w.wb)
    ELSE IF bits = {} THEN w ELSE AfterEmit(w, bits)
AbleAnnounce(w, bits) == w.commit = 0 /\ bits # {} => AbleEmit(w, bits)

\* The property is stored; nobody has been told.
Stored(w, field, value) ==
    Known(w, [w.set EXCEPT ![field] = value], w.todo, w.choice,
          IF field = "exposure" THEN {} ELSE w.exposure,
          IF field \in {"warmth", "temp"} THEN {} ELSE w.wb)

AfterPut(w, field, value) ==
    AfterAnnounce(Stored(w, field, value), RaisedBy(field, value))
AblePut(w, field, value) ==
    AbleAnnounce(Stored(w, field, value), RaisedBy(field, value))

Same(w, field, value) == field \notin {"preset", "recalc"} /\ w.set[field] = value

AfterSet(w, field, value) ==
    IF Same(w, field, value) THEN w
    ELSE IF field \in {"warmth", "temp"}
    THEN AfterAnnounce(AfterPut(Stored(w, field, value), "preset", None), {"wb"})
    ELSE AfterPut(w, field, value)
AbleSet(w, field, value) ==
    IF Same(w, field, value) THEN TRUE
    ELSE IF field \in {"warmth", "temp"}
    THEN /\ AblePut(Stored(w, field, value), "preset", None)
         /\ AbleAnnounce(AfterPut(Stored(w, field, value), "preset", None), {"wb"})
    ELSE AblePut(w, field, value)

AfterWb(w) == IF Listening(w) THEN AfterToolbox(w, {"wb"}) ELSE w
AbleWb(w)  == Listening(w) => AbleToolbox(w, {"wb"})

Started(w) ==
    [w EXCEPT !.todo = IF w.commit = 0 THEN {} ELSE @, !.commit = @ + 1]
Stopping(w)  == IF w.commit = 1 /\ w.todo # {} THEN AfterEmit(w, w.todo) ELSE w
Stopped(w)   == [w EXCEPT !.commit = @ - 1]
AfterStop(w) == Stopped(Stopping(w))
AbleStop(w)  == w.commit > 0 /\ (w.commit = 1 /\ w.todo # {} => AbleEmit(w, w.todo))

WbPut(w, warmth, preset) ==
    AfterPut(AfterPut(AfterSet(Started(w), "warmth", warmth), "preset", preset),
             "recalc", TRUE)
AfterSetWb(w, warmth, preset) == AfterStop(WbPut(w, warmth, preset))
AbleSetWb(w, warmth, preset)  == w.commit < 2 /\ AbleStop(WbPut(w, warmth, preset))

TempPut(w) ==
    AfterPut(AfterPut(AfterSet(Started(w), "temp", DefaultTemp), "preset", "camera"),
             "recalc", FALSE)

AfterCamera(w) ==
    CASE w.kind = "raw" -> AfterSetWb(w, "camera", "camera")
      [] w.kind # "raw" /\ w.profile = None -> AfterStop(TempPut(w))
      [] OTHER -> w
AbleCamera(w) ==
    CASE w.kind = "raw" -> AbleSetWb(w, "camera", "camera")
      [] w.kind # "raw" /\ w.profile = None -> w.commit < 2 /\ AbleStop(TempPut(w))
      [] OTHER -> TRUE

CameraIf(w)     == IF w.set.preset = "camera" THEN AfterCamera(w) ELSE w
AbleCameraIf(w) == w.set.preset = "camera" => AbleCamera(w)
AutoIf(w)       == IF w.set.preset = "auto" THEN AfterSetWb(w, "auto", "auto") ELSE w
AbleAutoIf(w)   == w.set.preset = "auto" => AbleSetWb(w, "auto", "auto")

CopiedOver(s, from, bits) ==
    [exposure |-> IF "exposure" \in bits THEN from.exposure ELSE s.exposure,
     warmth   |-> IF "wb" \in bits THEN from.warmth ELSE s.warmth,
     temp     |-> IF "wb" \in bits THEN from.temp ELSE s.temp,
     preset   |-> IF "wb" \in bits THEN from.preset ELSE s.preset,
     switch   |-> IF "switch" \in bits THEN from.switch ELSE s.switch,
     recalc   |-> IF "wb" \in bits THEN from.recalc ELSE s.recalc]

WbDiffers(s, r) == <<r.warmth, r.temp, r.preset>> # <<s.warmth, s.temp, s.preset>>

BitsOf(s, new) ==
    {b \in {"exposure", "wb"} : \/ b = "exposure" /\ new.exposure # s.exposure
                                \/ b = "wb" /\ WbDiffers(s, new)}

Overwritten(w, new) ==
    [w EXCEPT !.set = new,
              !.exposure = IF new.exposure # w.set.exposure THEN {} ELSE @,
              !.wb = IF WbDiffers(w.set, new) THEN {} ELSE @,
              !.unseen = w.unseen \/ (w.follows /\ new.switch # w.set.switch)]

AfterCopy(w, from, bits) ==
    LET new == CopiedOver(w.set, from, bits)
    IN  IF BitsOf(w.set, new) = {} THEN Overwritten(w, new)
        ELSE AfterEmit(Overwritten(w, new), BitsOf(w.set, new))
AbleCopy(w, from, bits) ==
    LET new == CopiedOver(w.set, from, bits)
    IN  BitsOf(w.set, new) # {} =>
            AbleEmit(Overwritten(w, new), BitsOf(w.set, new))

Unprofiled(w) == [w EXCEPT !.profile = IF w.kind = "jpeg" THEN None ELSE @]

AfterNeutral(w) ==
    IF w.kind = "jpeg" /\ w.set.warmth = "zero"
    THEN AfterSetWb(Unprofiled(w), "neutral", "camera") ELSE Unprofiled(w)
AbleNeutral(w) ==
    w.kind = "jpeg" /\ w.set.warmth = "zero"
        => AbleSetWb(Unprofiled(w), "neutral", "camera")

AfterConnect(w, c) == AfterRead([w EXCEPT !.link = @ \union {c}], c, AllBits)
AbleConnect(w, c) ==
    /\ <<w.link, c>> \in {<<{}, "loupe">>, <<{"loupe"}, "navigator">>,
                          <<{"loupe", "navigator"}, "view">>}
    /\ AbleRead([w EXCEPT !.link = @ \union {c}], c, AllBits)

AfterSetPhoto(w) ==
    [w EXCEPT !.follows = TRUE, !.switch = w.set.switch, !.unseen = FALSE,
              !.exposure = @ \union {"toolbox"}, !.wb = @ \union {"toolbox"}]

Muting(w, b)   == [w EXCEPT !.mute = b]
Defaulted(w)   == [w EXCEPT !.set = [@ EXCEPT !.preset = "camera"]]
Remembered(w)  == [w EXCEPT !.opened = w.set]
Profiled(w, c) == [w EXCEPT !.prof = [@ EXCEPT ![c] = w.profile]]

Typed(field, value) ==
    CASE field = "exposure" -> value \in Exposures
      [] field = "warmth"   -> value \in Warmths
      [] field = "temp"     -> value \in Temps
      [] field = "preset"   -> value \in Presets
      [] field = "switch"   -> value \in BOOLEAN
      [] field = "recalc"   -> value \in BOOLEAN
      [] OTHER -> FALSE
-----------------------------------------------------------------------------
(* Where an operation may end.                                             *)

\* A neutral balance that kept its preset was converted with the profile p.
Matched(s, p) ==
    p # None /\ s.warmth = "neutral" /\ s.preset = "camera"
        => s.temp = TempOf[p]["neutral"]

\* A recalculation that waits would find the temperature there is.
Waiting(s, p) ==
    s.recalc => s.warmth = "neutral" /\ s.preset = "camera" /\ p # None

EmbeddedSettled(w, b) ==
    /\ w.profile # None => b.profile = w.profile
    /\ Matched(w.set, w.profile) /\ Matched(b.settings, b.profile)
    /\ Waiting(w.set, w.profile) /\ Waiting(b.settings, b.profile)
    /\ w.opened.recalc /\ w.opened.warmth = "neutral" /\ w.opened.preset = "camera"

\* A preset kept is worth what the profile of the last conversion makes of it.
PresetKept(w) ==
    w.choice # None =>
        /\ w.set.preset = "auto" => w.set.temp = TempOf[w.choice]["auto"]
        /\ w.kind = "raw" /\ w.set.preset = "camera"
                => w.set.temp = TempOf[w.choice]["camera"]

RawSettled(w, b) ==
    /\ w.profile # None /\ b.profile # None
    /\ ~w.set.recalc /\ ~b.settings.recalc
    /\ w.opened.recalc => w.kind = "raw" /\ w.opened.warmth = "camera"
                          /\ w.opened.preset = "camera"
    /\ PresetKept(w)

AsBefore(w, closed) ==
    LET old == closed.settings
    IN  closed # None /\ w.kind # "jpeg"
        /\ (old.preset = None \/ closed.choice = w.profile) =>
            /\ w.set.exposure = old.exposure /\ w.set.temp = old.temp
            /\ w.set.preset = old.preset /\ w.set.switch = old.switch

InStep(w) ==
    /\ w.commit = 0 /\ ~w.mute /\ w.follows /\ w.link = Chains
    /\ w.exposure = Holders /\ w.wb = Holders
    /\ w.unseen \/ w.switch = w.set.switch
    /\ w.prof["navigator"] = w.profile /\ w.prof["view"] = w.profile

\* The world w, with b in the buffer, when g is wanted, and old was closed.
SettledOn(w, b, g, waited, old) ==
    /\ InStep(w) /\ AsBefore(w, old)
    /\ w.set.exposure = g.exposure
    /\ waited \/ w.set.temp = g.temp
    /\ w.kind = "jpeg" => EmbeddedSettled(w, b)
    /\ w.kind # "jpeg" => RawSettled(w, b)

Settled(w) == SettledOn(w, buffer, want, late, before)

-----------------------------------------------------------------------------
(* What the contracts keep.                                                *)

\* What no signal changes, nor a commit.
Placed(v, w) ==
    /\ v.kind = w.kind /\ v.link = w.link
    /\ v.follows = w.follows /\ v.mute = w.mute /\ v.prof = w.prof
    /\ v.profile = w.profile /\ v.opened = w.opened
Framed(v, w) == Placed(v, w) /\ v.commit = w.commit

LEMMA AskedType ==
  ASSUME NEW p \in Choices, NEW t \in Warmths
  PROVE  Asked(p, t) \in Temps
BY TempAssumption DEF Asked, Choices

LEMMA KnownIs ==
  ASSUME NEW w \in World, NEW s \in SettingsType, NEW t \in SUBSET AllBits,
         NEW p \in Choices, NEW x \in SUBSET Holders, NEW b \in SUBSET Holders
  PROVE  /\ Known(w, s, t, p, x, b) \in World
         /\ Framed(Known(w, s, t, p, x, b), w)
         /\ Known(w, s, t, p, x, b).set = s
         /\ Known(w, s, t, p, x, b).todo = t
         /\ Known(w, s, t, p, x, b).choice = p
         /\ Known(w, s, t, p, x, b).switch = w.switch
         /\ Known(w, s, t, p, x, b).unseen = w.unseen
         /\ Known(w, s, t, p, x, b).exposure = x
         /\ Known(w, s, t, p, x, b).wb = b
BY DEF Known, World, Framed, Placed

LEMMA WorldHas ==
  ASSUME NEW w \in World
  PROVE  /\ w.kind \in Kinds /\ w.set \in SettingsType /\ w.todo \in SUBSET AllBits
         /\ w.commit \in 0..2 /\ w.exposure \in SUBSET Holders
         /\ w.wb \in SUBSET Holders /\ w.link \in Links /\ w.follows \in BOOLEAN
         /\ w.mute \in BOOLEAN /\ w.prof \in [Chains -> Choices]
         /\ w.profile \in Choices /\ w.choice \in Choices
         /\ w.switch \in BOOLEAN /\ w.unseen \in BOOLEAN
         /\ w.opened \in SettingsType
BY DEF World

LEMMA SettingsHas ==
  ASSUME NEW s \in SettingsType
  PROVE  /\ s.exposure \in Exposures /\ s.warmth \in Warmths /\ s.temp \in Temps
         /\ s.preset \in Presets /\ s.switch \in BOOLEAN /\ s.recalc \in BOOLEAN
BY DEF SettingsType

LEMMA ConvertedType ==
  ASSUME NEW w \in World, NEW c \in Chains
  PROVE  Converted(w, c) \in Temps
<1>1. w.prof[c] \in Choices /\ w.set.warmth \in Warmths
  BY WorldHas, SettingsHas
<1> QED
  BY <1>1, AskedType DEF Converted

LEMMA RecalcDone ==
  ASSUME NEW s \in SettingsType
  PROVE  /\ [s EXCEPT !.recalc = FALSE] \in SettingsType
         /\ [s EXCEPT !.recalc = FALSE].exposure = s.exposure
         /\ [s EXCEPT !.recalc = FALSE].warmth = s.warmth
         /\ [s EXCEPT !.recalc = FALSE].temp = s.temp
         /\ [s EXCEPT !.recalc = FALSE].preset = s.preset
         /\ [s EXCEPT !.recalc = FALSE].switch = s.switch
         /\ [s EXCEPT !.recalc = FALSE].recalc = FALSE
BY DEF SettingsType

LEMMA TempMoved ==
  ASSUME NEW s \in SettingsType, NEW t \in Temps
  PROVE  LET r == [s EXCEPT !.temp = t, !.preset = None, !.recalc = FALSE]
         IN  /\ r \in SettingsType
             /\ r.exposure = s.exposure /\ r.warmth = s.warmth /\ r.temp = t
             /\ r.preset = None /\ r.switch = s.switch /\ r.recalc = FALSE
BY DEF SettingsType, Presets

LEMMA LearntIs ==
  ASSUME NEW w \in World, NEW c \in Holders, NEW bits \in SUBSET AllBits
  PROVE  /\ Learnt(w, c, bits) \in World
         /\ Framed(Learnt(w, c, bits), w)
         /\ Learnt(w, c, bits).set = w.set
         /\ Learnt(w, c, bits).todo = w.todo
         /\ Learnt(w, c, bits).choice = w.choice
         /\ Learnt(w, c, bits).switch = w.switch
         /\ Learnt(w, c, bits).unseen = w.unseen
         /\ Learnt(w, c, bits).exposure
                = w.exposure \union (IF "exposure" \in bits THEN {c} ELSE {})
         /\ Learnt(w, c, bits).wb = w.wb \union (IF "wb" \in bits THEN {c} ELSE {})
<1> DEFINE x == IF "exposure" \in bits THEN w.exposure \union {c} ELSE w.exposure
           b == IF "wb" \in bits THEN w.wb \union {c} ELSE w.wb
<1>1. x \in SUBSET Holders /\ b \in SUBSET Holders
  BY WorldHas
<1>2. Learnt(w, c, bits) = Known(w, w.set, w.todo, w.choice, x, b)
  BY DEF Learnt
<1>3. /\ x = w.exposure \union (IF "exposure" \in bits THEN {c} ELSE {})
      /\ b = w.wb \union (IF "wb" \in bits THEN {c} ELSE {})
  OBVIOUS
<1> HIDE DEF x, b
<1> QED
  BY <1>1, <1>2, <1>3, KnownIs, WorldHas

LEMMA InformedType ==
  ASSUME NEW w \in World, NEW c \in Chains
  PROVE  Informed(w, c) \in SUBSET Holders
BY WorldHas DEF Informed, Links, Holders, Chains

LEMMA KeptIs ==
  ASSUME NEW w \in World, NEW c \in Chains, NEW bits \in SUBSET AllBits
  PROVE  /\ Kept(w, c, bits) \in World
         /\ Framed(Kept(w, c, bits), w)
         /\ Kept(w, c, bits).set = [w.set EXCEPT !.recalc = FALSE]
         /\ Kept(w, c, bits).todo = w.todo
         /\ Kept(w, c, bits).choice = w.profile
         /\ Kept(w, c, bits).switch = w.switch
         /\ Kept(w, c, bits).unseen = w.unseen
         /\ Kept(w, c, bits).exposure = Learnt(w, c, bits).exposure
         /\ Kept(w, c, bits).wb = Learnt(w, c, bits).wb
<1>1. /\ Learnt(w, c, bits).exposure \in SUBSET Holders
      /\ Learnt(w, c, bits).wb \in SUBSET Holders
  BY LearntIs, WorldHas DEF Holders
<1>2. [w.set EXCEPT !.recalc = FALSE] \in SettingsType
  BY WorldHas, RecalcDone
<1> QED
  BY <1>1, <1>2, KnownIs, WorldHas DEF Kept

LEMMA MovedIs ==
  ASSUME NEW w \in World, NEW c \in Chains, NEW bits \in SUBSET AllBits
  PROVE  /\ Moved(w, c, bits) \in World
         /\ Framed(Moved(w, c, bits), w)
         /\ Moved(w, c, bits).set = [w.set EXCEPT !.temp = Converted(w, c), !.preset = None,
                                        !.recalc = FALSE]
         /\ Moved(w, c, bits).todo = IF w.commit > 0 THEN w.todo \union {"wb"} ELSE w.todo
         /\ Moved(w, c, bits).choice = w.profile
         /\ Moved(w, c, bits).switch = w.switch
         /\ Moved(w, c, bits).unseen = w.unseen
         /\ Moved(w, c, bits).exposure = Learnt(w, c, bits).exposure
         /\ Moved(w, c, bits).wb = Informed(w, c)
<1>1. Learnt(w, c, bits).exposure \in SUBSET Holders
  BY LearntIs, WorldHas DEF Holders
<1>2. Informed(w, c) \in SUBSET Holders
  BY InformedType
<1>3. [w.set EXCEPT !.temp = Converted(w, c), !.preset = None, !.recalc = FALSE]
            \in SettingsType
  BY WorldHas, TempMoved, ConvertedType
<1>4. (IF w.commit > 0 THEN w.todo \union {"wb"} ELSE w.todo) \in SUBSET AllBits
  BY WorldHas DEF AllBits
<1> QED
  BY <1>1, <1>2, <1>3, <1>4, KnownIs, WorldHas DEF Moved

(* A filter that reads the settings. *)
LEMMA ReadIs ==
  ASSUME NEW w \in World, NEW c \in Chains, NEW bits \in SUBSET AllBits
  PROVE  /\ AfterRead(w, c, bits) \in World
         /\ Framed(AfterRead(w, c, bits), w)
         /\ AfterRead(w, c, bits).switch = w.switch
         /\ AfterRead(w, c, bits).unseen = w.unseen
         /\ w.exposure \subseteq AfterRead(w, c, bits).exposure
<1>1. w.exposure \subseteq Learnt(w, c, bits).exposure
  BY LearntIs DEF Holders
<1>2. c \in Holders
  BY DEF Holders
<1>3. CASE ~Converts(w, bits)
  BY <1>1, <1>2, <1>3, LearntIs DEF AfterRead
<1>4. CASE Converts(w, bits) /\ Converted(w, c) = w.set.temp
  <2>1. AfterRead(w, c, bits) = Kept(w, c, bits)
    BY <1>4 DEF AfterRead
  <2>2. /\ Kept(w, c, bits) \in World /\ Framed(Kept(w, c, bits), w)
        /\ Kept(w, c, bits).switch = w.switch
        /\ Kept(w, c, bits).unseen = w.unseen
        /\ Kept(w, c, bits).exposure = Learnt(w, c, bits).exposure
    BY KeptIs
  <2> QED
    BY <1>1, <2>1, <2>2
<1>5. CASE Converts(w, bits) /\ Converted(w, c) # w.set.temp
  <2>1. AfterRead(w, c, bits) = Moved(w, c, bits)
    BY <1>5 DEF AfterRead
  <2>2. /\ Moved(w, c, bits) \in World /\ Framed(Moved(w, c, bits), w)
        /\ Moved(w, c, bits).switch = w.switch
        /\ Moved(w, c, bits).unseen = w.unseen
        /\ Moved(w, c, bits).exposure = Learnt(w, c, bits).exposure
    BY MovedIs
  <2> QED
    BY <1>1, <2>1, <2>2
<1> QED
  BY <1>3, <1>4, <1>5

\* r is w, but for those who have learnt of its settings.
Still(r, w) ==
    /\ r \in World /\ Framed(r, w)
    /\ r.set = w.set /\ r.todo = w.todo /\ r.choice = w.choice
    /\ w.exposure \subseteq r.exposure /\ w.wb \subseteq r.wb

LEMMA StillTransitive ==
  ASSUME NEW u, NEW v, NEW w, Still(u, v), Still(v, w)
  PROVE  Still(u, w)
BY DEF Still, Framed, Placed

LEMMA QuietRead ==
  ASSUME NEW w \in World, NEW c \in Chains, NEW bits \in SUBSET AllBits,
         ~w.set.recalc \/ "wb" \notin bits
  PROVE  /\ AbleRead(w, c, bits)
         /\ Still(AfterRead(w, c, bits), w)
         /\ AfterRead(w, c, bits).switch = w.switch
         /\ AfterRead(w, c, bits).unseen = w.unseen
         /\ "exposure" \in bits => c \in AfterRead(w, c, bits).exposure
         /\ "wb" \in bits => c \in AfterRead(w, c, bits).wb
<1>1. ~Converts(w, bits)
  BY WorldHas, SettingsHas DEF Converts
<1>2. AbleRead(w, c, bits) /\ AfterRead(w, c, bits) = Learnt(w, c, bits)
  BY <1>1 DEF AbleRead, AfterRead
<1>3. c \in Holders
  BY DEF Holders
<1> QED
  BY <1>2, <1>3, LearntIs DEF Still

\* c, if it is linked, has heard of the bits.
Reached(r, w, c, bits) ==
    /\ c \in w.link /\ "exposure" \in bits => c \in r.exposure
    /\ c \in w.link /\ "wb" \in bits => c \in r.wb

LEMMA QuietBy ==
  ASSUME NEW w \in World, NEW c \in Chains, NEW bits \in SUBSET AllBits,
         ~w.set.recalc \/ "wb" \notin bits
  PROVE  /\ AbleBy(w, c, bits)
         /\ Still(ReadBy(w, c, bits), w)
         /\ ReadBy(w, c, bits).switch = w.switch
         /\ ReadBy(w, c, bits).unseen = w.unseen
         /\ Reached(ReadBy(w, c, bits), w, c, bits)
<1>1. CASE c \in w.link
  BY <1>1, QuietRead DEF AbleBy, ReadBy, Reached
<1>2. CASE c \notin w.link
  BY <1>2 DEF AbleBy, ReadBy, Still, Framed, Placed, Reached
<1> QED
  BY <1>1, <1>2

\* Those linked have heard of the bits.
Spread(r, w, bits) ==
    /\ "exposure" \in bits => w.link \subseteq r.exposure
    /\ "wb" \in bits => w.link \subseteq r.wb

LEMMA QuietReads ==
  ASSUME NEW w \in World, NEW bits \in SUBSET AllBits,
         ~w.set.recalc \/ "wb" \notin bits
  PROVE  /\ AbleReads(w, bits)
         /\ Still(AfterReads(w, bits), w)
         /\ AfterReads(w, bits).switch = w.switch
         /\ AfterReads(w, bits).unseen = w.unseen
         /\ Spread(AfterReads(w, bits), w, bits)
<1> DEFINE a == ReadBy(w, "loupe", bits)
           b == ReadBy(a, "navigator", bits)
           d == ReadBy(b, "view", bits)
<1>1. "loupe" \in Chains /\ "navigator" \in Chains /\ "view" \in Chains
  BY DEF Chains
<1>2. /\ AbleBy(w, "loupe", bits) /\ Still(a, w)
      /\ a.switch = w.switch /\ a.unseen = w.unseen
      /\ Reached(a, w, "loupe", bits)
  BY <1>1, QuietBy
<1> HIDE DEF a
<1>3. a \in World /\ (~a.set.recalc \/ "wb" \notin bits) /\ a.link = w.link
  BY <1>2 DEF Still, Framed, Placed
<1>4. /\ AbleBy(a, "navigator", bits) /\ Still(b, a)
      /\ b.switch = a.switch /\ b.unseen = a.unseen
      /\ Reached(b, a, "navigator", bits)
  BY <1>1, <1>3, QuietBy
<1> HIDE DEF b
<1>5. b \in World /\ (~b.set.recalc \/ "wb" \notin bits) /\ b.link = w.link
  BY <1>3, <1>4 DEF Still, Framed, Placed
<1>6. /\ AbleBy(b, "view", bits) /\ Still(d, b)
      /\ d.switch = b.switch /\ d.unseen = b.unseen
      /\ Reached(d, b, "view", bits)
  BY <1>1, <1>5, QuietBy
<1> HIDE DEF d
<1>7. AbleReads(w, bits) /\ AfterReads(w, bits) = d
  BY <1>2, <1>4, <1>6 DEF AbleReads, AfterReads, a, b, d
<1>8. Still(d, w)
  BY <1>2, <1>4, <1>6, StillTransitive
<1>9. w.link \subseteq {"loupe", "navigator", "view"}
  BY WorldHas DEF Links, Chains
<1>10. a.exposure \subseteq d.exposure /\ b.exposure \subseteq d.exposure
       /\ a.wb \subseteq d.wb /\ b.wb \subseteq d.wb
  BY <1>4, <1>6 DEF Still
<1>11. ASSUME NEW c \in w.link
       PROVE  ("exposure" \in bits => c \in d.exposure) /\ ("wb" \in bits => c \in d.wb)
  <2>1. CASE c = "loupe"
    BY <1>2, <1>10, <2>1 DEF Reached
  <2>2. CASE c = "navigator"
    BY <1>3, <1>4, <1>10, <2>2 DEF Reached
  <2>3. CASE c = "view"
    BY <1>5, <1>6, <2>3 DEF Reached
  <2> QED
    BY <1>9, <1>11, <2>1, <2>2, <2>3
<1>12. Spread(d, w, bits)
  BY <1>11 DEF Spread
<1> QED
  BY <1>2, <1>4, <1>6, <1>7, <1>8, <1>12

LEMMA ShownIs ==
  ASSUME NEW w \in World, NEW bits \in SUBSET AllBits
  PROVE  /\ Still(ToolShown(w, bits), w)
         /\ ~w.mute => /\ "toolbox" \in ToolShown(w, bits).exposure
                       /\ "toolbox" \in ToolShown(w, bits).wb
                       /\ ToolShown(w, bits).exposure = w.exposure \union {"toolbox"}
                       /\ ToolShown(w, bits).wb = w.wb \union {"toolbox"}
         /\ w.mute => ToolShown(w, bits) = w
         /\ ToolShown(w, bits).switch =
              IF ~w.mute /\ "switch" \in bits THEN w.set.switch ELSE w.switch
         /\ ToolShown(w, bits).unseen =
              IF ~w.mute /\ "switch" \in bits THEN FALSE ELSE w.unseen
<1>1. w.set.switch \in BOOLEAN
  BY WorldHas, SettingsHas
<1>2. CASE w.mute
  BY <1>2 DEF ToolShown, Still, Framed, Placed
<1>3. CASE ~w.mute
  BY <1>1, <1>3 DEF ToolShown, Still, Framed, Placed, World, Holders
<1> QED
  BY <1>2, <1>3

\* What the toolbox and the navigator have heard once the photo was told.
Passed(r, w, bits) ==
    /\ Listening(w) => "toolbox" \in r.exposure /\ "toolbox" \in r.wb
    /\ w.follows => "navigator" \in r.exposure /\ "navigator" \in r.wb
    /\ r.switch = IF Listening(w) /\ "switch" \in bits THEN w.set.switch ELSE w.switch
    /\ r.unseen = IF Listening(w) /\ "switch" \in bits THEN FALSE ELSE w.unseen

LEMMA QuietToolbox ==
  ASSUME NEW w \in World, NEW bits \in SUBSET AllBits, ~w.set.recalc, w.follows
  PROVE  /\ AbleToolbox(w, bits)
         /\ Still(AfterToolbox(w, bits), w)
         /\ Passed(AfterToolbox(w, bits), w, bits)
<1> DEFINE a == ToolShown(w, bits)
           r == AfterRead(a, "navigator", AllBits)
<1>1. /\ Still(a, w)
      /\ ~w.mute => "toolbox" \in a.exposure /\ "toolbox" \in a.wb
      /\ a.switch = IF ~w.mute /\ "switch" \in bits THEN w.set.switch ELSE w.switch
      /\ a.unseen = IF ~w.mute /\ "switch" \in bits THEN FALSE ELSE w.unseen
  BY ShownIs
<1> HIDE DEF a
<1>2. a \in World /\ ~a.set.recalc /\ "navigator" \in Chains
      /\ AllBits \in SUBSET AllBits /\ "exposure" \in AllBits /\ "wb" \in AllBits
  BY <1>1 DEF Still, Chains, AllBits
<1>3. /\ AbleRead(a, "navigator", AllBits)
      /\ Still(r, a) /\ r.switch = a.switch /\ r.unseen = a.unseen
      /\ "navigator" \in r.exposure /\ "navigator" \in r.wb
  BY <1>2, QuietRead
<1> HIDE DEF r
<1>4. AbleToolbox(w, bits) /\ AfterToolbox(w, bits) = r
  BY <1>3 DEF AbleToolbox, AfterToolbox, a, r
<1>5. Still(r, w)
  BY <1>1, <1>3, StillTransitive
<1>6. Passed(r, w, bits)
  BY <1>1, <1>3 DEF Passed, Listening, Still
<1> QED
  BY <1>4, <1>5, <1>6

LEMMA QuietPhoto ==
  ASSUME NEW w \in World, NEW bits \in SUBSET AllBits, ~w.set.recalc
  PROVE  /\ AblePhoto(w, bits)
         /\ Still(AfterPhoto(w, bits), w)
         /\ Passed(AfterPhoto(w, bits), w, bits)
<1>1. CASE w.follows
  BY <1>1, QuietToolbox DEF AblePhoto, AfterPhoto
<1>2. CASE ~w.follows
  BY <1>2 DEF AblePhoto, AfterPhoto, Still, Framed, Placed, Passed, Listening
<1> QED
  BY <1>1, <1>2

(* A signal while no recalculation waits. *)
LEMMA QuietEmit ==
  ASSUME NEW w \in World, NEW bits \in SUBSET AllBits, ~w.set.recalc
  PROVE  /\ AbleEmit(w, bits)
         /\ Still(AfterEmit(w, bits), w)
         /\ Passed(AfterEmit(w, bits), w, bits)
         /\ Spread(AfterEmit(w, bits), w, bits)
<1> DEFINE a == AfterPhoto(w, bits)
           r == AfterReads(a, bits)
<1>1. AblePhoto(w, bits) /\ Still(a, w) /\ Passed(a, w, bits)
  BY QuietPhoto
<1> HIDE DEF a
<1>2. a \in World /\ ~a.set.recalc
  BY <1>1 DEF Still
<1>3. /\ AbleReads(a, bits) /\ Still(r, a)
      /\ r.switch = a.switch /\ r.unseen = a.unseen /\ Spread(r, a, bits)
  BY <1>2, QuietReads
<1> HIDE DEF r
<1>4. AbleEmit(w, bits) /\ AfterEmit(w, bits) = r
  BY <1>1, <1>3 DEF AbleEmit, AfterEmit, a, r
<1>5. Still(r, w)
  BY <1>1, <1>3, StillTransitive
<1>6. Passed(r, w, bits)
  BY <1>1, <1>3 DEF Passed, Still
<1>7. Spread(r, w, bits)
  BY <1>1, <1>3 DEF Spread, Still, Framed, Placed
<1> QED
  BY <1>4, <1>5, <1>6, <1>7

\* r is w after the balance was converted to the temperature there was.
Turned(r, w) ==
    /\ r \in World /\ Framed(r, w)
    /\ r.set = [w.set EXCEPT !.recalc = FALSE] /\ r.choice = w.profile
    /\ r.todo = w.todo
    /\ w.exposure \subseteq r.exposure /\ w.wb \subseteq r.wb

\* ... and after it was converted to another.
Shifted(r, w, t) ==
    /\ r \in World /\ Framed(r, w)
    /\ r.set = [w.set EXCEPT !.temp = t, !.preset = None, !.recalc = FALSE]
    /\ r.choice = w.profile
    /\ r.todo = IF w.commit > 0 THEN w.todo \union {"wb"} ELSE w.todo
    /\ w.exposure \subseteq r.exposure

LEMMA TurnedStill ==
  ASSUME NEW u, NEW v, NEW w, Still(u, v), Turned(v, w)
  PROVE  Turned(u, w)
BY DEF Still, Turned, Framed, Placed

LEMMA StillTurned ==
  ASSUME NEW u, NEW v, NEW w, Turned(u, v), Still(v, w)
  PROVE  Turned(u, w)
BY DEF Still, Turned, Framed, Placed

LEMMA ShiftedStill ==
  ASSUME NEW u, NEW v, NEW w, NEW t, Still(u, v), Shifted(v, w, t)
  PROVE  Shifted(u, w, t)
BY DEF Still, Shifted, Framed, Placed

LEMMA StillShifted ==
  ASSUME NEW u, NEW v, NEW w, NEW t, Shifted(u, v, t), Still(v, w)
  PROVE  Shifted(u, w, t)
BY DEF Still, Shifted, Framed, Placed

LEMMA KeptRead ==
  ASSUME NEW w \in World, NEW c \in Chains, NEW bits \in SUBSET AllBits,
         w.set.recalc, "wb" \in bits, Converted(w, c) = w.set.temp
  PROVE  /\ AbleRead(w, c, bits)
         /\ Turned(AfterRead(w, c, bits), w)
         /\ AfterRead(w, c, bits).switch = w.switch
         /\ AfterRead(w, c, bits).unseen = w.unseen
         /\ "exposure" \in bits => c \in AfterRead(w, c, bits).exposure
         /\ c \in AfterRead(w, c, bits).wb
<1>1. AbleRead(w, c, bits) /\ AfterRead(w, c, bits) = Kept(w, c, bits)
  BY DEF AbleRead, AfterRead, Converts
<1>2. /\ Kept(w, c, bits) \in World /\ Framed(Kept(w, c, bits), w)
      /\ Kept(w, c, bits).set = [w.set EXCEPT !.recalc = FALSE]
      /\ Kept(w, c, bits).todo = w.todo /\ Kept(w, c, bits).choice = w.profile
      /\ Kept(w, c, bits).switch = w.switch /\ Kept(w, c, bits).unseen = w.unseen
      /\ Kept(w, c, bits).exposure = Learnt(w, c, bits).exposure
      /\ Kept(w, c, bits).wb = Learnt(w, c, bits).wb
  BY KeptIs
<1>3. /\ Learnt(w, c, bits).exposure
                = w.exposure \union (IF "exposure" \in bits THEN {c} ELSE {})
      /\ Learnt(w, c, bits).wb = w.wb \union (IF "wb" \in bits THEN {c} ELSE {})
  BY LearntIs DEF Holders
<1> QED
  BY <1>1, <1>2, <1>3 DEF Turned

LEMMA KeptToolbox ==
  ASSUME NEW w \in World, NEW bits \in SUBSET AllBits, w.set.recalc, w.follows,
         Converted(w, "navigator") = w.set.temp
  PROVE  /\ AbleToolbox(w, bits)
         /\ Turned(AfterToolbox(w, bits), w)
         /\ Passed(AfterToolbox(w, bits), w, bits)
<1> DEFINE a == ToolShown(w, bits)
           r == AfterRead(a, "navigator", AllBits)
<1>1. /\ Still(a, w)
      /\ ~w.mute => "toolbox" \in a.exposure /\ "toolbox" \in a.wb
      /\ a.switch = IF ~w.mute /\ "switch" \in bits THEN w.set.switch ELSE w.switch
      /\ a.unseen = IF ~w.mute /\ "switch" \in bits THEN FALSE ELSE w.unseen
  BY ShownIs
<1> HIDE DEF a
<1>2. a \in World /\ a.set.recalc /\ "navigator" \in Chains
      /\ AllBits \in SUBSET AllBits /\ "exposure" \in AllBits /\ "wb" \in AllBits
  BY <1>1 DEF Still, Chains, AllBits
<1>3. Converted(a, "navigator") = a.set.temp
  BY <1>1 DEF Still, Framed, Placed, Converted
<1>4. /\ AbleRead(a, "navigator", AllBits)
      /\ Turned(r, a) /\ r.switch = a.switch /\ r.unseen = a.unseen
      /\ "navigator" \in r.exposure /\ "navigator" \in r.wb
  BY <1>2, <1>3, KeptRead
<1> HIDE DEF r
<1>5. AbleToolbox(w, bits) /\ AfterToolbox(w, bits) = r
  BY <1>4 DEF AbleToolbox, AfterToolbox, a, r
<1>6. Turned(r, w)
  BY <1>1, <1>4, StillTurned
<1>7. Passed(r, w, bits)
  BY <1>1, <1>4 DEF Passed, Listening, Still, Turned
<1> QED
  BY <1>5, <1>6, <1>7

(* A signal that has a waiting recalculation done, to no effect.           *)
LEMMA KeptEmit ==
  ASSUME NEW w \in World, NEW bits \in SUBSET AllBits, w.set.recalc, w.follows,
         Converted(w, "navigator") = w.set.temp
  PROVE  /\ AbleEmit(w, bits)
         /\ Turned(AfterEmit(w, bits), w)
         /\ Passed(AfterEmit(w, bits), w, bits)
         /\ Spread(AfterEmit(w, bits), w, bits)
<1> DEFINE a == AfterPhoto(w, bits)
           r == AfterReads(a, bits)
<1>1. AblePhoto(w, bits) /\ Turned(a, w) /\ Passed(a, w, bits)
  BY KeptToolbox DEF AblePhoto, AfterPhoto
<1> HIDE DEF a
<1>2. a \in World /\ ~a.set.recalc
  BY <1>1, RecalcDone, WorldHas DEF Turned
<1>3. /\ AbleReads(a, bits) /\ Still(r, a)
      /\ r.switch = a.switch /\ r.unseen = a.unseen /\ Spread(r, a, bits)
  BY <1>2, QuietReads
<1> HIDE DEF r
<1>4. AbleEmit(w, bits) /\ AfterEmit(w, bits) = r
  BY <1>1, <1>3 DEF AbleEmit, AfterEmit, a, r
<1>5. Turned(r, w)
  BY <1>1, <1>3, TurnedStill
<1>6. Passed(r, w, bits)
  BY <1>1, <1>3 DEF Passed, Still
<1>7. Spread(r, w, bits)
  BY <1>1, <1>3 DEF Spread, Still, Turned, Framed, Placed
<1> QED
  BY <1>4, <1>5, <1>6, <1>7

LEMMA MovedRead ==
  ASSUME NEW w \in World, NEW c \in Chains, NEW bits \in SUBSET AllBits,
         w.set.recalc, "wb" \in bits, Converted(w, c) # w.set.temp
  PROVE  /\ AfterRead(w, c, bits) = Moved(w, c, bits)
         /\ Shifted(AfterRead(w, c, bits), w, Converted(w, c))
         /\ AfterRead(w, c, bits).switch = w.switch
         /\ AfterRead(w, c, bits).unseen = w.unseen
         /\ "exposure" \in bits => c \in AfterRead(w, c, bits).exposure
         /\ AfterRead(w, c, bits).wb = Informed(w, c)
<1>1. AfterRead(w, c, bits) = Moved(w, c, bits)
  BY DEF AfterRead, Converts
<1>2. /\ Moved(w, c, bits) \in World /\ Framed(Moved(w, c, bits), w)
      /\ Moved(w, c, bits).set = [w.set EXCEPT !.temp = Converted(w, c),
                                               !.preset = None, !.recalc = FALSE]
      /\ Moved(w, c, bits).todo
            = IF w.commit > 0 THEN w.todo \union {"wb"} ELSE w.todo
      /\ Moved(w, c, bits).choice = w.profile
      /\ Moved(w, c, bits).switch = w.switch /\ Moved(w, c, bits).unseen = w.unseen
      /\ Moved(w, c, bits).exposure = Learnt(w, c, bits).exposure
      /\ Moved(w, c, bits).wb = Informed(w, c)
  BY ZenonT(60), MovedIs
<1>3. Learnt(w, c, bits).exposure
                = w.exposure \union (IF "exposure" \in bits THEN {c} ELSE {})
  BY LearntIs DEF Holders
<1> QED
  BY <1>1, <1>2, <1>3 DEF Shifted

(* A signal that has a waiting recalculation done, by the navigator.       *)
LEMMA MovedEmit ==
  ASSUME NEW w \in World, NEW bits \in SUBSET AllBits, w.set.recalc,
         w.follows, ~w.mute, w.link = Chains, w.commit > 0 => "wb" \in bits,
         Converted(w, "navigator") # w.set.temp
  PROVE  /\ AbleEmit(w, bits)
         /\ Shifted(AfterEmit(w, bits), w, Converted(w, "navigator"))
         /\ Passed(AfterEmit(w, bits), w, bits)
         /\ Spread(AfterEmit(w, bits), w, bits)
         /\ AfterEmit(w, bits).wb = Holders
<1> DEFINE s == ToolShown(w, bits)
           a == AfterRead(s, "navigator", AllBits)
           r == AfterReads(a, bits)
           t == Converted(w, "navigator")
<1>1. /\ Still(s, w)
      /\ "toolbox" \in s.exposure /\ "toolbox" \in s.wb
      /\ s.switch = IF ~w.mute /\ "switch" \in bits THEN w.set.switch ELSE w.switch
      /\ s.unseen = IF ~w.mute /\ "switch" \in bits THEN FALSE ELSE w.unseen
  BY ShownIs
<1> HIDE DEF s
<1>2. s \in World /\ s.set.recalc /\ "navigator" \in Chains
      /\ AllBits \in SUBSET AllBits /\ "exposure" \in AllBits /\ "wb" \in AllBits
  BY <1>1 DEF Still, Chains, AllBits
<1>3. Converted(s, "navigator") = t /\ t # s.set.temp
  BY <1>1 DEF Still, Framed, Placed, Converted
<1> HIDE DEF t
<1>4. /\ Shifted(a, s, t) /\ a.switch = s.switch /\ a.unseen = s.unseen
      /\ "navigator" \in a.exposure /\ a.wb = Informed(s, "navigator")
  BY <1>2, <1>3, MovedRead
<1>5. AbleRead(s, "navigator", AllBits)
  BY <1>1, <1>2 DEF AbleRead, Still, Framed, Placed
<1> HIDE DEF a
<1>6. s.link = Chains /\ s.follows /\ s.commit = w.commit
  BY <1>1 DEF Still, Framed, Placed
<1>7. /\ "toolbox" \in a.wb /\ "navigator" \in a.wb
      /\ w.commit = 0 => a.wb = Holders
  BY <1>4, <1>6 DEF Informed, Holders, Chains
<1>8. Shifted(a, w, t) /\ Passed(a, w, bits)
  <2>1. Shifted(a, w, t)
    BY <1>1, <1>4, StillShifted
  <2> QED
    BY <2>1, <1>1, <1>4, <1>7 DEF Passed, Listening, Shifted
<1>9. AblePhoto(w, bits) /\ AfterPhoto(w, bits) = a
  BY <1>5 DEF AblePhoto, AbleToolbox, AfterPhoto, AfterToolbox, s, a
<1>10. a \in World /\ ~a.set.recalc
  <2>1. t \in Temps
    BY <1>2, <1>3, ConvertedType
  <2> QED
    BY <1>8, <2>1, TempMoved, WorldHas DEF Shifted
<1>11. /\ AbleReads(a, bits) /\ Still(r, a)
       /\ r.switch = a.switch /\ r.unseen = a.unseen /\ Spread(r, a, bits)
  BY <1>10, QuietReads
<1> HIDE DEF r
<1>12. AbleEmit(w, bits) /\ AfterEmit(w, bits) = r
  BY <1>9, <1>11 DEF AbleEmit, AfterEmit, r
<1>13. Shifted(r, w, t)
  BY <1>8, <1>11, ShiftedStill
<1>14. Passed(r, w, bits)
  BY <1>8, <1>11 DEF Passed, Still
<1>15. a.link = Chains
  BY <1>8 DEF Shifted, Framed, Placed
<1>16. Spread(r, w, bits)
  BY <1>11, <1>15 DEF Spread
<1>17. r.wb = Holders
  <2>1. r.wb \subseteq Holders
    BY <1>13, WorldHas DEF Shifted
  <2>2. CASE w.commit = 0
    BY <1>7, <1>11, <2>1, <2>2 DEF Still
  <2>3. CASE "wb" \in bits
    BY <1>7, <1>11, <1>15, <2>1, <2>3 DEF Still, Spread, Holders
  <2> QED
    BY <2>2, <2>3, WorldHas
<1> QED
  BY <1>12, <1>13, <1>14, <1>16, <1>17 DEF t

(* The same while the toolbox is not connected: the loupe is the first to  *)
(* read.                                                                   *)
LEMMA LoupeEmit ==
  ASSUME NEW w \in World, NEW bits \in SUBSET AllBits, w.set.recalc, ~w.follows,
         "loupe" \in w.link, "wb" \in bits, Converted(w, "loupe") = w.set.temp
  PROVE  /\ AbleEmit(w, bits)
         /\ Turned(AfterEmit(w, bits), w)
         /\ Passed(AfterEmit(w, bits), w, bits)
         /\ Spread(AfterEmit(w, bits), w, bits)
<1> DEFINE a == ReadBy(w, "loupe", bits)
           b == ReadBy(a, "navigator", bits)
           d == ReadBy(b, "view", bits)
<1>1. "loupe" \in Chains /\ "navigator" \in Chains /\ "view" \in Chains
  BY DEF Chains
<1>2. /\ AbleBy(w, "loupe", bits) /\ Turned(a, w)
      /\ a.switch = w.switch /\ a.unseen = w.unseen
      /\ Reached(a, w, "loupe", bits)
  BY <1>1, KeptRead DEF AbleBy, ReadBy, Reached
<1> HIDE DEF a
<1>3. a \in World /\ ~a.set.recalc /\ a.link = w.link
  BY <1>2, RecalcDone, WorldHas DEF Turned, Framed, Placed
<1>4. /\ AbleBy(a, "navigator", bits) /\ Still(b, a)
      /\ b.switch = a.switch /\ b.unseen = a.unseen
      /\ Reached(b, a, "navigator", bits)
  BY <1>1, <1>3, QuietBy
<1> HIDE DEF b
<1>5. b \in World /\ ~b.set.recalc /\ b.link = w.link
  BY <1>3, <1>4 DEF Still, Framed, Placed
<1>6. /\ AbleBy(b, "view", bits) /\ Still(d, b)
      /\ d.switch = b.switch /\ d.unseen = b.unseen
      /\ Reached(d, b, "view", bits)
  BY <1>1, <1>5, QuietBy
<1> HIDE DEF d
<1>7. AbleEmit(w, bits) /\ AfterEmit(w, bits) = d
  BY <1>2, <1>4, <1>6 DEF AbleReads, AfterReads, AbleEmit, AfterEmit, AblePhoto,
                          AfterPhoto, a, b, d
<1>8. Turned(d, w)
  BY <1>2, <1>4, <1>6, StillTransitive, TurnedStill
<1>9. w.link \subseteq {"loupe", "navigator", "view"}
  BY WorldHas DEF Links, Chains
<1>10. a.exposure \subseteq d.exposure /\ b.exposure \subseteq d.exposure
       /\ a.wb \subseteq d.wb /\ b.wb \subseteq d.wb
  BY <1>4, <1>6 DEF Still
<1>11. ASSUME NEW c \in w.link
       PROVE  ("exposure" \in bits => c \in d.exposure) /\ ("wb" \in bits => c \in d.wb)
  <2>1. CASE c = "loupe"
    BY <1>2, <1>10, <2>1 DEF Reached
  <2>2. CASE c = "navigator"
    BY <1>3, <1>4, <1>10, <2>2 DEF Reached
  <2>3. CASE c = "view"
    BY <1>5, <1>6, <2>3 DEF Reached
  <2> QED
    BY <1>9, <1>11, <2>1, <2>2, <2>3
<1>12. Spread(d, w, bits)
  BY <1>11 DEF Spread
<1>13. Passed(d, w, bits)
  BY <1>2, <1>4, <1>6 DEF Passed, Listening
<1> QED
  BY <1>7, <1>8, <1>12, <1>13

LEMMA NobodyHears ==
  ASSUME NEW w \in World, NEW bits \in SUBSET AllBits, ~w.follows, w.link = {}
  PROVE  AbleEmit(w, bits) /\ AfterEmit(w, bits) = w
BY DEF AbleEmit, AfterEmit, AblePhoto, AfterPhoto, AbleReads, AfterReads, AbleBy, ReadBy

-----------------------------------------------------------------------------
(* A contract leads from a world to a world.                               *)

LEMMA FramedTransitive ==
  ASSUME NEW u, NEW v, NEW w, Framed(u, v), Framed(v, w)
  PROVE  Framed(u, w)
BY DEF Framed, Placed

LEMMA ByWorld ==
  ASSUME NEW w \in World, NEW c \in Chains, NEW bits \in SUBSET AllBits
  PROVE  ReadBy(w, c, bits) \in World /\ Framed(ReadBy(w, c, bits), w)
BY ReadIs DEF ReadBy, Framed, Placed

LEMMA ToolboxWorld ==
  ASSUME NEW w \in World, NEW bits \in SUBSET AllBits
  PROVE  /\ ToolShown(w, bits) \in World
         /\ AfterToolbox(w, bits) \in World /\ Framed(AfterToolbox(w, bits), w)
<1>1. ToolShown(w, bits) \in World /\ Framed(ToolShown(w, bits), w)
  BY ShownIs DEF Still
<1>2. "navigator" \in Chains /\ AllBits \in SUBSET AllBits
  BY DEF Chains
<1> QED
  BY <1>1, <1>2, ReadIs, FramedTransitive DEF AfterToolbox

LEMMA PhotoWorld ==
  ASSUME NEW w \in World, NEW bits \in SUBSET AllBits
  PROVE  AfterPhoto(w, bits) \in World /\ Framed(AfterPhoto(w, bits), w)
BY ToolboxWorld DEF AfterPhoto, Framed, Placed

LEMMA ReadsWorld ==
  ASSUME NEW w \in World, NEW bits \in SUBSET AllBits
  PROVE  /\ ReadBy(w, "loupe", bits) \in World
         /\ ReadBy(ReadBy(w, "loupe", bits), "navigator", bits) \in World
         /\ AfterReads(w, bits) \in World /\ Framed(AfterReads(w, bits), w)
<1>1. "loupe" \in Chains /\ "navigator" \in Chains /\ "view" \in Chains
  BY DEF Chains
<1>2. /\ ReadBy(w, "loupe", bits) \in World
      /\ Framed(ReadBy(w, "loupe", bits), w)
  BY <1>1, ByWorld
<1>3. /\ ReadBy(ReadBy(w, "loupe", bits), "navigator", bits) \in World
      /\ Framed(ReadBy(ReadBy(w, "loupe", bits), "navigator", bits), ReadBy(w, "loupe", bits))
  BY <1>1, <1>2, ByWorld
<1>4. /\ AfterReads(w, bits) \in World
      /\ Framed(AfterReads(w, bits), ReadBy(ReadBy(w, "loupe", bits), "navigator", bits))
  BY <1>1, <1>3, ByWorld DEF AfterReads
<1> QED
  BY <1>2, <1>3, <1>4, FramedTransitive

LEMMA EmitWorld ==
  ASSUME NEW w \in World, NEW bits \in SUBSET AllBits
  PROVE  AfterEmit(w, bits) \in World /\ Framed(AfterEmit(w, bits), w)
BY PhotoWorld, ReadsWorld, FramedTransitive DEF AfterEmit

LEMMA AnnounceWorld ==
  ASSUME NEW w \in World, NEW bits \in SUBSET AllBits
  PROVE  AfterAnnounce(w, bits) \in World /\ Framed(AfterAnnounce(w, bits), w)
<1>1. w.todo \union bits \in SUBSET AllBits
  BY WorldHas
<1>2. /\ Known(w, w.set, w.todo \union bits, w.choice, w.exposure, w.wb) \in World
      /\ Framed(Known(w, w.set, w.todo \union bits, w.choice, w.exposure, w.wb), w)
  BY <1>1, KnownIs, WorldHas
<1> QED
  BY <1>2, EmitWorld DEF AfterAnnounce, Framed, Placed

LEMMA StoredIs ==
  ASSUME NEW w \in World, NEW f, NEW x, Typed(f, x)
  PROVE  /\ Stored(w, f, x) \in World /\ Framed(Stored(w, f, x), w)
         /\ Stored(w, f, x).set = [w.set EXCEPT ![f] = x]
         /\ Stored(w, f, x).todo = w.todo /\ Stored(w, f, x).choice = w.choice
         /\ Stored(w, f, x).switch = w.switch /\ Stored(w, f, x).unseen = w.unseen
         /\ Stored(w, f, x).exposure = IF f = "exposure" THEN {} ELSE w.exposure
         /\ Stored(w, f, x).wb = IF f \in {"warmth", "temp"} THEN {} ELSE w.wb
         /\ RaisedBy(f, x) \in SUBSET AllBits
<1>1. [w.set EXCEPT ![f] = x] \in SettingsType
  BY WorldHas DEF Typed, SettingsType
<1>2. /\ (IF f = "exposure" THEN {} ELSE w.exposure) \in SUBSET Holders
      /\ (IF f \in {"warmth", "temp"} THEN {} ELSE w.wb) \in SUBSET Holders
  BY WorldHas
<1>3. RaisedBy(f, x) \in SUBSET AllBits
  BY DEF RaisedBy, AllBits
<1> QED
  BY <1>1, <1>2, <1>3, KnownIs, WorldHas DEF Stored

\* u is w with the property f stored.
StoredAs(u, w, f, x) ==
    /\ u \in World /\ Framed(u, w) /\ u.set = [w.set EXCEPT ![f] = x]
    /\ u.todo = w.todo /\ u.choice = w.choice
    /\ u.switch = w.switch /\ u.unseen = w.unseen
    /\ u.exposure = IF f = "exposure" THEN {} ELSE w.exposure
    /\ u.wb = IF f \in {"warmth", "temp"} THEN {} ELSE w.wb

LEMMA StoredThus ==
  ASSUME NEW w \in World, NEW f, NEW x, Typed(f, x)
  PROVE  StoredAs(Stored(w, f, x), w, f, x)
<1>1. /\ Stored(w, f, x) \in World /\ Framed(Stored(w, f, x), w)
      /\ Stored(w, f, x).set = [w.set EXCEPT ![f] = x]
      /\ Stored(w, f, x).todo = w.todo /\ Stored(w, f, x).choice = w.choice
      /\ Stored(w, f, x).switch = w.switch /\ Stored(w, f, x).unseen = w.unseen
      /\ Stored(w, f, x).exposure = IF f = "exposure" THEN {} ELSE w.exposure
      /\ Stored(w, f, x).wb = IF f \in {"warmth", "temp"} THEN {} ELSE w.wb
      /\ RaisedBy(f, x) \in SUBSET AllBits
  BY StoredIs
<1> QED
  BY <1>1 DEF StoredAs

LEMMA StoredWorld ==
  ASSUME NEW w \in World, NEW f, NEW x, Typed(f, x)
  PROVE  Stored(w, f, x) \in World /\ Framed(Stored(w, f, x), w)
BY StoredIs

LEMMA PutWorld ==
  ASSUME NEW w \in World, NEW f, NEW x, Typed(f, x)
  PROVE  AfterPut(w, f, x) \in World /\ Framed(AfterPut(w, f, x), w)
<1>1. /\ Stored(w, f, x) \in World /\ Framed(Stored(w, f, x), w)
      /\ RaisedBy(f, x) \in SUBSET AllBits
  BY StoredIs
<1> QED
  BY <1>1, AnnounceWorld, FramedTransitive DEF AfterPut

LEMMA SetWorld ==
  ASSUME NEW w \in World, NEW f, NEW x, Typed(f, x)
  PROVE  AfterSet(w, f, x) \in World /\ Framed(AfterSet(w, f, x), w)
<1>1. Stored(w, f, x) \in World /\ Framed(Stored(w, f, x), w)
  BY StoredIs
<1>2. Typed("preset", None) /\ {"wb"} \in SUBSET AllBits
  BY DEF Typed, Presets, AllBits
<1> DEFINE u == AfterPut(Stored(w, f, x), "preset", None)
<1>3. u \in World /\ Framed(u, w)
  BY <1>1, <1>2, PutWorld, FramedTransitive
<1> HIDE DEF u
<1>4. AfterAnnounce(u, {"wb"}) \in World /\ Framed(AfterAnnounce(u, {"wb"}), w)
  BY <1>2, <1>3, AnnounceWorld, FramedTransitive
<1>5. CASE Same(w, f, x)
  BY <1>5 DEF AfterSet, Framed, Placed
<1>6. CASE ~Same(w, f, x) /\ f \in {"warmth", "temp"}
  BY <1>4, <1>6 DEF AfterSet, u
<1>7. CASE ~Same(w, f, x) /\ f \notin {"warmth", "temp"}
  BY <1>7, PutWorld DEF AfterSet
<1> QED
  BY <1>5, <1>6, <1>7

LEMMA WbWorld ==
  ASSUME NEW w \in World
  PROVE  AfterWb(w) \in World /\ Framed(AfterWb(w), w)
BY ToolboxWorld DEF AfterWb, Framed, Placed, AllBits

LEMMA StartedIs ==
  ASSUME NEW w \in World, w.commit < 2
  PROVE  /\ Started(w) \in World
         /\ Started(w).commit = w.commit + 1
         /\ Started(w).todo = IF w.commit = 0 THEN {} ELSE w.todo
         /\ Placed(Started(w), w)
         /\ Started(w).set = w.set /\ Started(w).choice = w.choice
         /\ Started(w).switch = w.switch /\ Started(w).unseen = w.unseen
         /\ Started(w).exposure = w.exposure /\ Started(w).wb = w.wb
<1> DEFINE t == IF w.commit = 0 THEN {} ELSE w.todo
           n == w.commit + 1
<1>1. t \in SUBSET AllBits /\ n \in 0..2
  BY WorldHas
<1>2. Started(w) = [w EXCEPT !.todo = t, !.commit = n]
  BY DEF Started, World
<1> HIDE DEF t, n
<1>3. /\ Started(w) \in World
      /\ Started(w).commit = n /\ Started(w).todo = t /\ Placed(Started(w), w)
      /\ Started(w).set = w.set /\ Started(w).choice = w.choice
      /\ Started(w).switch = w.switch /\ Started(w).unseen = w.unseen
      /\ Started(w).exposure = w.exposure /\ Started(w).wb = w.wb
  BY <1>1, <1>2 DEF World, Placed
<1> QED
  BY <1>3 DEF t, n

LEMMA StoppedIs ==
  ASSUME NEW w \in World, w.commit > 0
  PROVE  /\ Stopped(w) \in World
         /\ Stopped(w).commit = w.commit - 1
         /\ Placed(Stopped(w), w)
         /\ Stopped(w).set = w.set /\ Stopped(w).choice = w.choice
         /\ Stopped(w).todo = w.todo
         /\ Stopped(w).switch = w.switch /\ Stopped(w).unseen = w.unseen
         /\ Stopped(w).exposure = w.exposure /\ Stopped(w).wb = w.wb
<1> DEFINE n == w.commit - 1
<1>1. n \in 0..2
  BY WorldHas
<1>2. Stopped(w) = [w EXCEPT !.commit = n]
  BY DEF Stopped, World
<1> HIDE DEF n
<1>3. /\ Stopped(w) \in World
      /\ Stopped(w).commit = n /\ Stopped(w).todo = w.todo /\ Placed(Stopped(w), w)
      /\ Stopped(w).set = w.set /\ Stopped(w).choice = w.choice
      /\ Stopped(w).switch = w.switch /\ Stopped(w).unseen = w.unseen
      /\ Stopped(w).exposure = w.exposure /\ Stopped(w).wb = w.wb
  BY <1>1, <1>2 DEF World, Placed
<1> QED
  BY <1>3 DEF n

LEMMA PlacedTransitive ==
  ASSUME NEW u, NEW v, NEW w, Placed(u, v), Placed(v, w)
  PROVE  Placed(u, w)
BY DEF Placed

LEMMA StopWorld ==
  ASSUME NEW w \in World, w.commit > 0
  PROVE  /\ Stopping(w) \in World /\ Framed(Stopping(w), w)
         /\ AfterStop(w) \in World /\ Placed(AfterStop(w), w)
         /\ AfterStop(w).commit = w.commit - 1
<1>1. Stopping(w) \in World /\ Framed(Stopping(w), w)
  BY EmitWorld, WorldHas DEF Stopping, Framed, Placed
<1>2. Stopping(w).commit = w.commit /\ Placed(Stopping(w), w)
  BY <1>1 DEF Framed
<1>3. /\ Stopped(Stopping(w)) \in World
      /\ Stopped(Stopping(w)).commit = Stopping(w).commit - 1
      /\ Placed(Stopped(Stopping(w)), Stopping(w))
  BY <1>1, <1>2, StoppedIs
<1> QED
  BY <1>1, <1>2, <1>3, PlacedTransitive DEF AfterStop

\* Three properties set in a commit.
ThreeKept(w, f, x, g, y, h, z) ==
    LET u == AfterPut(AfterPut(AfterSet(Started(w), f, x), g, y), h, z)
    IN  /\ AfterSet(Started(w), f, x) \in World
        /\ AfterSet(Started(w), f, x).commit = w.commit + 1
        /\ AfterPut(AfterSet(Started(w), f, x), g, y) \in World
        /\ AfterPut(AfterSet(Started(w), f, x), g, y).commit = w.commit + 1
        /\ u \in World /\ Placed(u, w) /\ u.commit = w.commit + 1

LEMMA ThreeSet ==
  ASSUME NEW w \in World, w.commit < 2, NEW f, NEW x, Typed(f, x),
         NEW g, NEW y, Typed(g, y), NEW h, NEW z, Typed(h, z)
  PROVE  ThreeKept(w, f, x, g, y, h, z)
<1> DEFINE a == AfterSet(Started(w), f, x)
           b == AfterPut(a, g, y)
           u == AfterPut(b, h, z)
<1>1. Started(w) \in World /\ Placed(Started(w), w) /\ Started(w).commit = w.commit + 1
  BY StartedIs
<1>2. a \in World /\ Framed(a, Started(w))
  BY <1>1, SetWorld
<1> HIDE DEF a
<1>3. b \in World /\ Framed(b, a)
  BY <1>2, PutWorld
<1> HIDE DEF b
<1>4. u \in World /\ Framed(u, b)
  BY <1>3, PutWorld
<1> HIDE DEF u
<1>5. a.commit = w.commit + 1 /\ b.commit = w.commit + 1 /\ u.commit = w.commit + 1
  BY <1>1, <1>2, <1>3, <1>4 DEF Framed
<1>6. Placed(u, w)
  BY <1>1, <1>2, <1>3, <1>4 DEF Framed, Placed
<1> QED
  BY <1>2, <1>3, <1>4, <1>5, <1>6 DEF a, b, u, ThreeKept

LEMMA TypedValues ==
  /\ \A x \in Warmths : Typed("warmth", x)
  /\ \A x \in Presets : Typed("preset", x)
  /\ \A x \in Temps : Typed("temp", x)
  /\ Typed("temp", DefaultTemp)
  /\ \A x \in BOOLEAN : Typed("recalc", x) /\ Typed("switch", x)
  /\ \A x \in Exposures : Typed("exposure", x)
BY TempAssumption DEF Typed

LEMMA WbPutWorld ==
  ASSUME NEW w \in World, w.commit < 2, NEW t \in Warmths, NEW p \in Presets
  PROVE  /\ AfterSet(Started(w), "warmth", t) \in World
         /\ AfterSet(Started(w), "warmth", t).commit = w.commit + 1
         /\ AfterPut(AfterSet(Started(w), "warmth", t), "preset", p) \in World
         /\ AfterPut(AfterSet(Started(w), "warmth", t), "preset", p).commit = w.commit + 1
         /\ WbPut(w, t, p) \in World /\ Placed(WbPut(w, t, p), w)
         /\ WbPut(w, t, p).commit = w.commit + 1
<1>1. Typed("warmth", t) /\ Typed("preset", p) /\ Typed("recalc", TRUE)
  BY TypedValues
<1>2. ThreeKept(w, "warmth", t, "preset", p, "recalc", TRUE)
  BY <1>1, ThreeSet
<1> QED
  BY <1>2 DEF WbPut, ThreeKept

LEMMA TempPutWorld ==
  ASSUME NEW w \in World, w.commit < 2
  PROVE  /\ AfterSet(Started(w), "temp", DefaultTemp) \in World
         /\ AfterSet(Started(w), "temp", DefaultTemp).commit = w.commit + 1
         /\ AfterPut(AfterSet(Started(w), "temp", DefaultTemp), "preset", "camera") \in World
         /\ AfterPut(AfterSet(Started(w), "temp", DefaultTemp), "preset", "camera").commit
                = w.commit + 1
         /\ TempPut(w) \in World /\ Placed(TempPut(w), w)
         /\ TempPut(w).commit = w.commit + 1
<1>1. Typed("temp", DefaultTemp) /\ Typed("preset", "camera") /\ Typed("recalc", FALSE)
  BY TypedValues DEF Presets
<1>2. ThreeKept(w, "temp", DefaultTemp, "preset", "camera", "recalc", FALSE)
  BY <1>1, ThreeSet
<1> QED
  BY <1>2 DEF TempPut, ThreeKept

LEMMA SetWbWorld ==
  ASSUME NEW w \in World, w.commit < 2, NEW t \in Warmths, NEW p \in Presets
  PROVE  AfterSetWb(w, t, p) \in World /\ Framed(AfterSetWb(w, t, p), w)
<1>1. WbPut(w, t, p) \in World /\ Placed(WbPut(w, t, p), w)
      /\ WbPut(w, t, p).commit = w.commit + 1
  BY WbPutWorld
<1>2. WbPut(w, t, p).commit > 0 /\ w.commit \in 0..2
  BY <1>1, WorldHas
<1>3. /\ AfterSetWb(w, t, p) \in World /\ Placed(AfterSetWb(w, t, p), WbPut(w, t, p))
      /\ AfterSetWb(w, t, p).commit = WbPut(w, t, p).commit - 1
  BY <1>1, <1>2, StopWorld DEF AfterSetWb
<1> QED
  BY <1>1, <1>2, <1>3, PlacedTransitive DEF Framed

LEMMA CameraWorld ==
  ASSUME NEW w \in World, AbleCamera(w)
  PROVE  AfterCamera(w) \in World /\ Framed(AfterCamera(w), w)
<1>1. CASE w.kind = "raw"
  <2>1. w.commit < 2
    BY <1>1 DEF AbleCamera, AbleSetWb
  <2> QED
    BY <1>1, <2>1, SetWbWorld DEF AfterCamera, Warmths, Presets
<1>2. CASE w.kind # "raw" /\ w.profile = None
  <2>1. w.commit < 2
    BY <1>2 DEF AbleCamera
  <2>2. TempPut(w) \in World /\ Placed(TempPut(w), w) /\ TempPut(w).commit = w.commit + 1
    BY <2>1, TempPutWorld
  <2>3. TempPut(w).commit > 0 /\ w.commit \in 0..2
    BY <2>2, WorldHas
  <2>4. /\ AfterStop(TempPut(w)) \in World /\ Placed(AfterStop(TempPut(w)), TempPut(w))
        /\ AfterStop(TempPut(w)).commit = TempPut(w).commit - 1
    BY <2>2, <2>3, StopWorld
  <2> QED
    BY <1>2, <2>2, <2>3, <2>4, PlacedTransitive DEF AfterCamera, Framed
<1>3. CASE w.kind # "raw" /\ w.profile # None
  BY <1>3 DEF AfterCamera, Framed, Placed
<1> QED
  BY <1>1, <1>2, <1>3

LEMMA CopiedType ==
  ASSUME NEW s \in SettingsType, NEW from \in SettingsType, NEW bits
  PROVE  CopiedOver(s, from, bits) \in SettingsType
BY DEF CopiedOver, SettingsType

LEMMA OverwrittenIs ==
  ASSUME NEW w \in World, NEW new \in SettingsType
  PROVE  /\ Overwritten(w, new) \in World /\ Framed(Overwritten(w, new), w)
         /\ Overwritten(w, new).set = new
         /\ Overwritten(w, new).todo = w.todo
         /\ Overwritten(w, new).choice = w.choice
         /\ Overwritten(w, new).switch = w.switch
         /\ Overwritten(w, new).exposure
              = IF new.exposure # w.set.exposure THEN {} ELSE w.exposure
         /\ Overwritten(w, new).wb = IF WbDiffers(w.set, new) THEN {} ELSE w.wb
         /\ Overwritten(w, new).unseen
              = (w.unseen \/ (w.follows /\ new.switch # w.set.switch))
<1> DEFINE x == IF new.exposure # w.set.exposure THEN {} ELSE w.exposure
           b == IF WbDiffers(w.set, new) THEN {} ELSE w.wb
           n == w.unseen \/ (w.follows /\ new.switch # w.set.switch)
<1>1. x \in SUBSET Holders /\ b \in SUBSET Holders /\ n \in BOOLEAN
  BY WorldHas
<1>2. Overwritten(w, new)
          = [w EXCEPT !.set = new, !.exposure = x, !.wb = b, !.unseen = n]
  BY DEF Overwritten, World
<1> HIDE DEF x, b, n
<1>3. /\ Overwritten(w, new) \in World /\ Framed(Overwritten(w, new), w)
      /\ Overwritten(w, new).set = new /\ Overwritten(w, new).todo = w.todo
      /\ Overwritten(w, new).choice = w.choice
      /\ Overwritten(w, new).switch = w.switch
      /\ Overwritten(w, new).exposure = x /\ Overwritten(w, new).wb = b
      /\ Overwritten(w, new).unseen = n
  BY <1>1, <1>2 DEF World, Framed, Placed
<1> QED
  BY <1>3 DEF x, b, n

LEMMA CopyWorld ==
  ASSUME NEW w \in World, NEW from \in SettingsType, NEW bits
  PROVE  /\ AfterCopy(w, from, bits) \in World
         /\ Framed(AfterCopy(w, from, bits), w)
         /\ BitsOf(w.set, CopiedOver(w.set, from, bits)) \in SUBSET AllBits
<1> DEFINE new == CopiedOver(w.set, from, bits)
<1>1. new \in SettingsType
  BY CopiedType, WorldHas
<1> HIDE DEF new
<1>2. Overwritten(w, new) \in World /\ Framed(Overwritten(w, new), w)
  BY <1>1, OverwrittenIs
<1>3. BitsOf(w.set, new) \in SUBSET AllBits
  BY DEF BitsOf, AllBits
<1>4. /\ AfterEmit(Overwritten(w, new), BitsOf(w.set, new)) \in World
      /\ Framed(AfterEmit(Overwritten(w, new), BitsOf(w.set, new)), w)
  BY <1>2, <1>3, EmitWorld, FramedTransitive
<1> QED
  BY <1>2, <1>3, <1>4 DEF AfterCopy, new

LEMMA UnprofiledIs ==
  ASSUME NEW w \in World
  PROVE  /\ Unprofiled(w) \in World
         /\ Unprofiled(w).profile = IF w.kind = "jpeg" THEN None ELSE w.profile
         /\ Unprofiled(w).kind = w.kind /\ Unprofiled(w).link = w.link
         /\ Unprofiled(w).follows = w.follows /\ Unprofiled(w).mute = w.mute
         /\ Unprofiled(w).prof = w.prof /\ Unprofiled(w).opened = w.opened
         /\ Unprofiled(w).commit = w.commit /\ Unprofiled(w).todo = w.todo
         /\ Unprofiled(w).set = w.set /\ Unprofiled(w).choice = w.choice
         /\ Unprofiled(w).switch = w.switch /\ Unprofiled(w).unseen = w.unseen
         /\ Unprofiled(w).exposure = w.exposure /\ Unprofiled(w).wb = w.wb
BY DEF Unprofiled, World, Choices

LEMMA NeutralWorld ==
  ASSUME NEW w \in World, AbleNeutral(w)
  PROVE  AfterNeutral(w) \in World
<1>1. Unprofiled(w) \in World
  BY UnprofiledIs
<1>2. CASE w.kind = "jpeg" /\ w.set.warmth = "zero"
  <2>1. Unprofiled(w).commit < 2
    BY <1>2 DEF AbleNeutral, AbleSetWb
  <2> QED
    BY <1>1, <1>2, <2>1, SetWbWorld DEF AfterNeutral, Warmths, Presets
<1> QED
  BY <1>1, <1>2 DEF AfterNeutral

Linking(w, c) == [w EXCEPT !.link = @ \union {c}]

\* The next filter to be connected.
NextToLink(w, c) ==
    \/ w.link = {} /\ c = "loupe"
    \/ w.link = {"loupe"} /\ c = "navigator"
    \/ w.link = {"loupe", "navigator"} /\ c = "view"

LEMMA LinkingIs ==
  ASSUME NEW w \in World, NEW c, NextToLink(w, c)
  PROVE  /\ c \in Chains
         /\ Linking(w, c) \in World /\ Linking(w, c).link = w.link \union {c}
         /\ Linking(w, c).kind = w.kind
         /\ Linking(w, c).follows = w.follows /\ Linking(w, c).mute = w.mute
         /\ Linking(w, c).prof = w.prof /\ Linking(w, c).opened = w.opened
         /\ Linking(w, c).profile = w.profile
         /\ Linking(w, c).commit = w.commit /\ Linking(w, c).todo = w.todo
         /\ Linking(w, c).set = w.set /\ Linking(w, c).choice = w.choice
         /\ Linking(w, c).switch = w.switch /\ Linking(w, c).unseen = w.unseen
         /\ Linking(w, c).exposure = w.exposure /\ Linking(w, c).wb = w.wb
<1>1. c \in Chains /\ w.link \union {c} \in Links
  BY DEF NextToLink, Chains, Links
<1> QED
  BY <1>1 DEF Linking, World

LEMMA ConnectNext ==
  ASSUME NEW w, NEW c
  PROVE  AbleConnect(w, c) <=> NextToLink(w, c) /\ AbleRead(Linking(w, c), c, AllBits)
BY DEF AbleConnect, NextToLink, Linking

LEMMA ConnectWorld ==
  ASSUME NEW w \in World, NEW c, AbleConnect(w, c)
  PROVE  /\ AfterConnect(w, c) = AfterRead(Linking(w, c), c, AllBits)
         /\ AbleRead(Linking(w, c), c, AllBits)
         /\ AfterConnect(w, c) \in World
         /\ Framed(AfterConnect(w, c), Linking(w, c))
<1>1. c \in Chains /\ Linking(w, c) \in World
  BY ConnectNext, LinkingIs
<1>2. /\ AfterConnect(w, c) = AfterRead(Linking(w, c), c, AllBits)
      /\ AbleRead(Linking(w, c), c, AllBits)
  BY DEF AbleConnect, AfterConnect, Linking
<1> QED
  BY <1>1, <1>2, ReadIs

LEMMA SetPhotoIs ==
  ASSUME NEW w \in World
  PROVE  /\ AfterSetPhoto(w) \in World
         /\ AfterSetPhoto(w).follows = TRUE /\ AfterSetPhoto(w).unseen = FALSE
         /\ AfterSetPhoto(w).switch = w.set.switch
         /\ AfterSetPhoto(w).exposure = w.exposure \union {"toolbox"}
         /\ AfterSetPhoto(w).wb = w.wb \union {"toolbox"}
         /\ AfterSetPhoto(w).kind = w.kind /\ AfterSetPhoto(w).set = w.set
         /\ AfterSetPhoto(w).todo = w.todo /\ AfterSetPhoto(w).commit = w.commit
         /\ AfterSetPhoto(w).link = w.link /\ AfterSetPhoto(w).mute = w.mute
         /\ AfterSetPhoto(w).prof = w.prof /\ AfterSetPhoto(w).profile = w.profile
         /\ AfterSetPhoto(w).choice = w.choice
         /\ AfterSetPhoto(w).opened = w.opened
<1>1. w.set.switch \in BOOLEAN
  BY WorldHas, SettingsHas
<1> QED
  BY <1>1 DEF AfterSetPhoto, World, Holders

LEMMA MutingIs ==
  ASSUME NEW w \in World, NEW b \in BOOLEAN
  PROVE  /\ Muting(w, b) \in World
         /\ Muting(w, b).mute = b
         /\ Muting(w, b).kind = w.kind /\ Muting(w, b).set = w.set
         /\ Muting(w, b).todo = w.todo /\ Muting(w, b).commit = w.commit
         /\ Muting(w, b).exposure = w.exposure /\ Muting(w, b).wb = w.wb
         /\ Muting(w, b).link = w.link /\ Muting(w, b).follows = w.follows
         /\ Muting(w, b).prof = w.prof /\ Muting(w, b).profile = w.profile
         /\ Muting(w, b).choice = w.choice /\ Muting(w, b).switch = w.switch
         /\ Muting(w, b).unseen = w.unseen /\ Muting(w, b).opened = w.opened
BY DEF Muting, World

LEMMA DefaultedIs ==
  ASSUME NEW w \in World
  PROVE  /\ Defaulted(w) \in World
         /\ Defaulted(w).set = [w.set EXCEPT !.preset = "camera"]
         /\ Defaulted(w).kind = w.kind /\ Defaulted(w).todo = w.todo
         /\ Defaulted(w).commit = w.commit /\ Defaulted(w).exposure = w.exposure
         /\ Defaulted(w).wb = w.wb /\ Defaulted(w).link = w.link
         /\ Defaulted(w).follows = w.follows /\ Defaulted(w).mute = w.mute
         /\ Defaulted(w).prof = w.prof /\ Defaulted(w).profile = w.profile
         /\ Defaulted(w).choice = w.choice /\ Defaulted(w).switch = w.switch
         /\ Defaulted(w).unseen = w.unseen /\ Defaulted(w).opened = w.opened
<1> DEFINE s == [w.set EXCEPT !.preset = "camera"]
<1>1. s \in SettingsType
  BY WorldHas DEF SettingsType, Presets
<1>2. Defaulted(w) = [w EXCEPT !.set = s]
  BY DEF Defaulted, World
<1> HIDE DEF s
<1>3. /\ Defaulted(w) \in World /\ Defaulted(w).set = s
      /\ Defaulted(w).kind = w.kind
      /\ Defaulted(w).todo = w.todo
      /\ Defaulted(w).commit = w.commit
      /\ Defaulted(w).exposure = w.exposure
      /\ Defaulted(w).wb = w.wb
      /\ Defaulted(w).link = w.link
      /\ Defaulted(w).follows = w.follows
      /\ Defaulted(w).mute = w.mute
      /\ Defaulted(w).prof = w.prof
      /\ Defaulted(w).profile = w.profile
      /\ Defaulted(w).choice = w.choice
      /\ Defaulted(w).switch = w.switch
      /\ Defaulted(w).unseen = w.unseen
      /\ Defaulted(w).opened = w.opened
  BY <1>1, <1>2 DEF World
<1> QED
  BY <1>3 DEF s

LEMMA RememberedIs ==
  ASSUME NEW w \in World
  PROVE  /\ Remembered(w) \in World
         /\ Remembered(w).opened = w.set
         /\ Remembered(w).kind = w.kind /\ Remembered(w).set = w.set
         /\ Remembered(w).todo = w.todo /\ Remembered(w).commit = w.commit
         /\ Remembered(w).exposure = w.exposure /\ Remembered(w).wb = w.wb
         /\ Remembered(w).link = w.link /\ Remembered(w).follows = w.follows
         /\ Remembered(w).mute = w.mute /\ Remembered(w).prof = w.prof
         /\ Remembered(w).profile = w.profile /\ Remembered(w).choice = w.choice
         /\ Remembered(w).switch = w.switch /\ Remembered(w).unseen = w.unseen
BY WorldHas DEF Remembered, World

LEMMA ProfiledIs ==
  ASSUME NEW w \in World, NEW c \in Chains
  PROVE  /\ Profiled(w, c) \in World
         /\ Profiled(w, c).prof = [w.prof EXCEPT ![c] = w.profile]
         /\ Profiled(w, c).kind = w.kind /\ Profiled(w, c).set = w.set
         /\ Profiled(w, c).todo = w.todo /\ Profiled(w, c).commit = w.commit
         /\ Profiled(w, c).exposure = w.exposure /\ Profiled(w, c).wb = w.wb
         /\ Profiled(w, c).link = w.link /\ Profiled(w, c).follows = w.follows
         /\ Profiled(w, c).mute = w.mute /\ Profiled(w, c).profile = w.profile
         /\ Profiled(w, c).choice = w.choice /\ Profiled(w, c).switch = w.switch
         /\ Profiled(w, c).unseen = w.unseen /\ Profiled(w, c).opened = w.opened
<1> DEFINE s == [w.prof EXCEPT ![c] = w.profile]
<1>1. s \in [Chains -> Choices]
  BY WorldHas
<1>2. Profiled(w, c) = [w EXCEPT !.prof = s]
  BY DEF Profiled, World
<1> HIDE DEF s
<1>3. /\ Profiled(w, c) \in World /\ Profiled(w, c).prof = s
      /\ Profiled(w, c).kind = w.kind
      /\ Profiled(w, c).set = w.set
      /\ Profiled(w, c).todo = w.todo
      /\ Profiled(w, c).commit = w.commit
      /\ Profiled(w, c).exposure = w.exposure
      /\ Profiled(w, c).wb = w.wb
      /\ Profiled(w, c).link = w.link
      /\ Profiled(w, c).follows = w.follows
      /\ Profiled(w, c).mute = w.mute
      /\ Profiled(w, c).profile = w.profile
      /\ Profiled(w, c).choice = w.choice
      /\ Profiled(w, c).switch = w.switch
      /\ Profiled(w, c).unseen = w.unseen
      /\ Profiled(w, c).opened = w.opened
  BY <1>1, <1>2 DEF World
<1> QED
  BY <1>3 DEF s

-----------------------------------------------------------------------------
(* The calls and the way they lead.                                        *)

Plain == {"wb_recalculated", "start", "stop", "stopped", "camera_if_preset",
          "auto_if_preset", "camera", "default_preset", "neutral", "remember",
          "toolbox_set_photo"}
Signals == {"announce", "emit", "photo", "toolbox"}
Fields == {"exposure", "warmth", "temp", "preset", "switch", "recalc"}
Values == Exposures \union Warmths \union Temps \union Presets \union BOOLEAN

Calls ==
    [do : Plain]
    \union [do : {"set"}, field : Fields, value : Values]
    \union [do : Signals, bits : SUBSET AllBits]
    \union [do : {"read"}, chain : Chains, bits : SUBSET AllBits]
    \union [do : {"profile", "connect"}, chain : Chains]
    \union [do : {"copy"}, from : SettingsType, bits : SUBSET AllBits]
    \union [do : {"mute"}, value : BOOLEAN]

After(x, w) ==
    CASE x.do = "set"              -> AfterSet(w, x.field, x.value)
      [] x.do = "announce"         -> AfterAnnounce(w, x.bits)
      [] x.do = "emit"             -> AfterEmit(w, x.bits)
      [] x.do = "photo"            -> AfterPhoto(w, x.bits)
      [] x.do = "toolbox"          -> AfterToolbox(w, x.bits)
      [] x.do = "wb_recalculated"  -> AfterWb(w)
      [] x.do = "read"             -> AfterRead(w, x.chain, x.bits)
      [] x.do = "start"            -> Started(w)
      [] x.do = "stop"             -> AfterStop(w)
      [] x.do = "stopped"          -> Stopped(w)
      [] x.do = "copy"             -> AfterCopy(w, x.from, x.bits)
      [] x.do = "camera_if_preset" -> CameraIf(w)
      [] x.do = "auto_if_preset"   -> AutoIf(w)
      [] x.do = "camera"           -> AfterCamera(w)
      [] x.do = "mute"             -> Muting(w, x.value)
      [] x.do = "default_preset"   -> Defaulted(w)
      [] x.do = "neutral"          -> AfterNeutral(w)
      [] x.do = "remember"         -> Remembered(w)
      [] x.do = "profile"          -> Profiled(w, x.chain)
      [] x.do = "connect"          -> AfterConnect(w, x.chain)
      [] x.do = "toolbox_set_photo" -> AfterSetPhoto(w)

Able(x, w) ==
    /\ x.do = "set" => Typed(x.field, x.value) /\ AbleSet(w, x.field, x.value)
    /\ x.do = "announce" => AbleAnnounce(w, x.bits)
    /\ x.do = "emit" => AbleEmit(w, x.bits)
    /\ x.do = "photo" => AblePhoto(w, x.bits)
    /\ x.do = "toolbox" => w.follows /\ AbleToolbox(w, x.bits)
    /\ x.do = "wb_recalculated" => AbleWb(w)
    /\ x.do = "read" => AbleRead(w, x.chain, x.bits)
    /\ x.do = "start" => w.commit < 2
    /\ x.do = "stop" => AbleStop(w)
    /\ x.do = "stopped" => w.commit > 0
    /\ x.do = "copy" => AbleCopy(w, x.from, x.bits)
    /\ x.do = "camera_if_preset" => AbleCameraIf(w)
    /\ x.do = "auto_if_preset" => AbleAutoIf(w)
    /\ x.do = "camera" => AbleCamera(w)
    /\ x.do = "neutral" => AbleNeutral(w)
    /\ x.do = "connect" => AbleConnect(w, x.chain)

\* The call x leads from u to v at least.
Ok(x, u, v) ==
    /\ x \in Calls /\ u \in World /\ v \in World
    /\ Able(x, u) /\ Below(v, After(x, u))

\* The calls s lead from u to v.
Leads(s, u, v) ==
    /\ s \in Seq(Calls)
    /\ \E way \in [1..(Len(s) + 1) -> World] :
          /\ way[1] = u /\ way[Len(s) + 1] = v
          /\ \A i \in 1..Len(s) : Ok(s[i], way[i], way[i + 1])

LEMMA LeadsWorld ==
  ASSUME NEW s, NEW u, NEW v, Leads(s, u, v)
  PROVE  u \in World /\ v \in World /\ s \in Seq(Calls)
<1>1. PICK way \in [1..(Len(s) + 1) -> World] : way[1] = u /\ way[Len(s) + 1] = v
  BY DEF Leads
<1>2. s \in Seq(Calls) /\ Len(s) \in Nat
  BY DEF Leads
<1> QED
  BY <1>1, <1>2

LEMMA LeadsNone ==
  ASSUME NEW u \in World
  PROVE  Leads(<<>>, u, u)
<1> DEFINE way == [i \in 1..1 |-> u]
<1>1. Len(<<>>) = 0 /\ <<>> \in Seq(Calls) /\ 1..Len(<<>>) = {}
  OBVIOUS
<1>2. way \in [1..(Len(<<>>) + 1) -> World] /\ way[1] = u
  BY <1>1
<1> HIDE DEF way
<1> QED
  BY <1>1, <1>2 DEF Leads

LEMMA LeadsNowhere ==
  ASSUME NEW u, NEW v, Leads(<<>>, u, v)
  PROVE  u = v
BY DEF Leads

LEMMA LeadsOne ==
  ASSUME NEW x, NEW u, NEW v, Ok(x, u, v)
  PROVE  Leads(<<x>>, u, v)
<1> DEFINE way == [i \in 1..2 |-> IF i = 1 THEN u ELSE v]
<1>1. x \in Calls /\ u \in World /\ v \in World
  BY DEF Ok
<1>2. <<x>> \in Seq(Calls) /\ Len(<<x>>) = 1 /\ <<x>>[1] = x
  BY <1>1
<1>3. way \in [1..(Len(<<x>>) + 1) -> World] /\ way[1] = u /\ way[2] = v
  BY <1>1, <1>2
<1> HIDE DEF way
<1>4. \A i \in 1..Len(<<x>>) : Ok(<<x>>[i], way[i], way[i + 1])
  BY <1>2, <1>3
<1> QED
  BY <1>2, <1>3, <1>4 DEF Leads

LEMMA LeadsOn ==
  ASSUME NEW s, NEW t, NEW u, NEW v, NEW w, Leads(s, u, v), Leads(t, v, w)
  PROVE  Leads(s \o t, u, w)
<1>1. s \in Seq(Calls) /\ t \in Seq(Calls) /\ Len(s) \in Nat /\ Len(t) \in Nat
  BY DEF Leads
<1>2. PICK a \in [1..(Len(s) + 1) -> World] :
        /\ a[1] = u /\ a[Len(s) + 1] = v
        /\ \A i \in 1..Len(s) : Ok(s[i], a[i], a[i + 1])
  BY DEF Leads
<1>3. PICK b \in [1..(Len(t) + 1) -> World] :
        /\ b[1] = v /\ b[Len(t) + 1] = w
        /\ \A i \in 1..Len(t) : Ok(t[i], b[i], b[i + 1])
  BY DEF Leads
<1> DEFINE n == Len(s)
           way == [i \in 1..(n + Len(t) + 1) |-> IF i <= n THEN a[i] ELSE b[i - n]]
<1>4. /\ s \o t \in Seq(Calls) /\ Len(s \o t) = n + Len(t)
      /\ \A i \in 1..Len(s \o t) : (s \o t)[i] = IF i <= n THEN s[i] ELSE t[i - n]
  BY <1>1
<1>5. way \in [1..(Len(s \o t) + 1) -> World]
  BY <1>1, <1>2, <1>3, <1>4
<1>6. way[1] = u /\ way[Len(s \o t) + 1] = w
  BY <1>1, <1>2, <1>3, <1>4
<1>7. ASSUME NEW i \in 1..Len(s \o t)
      PROVE  Ok((s \o t)[i], way[i], way[i + 1])
  <2>1. CASE i < n
    BY <1>1, <1>2, <1>4, <2>1
  <2>2. CASE i = n
    <3>1. way[i] = a[n] /\ way[i + 1] = b[1] /\ (s \o t)[i] = s[n] /\ n \in 1..n
      BY <1>1, <1>4, <2>2
    <3> QED
      BY <1>2, <1>3, <3>1
  <2>3. CASE i > n
    <3>1. /\ way[i] = b[i - n] /\ way[i + 1] = b[(i - n) + 1]
          /\ (s \o t)[i] = t[i - n] /\ i - n \in 1..Len(t)
      BY <1>1, <1>4, <2>3
    <3> QED
      BY <1>3, <3>1
  <2> QED
    BY <1>1, <1>4, <2>1, <2>2, <2>3
<1> HIDE DEF way
<1> QED
  BY <1>4, <1>5, <1>6, <1>7 DEF Leads

LEMMA LeadsHead ==
  ASSUME NEW s, NEW u, NEW w, Leads(s, u, w), s # <<>>
  PROVE  \E v \in World : Ok(Head(s), u, v) /\ Leads(Tail(s), v, w)
<1>1. s \in Seq(Calls) /\ Len(s) \in Nat \ {0}
  BY DEF Leads
<1>2. PICK a \in [1..(Len(s) + 1) -> World] :
        /\ a[1] = u /\ a[Len(s) + 1] = w
        /\ \A i \in 1..Len(s) : Ok(s[i], a[i], a[i + 1])
  BY DEF Leads
<1> DEFINE b == [i \in 1..Len(s) |-> a[i + 1]]
<1>3. /\ Tail(s) \in Seq(Calls) /\ Len(Tail(s)) = Len(s) - 1 /\ Head(s) = s[1]
      /\ \A i \in 1..Len(Tail(s)) : Tail(s)[i] = s[i + 1]
  BY <1>1
<1>4. /\ b \in [1..(Len(Tail(s)) + 1) -> World]
      /\ b[1] = a[2] /\ b[Len(Tail(s)) + 1] = w
  BY <1>1, <1>2, <1>3
<1>5. \A i \in 1..Len(Tail(s)) : Ok(Tail(s)[i], b[i], b[i + 1])
  BY <1>1, <1>2, <1>3
<1>6. Ok(Head(s), u, a[2]) /\ a[2] \in World
  BY <1>1, <1>2, <1>3
<1> HIDE DEF b
<1>7. Leads(Tail(s), a[2], w)
  BY <1>3, <1>4, <1>5 DEF Leads
<1> QED
  BY <1>6, <1>7

LEMMA BelowTransitive ==
  ASSUME NEW u, NEW v, NEW w, Below(u, v), Below(v, w)
  PROVE  Below(u, w)
BY DEF Below

LEMMA LeadsBelow ==
  ASSUME NEW s, NEW u, NEW w, Leads(s, u, w), s # <<>>,
         NEW v \in World, Below(v, w)
  PROVE  Leads(s, u, v)
<1>1. s \in Seq(Calls) /\ Len(s) \in Nat \ {0}
  BY DEF Leads
<1>2. PICK a \in [1..(Len(s) + 1) -> World] :
        /\ a[1] = u /\ a[Len(s) + 1] = w
        /\ \A i \in 1..Len(s) : Ok(s[i], a[i], a[i + 1])
  BY DEF Leads
<1> DEFINE n == Len(s)
           b == [a EXCEPT ![n + 1] = v]
<1>3. /\ b \in [1..(n + 1) -> World] /\ b[n + 1] = v
      /\ \A i \in 1..n : b[i] = a[i]
  BY <1>1, <1>2
<1> HIDE DEF b
<1>4. ASSUME NEW i \in 1..n PROVE Ok(s[i], b[i], b[i + 1])
  <2>1. Ok(s[i], a[i], a[i + 1]) /\ b[i] = a[i]
    BY <1>2, <1>3
  <2>2. CASE i = n
    BY <1>2, <1>3, <2>1, <2>2, BelowTransitive DEF Ok
  <2>3. CASE i < n
    BY <1>1, <1>3, <2>1, <2>3
  <2> QED
    BY <1>1, <2>2, <2>3
<1>5. b[1] = u
  BY <1>1, <1>2, <1>3
<1> QED
  BY <1>1, <1>3, <1>4, <1>5 DEF Leads

(* A call by its name: that it may be made, and what it leads to.          *)

LEMMA LeadSet ==
  ASSUME NEW w \in World, NEW f, NEW y, Typed(f, y), AbleSet(w, f, y)
  PROVE  Leads(<<Set(f, y)>>, w, AfterSet(w, f, y))
<1> DEFINE x == Set(f, y)
<1>1. AfterSet(w, f, y) \in World
  BY SetWorld
<1>2. x \in Calls /\ x.do = "set"
  BY DEF Set, Calls, Plain, Signals, Fields, Values, Typed
<1>3. Able(x, w) /\ After(x, w) = AfterSet(w, f, y)
  BY DEF Set, Able, After
<1>4. Ok(x, w, AfterSet(w, f, y))
  BY <1>1, <1>2, <1>3 DEF Ok, Below
<1> QED
  BY <1>4, LeadsOne

LEMMA LeadAnnounce ==
  ASSUME NEW w \in World, NEW bits \in SUBSET AllBits, AbleAnnounce(w, bits)
  PROVE  Leads(<<Tell("announce", bits)>>, w, AfterAnnounce(w, bits))
<1> DEFINE x == Tell("announce", bits)
<1>1. AfterAnnounce(w, bits) \in World
  BY AnnounceWorld
<1>2. x \in Calls /\ x.do = "announce"
  BY DEF Tell, Calls, Plain, Signals, Fields, Values
<1>3. Able(x, w) /\ After(x, w) = AfterAnnounce(w, bits)
  BY DEF Tell, Able, After
<1>4. Ok(x, w, AfterAnnounce(w, bits))
  BY <1>1, <1>2, <1>3 DEF Ok, Below
<1> QED
  BY <1>4, LeadsOne

LEMMA LeadEmit ==
  ASSUME NEW w \in World, NEW bits \in SUBSET AllBits, AbleEmit(w, bits)
  PROVE  Leads(<<Tell("emit", bits)>>, w, AfterEmit(w, bits))
<1> DEFINE x == Tell("emit", bits)
<1>1. AfterEmit(w, bits) \in World
  BY EmitWorld
<1>2. x \in Calls /\ x.do = "emit"
  BY DEF Tell, Calls, Plain, Signals, Fields, Values
<1>3. Able(x, w) /\ After(x, w) = AfterEmit(w, bits)
  BY DEF Tell, Able, After
<1>4. Ok(x, w, AfterEmit(w, bits))
  BY <1>1, <1>2, <1>3 DEF Ok, Below
<1> QED
  BY <1>4, LeadsOne

LEMMA LeadPhoto ==
  ASSUME NEW w \in World, NEW bits \in SUBSET AllBits, AblePhoto(w, bits)
  PROVE  Leads(<<Tell("photo", bits)>>, w, AfterPhoto(w, bits))
<1> DEFINE x == Tell("photo", bits)
<1>1. AfterPhoto(w, bits) \in World
  BY PhotoWorld
<1>2. x \in Calls /\ x.do = "photo"
  BY DEF Tell, Calls, Plain, Signals, Fields, Values
<1>3. Able(x, w) /\ After(x, w) = AfterPhoto(w, bits)
  BY DEF Tell, Able, After
<1>4. Ok(x, w, AfterPhoto(w, bits))
  BY <1>1, <1>2, <1>3 DEF Ok, Below
<1> QED
  BY <1>4, LeadsOne

LEMMA LeadToolbox ==
  ASSUME NEW w \in World, NEW bits \in SUBSET AllBits, w.follows, AbleToolbox(w, bits)
  PROVE  Leads(<<Tell("toolbox", bits)>>, w, AfterToolbox(w, bits))
<1> DEFINE x == Tell("toolbox", bits)
<1>1. AfterToolbox(w, bits) \in World
  BY ToolboxWorld
<1>2. x \in Calls /\ x.do = "toolbox"
  BY DEF Tell, Calls, Plain, Signals, Fields, Values
<1>3. Able(x, w) /\ After(x, w) = AfterToolbox(w, bits)
  BY DEF Tell, Able, After
<1>4. Ok(x, w, AfterToolbox(w, bits))
  BY <1>1, <1>2, <1>3 DEF Ok, Below
<1> QED
  BY <1>4, LeadsOne

LEMMA LeadWb ==
  ASSUME NEW w \in World, AbleWb(w)
  PROVE  Leads(<<Call("wb_recalculated")>>, w, AfterWb(w))
<1> DEFINE x == Call("wb_recalculated")
<1>1. AfterWb(w) \in World
  BY WbWorld
<1>2. x \in Calls /\ x.do = "wb_recalculated"
  BY DEF Call, Calls, Plain, Signals, Fields, Values
<1>3. Able(x, w) /\ After(x, w) = AfterWb(w)
  BY DEF Call, Able, After
<1>4. Ok(x, w, AfterWb(w))
  BY <1>1, <1>2, <1>3 DEF Ok, Below
<1> QED
  BY <1>4, LeadsOne

LEMMA LeadRead ==
  ASSUME NEW w \in World, NEW c \in Chains, NEW bits \in SUBSET AllBits, AbleRead(w, c, bits)
  PROVE  Leads(<<Read(c, bits)>>, w, AfterRead(w, c, bits))
<1> DEFINE x == Read(c, bits)
<1>1. AfterRead(w, c, bits) \in World
  BY ReadIs
<1>2. x \in Calls /\ x.do = "read"
  BY DEF Read, Calls, Plain, Signals, Fields, Values
<1>3. Able(x, w) /\ After(x, w) = AfterRead(w, c, bits)
  BY DEF Read, Able, After
<1>4. Ok(x, w, AfterRead(w, c, bits))
  BY <1>1, <1>2, <1>3 DEF Ok, Below
<1> QED
  BY <1>4, LeadsOne

LEMMA LeadStart ==
  ASSUME NEW w \in World, w.commit < 2
  PROVE  Leads(<<Call("start")>>, w, Started(w))
<1> DEFINE x == Call("start")
<1>1. Started(w) \in World
  BY StartedIs
<1>2. x \in Calls /\ x.do = "start"
  BY DEF Call, Calls, Plain, Signals, Fields, Values
<1>3. Able(x, w) /\ After(x, w) = Started(w)
  BY DEF Call, Able, After
<1>4. Ok(x, w, Started(w))
  BY <1>1, <1>2, <1>3 DEF Ok, Below
<1> QED
  BY <1>4, LeadsOne

LEMMA LeadStop ==
  ASSUME NEW w \in World, AbleStop(w)
  PROVE  Leads(<<Call("stop")>>, w, AfterStop(w))
<1> DEFINE x == Call("stop")
<1>1. AfterStop(w) \in World
  BY StopWorld DEF AbleStop
<1>2. x \in Calls /\ x.do = "stop"
  BY DEF Call, Calls, Plain, Signals, Fields, Values
<1>3. Able(x, w) /\ After(x, w) = AfterStop(w)
  BY DEF Call, Able, After
<1>4. Ok(x, w, AfterStop(w))
  BY <1>1, <1>2, <1>3 DEF Ok, Below
<1> QED
  BY <1>4, LeadsOne

LEMMA LeadStopped ==
  ASSUME NEW w \in World, w.commit > 0
  PROVE  Leads(<<Call("stopped")>>, w, Stopped(w))
<1> DEFINE x == Call("stopped")
<1>1. Stopped(w) \in World
  BY StoppedIs
<1>2. x \in Calls /\ x.do = "stopped"
  BY DEF Call, Calls, Plain, Signals, Fields, Values
<1>3. Able(x, w) /\ After(x, w) = Stopped(w)
  BY DEF Call, Able, After
<1>4. Ok(x, w, Stopped(w))
  BY <1>1, <1>2, <1>3 DEF Ok, Below
<1> QED
  BY <1>4, LeadsOne

LEMMA LeadCopy ==
  ASSUME NEW w \in World, NEW from \in SettingsType, NEW bits \in SUBSET AllBits,
         AbleCopy(w, from, bits)
  PROVE  Leads(<<CopyOf(from, bits)>>, w, AfterCopy(w, from, bits))
<1> DEFINE x == CopyOf(from, bits)
<1>1. AfterCopy(w, from, bits) \in World
  BY CopyWorld
<1>2. x \in Calls /\ x.do = "copy"
  BY DEF CopyOf, Calls, Plain, Signals, Fields, Values
<1>3. Able(x, w) /\ After(x, w) = AfterCopy(w, from, bits)
  BY DEF CopyOf, Able, After
<1>4. Ok(x, w, AfterCopy(w, from, bits))
  BY <1>1, <1>2, <1>3 DEF Ok, Below
<1> QED
  BY <1>4, LeadsOne

LEMMA LeadCameraIf ==
  ASSUME NEW w \in World, AbleCameraIf(w)
  PROVE  Leads(<<Call("camera_if_preset")>>, w, CameraIf(w))
<1> DEFINE x == Call("camera_if_preset")
<1>1. CameraIf(w) \in World
  BY CameraWorld DEF CameraIf, AbleCameraIf
<1>2. x \in Calls /\ x.do = "camera_if_preset"
  BY DEF Call, CameraIf, AbleCameraIf, Calls, Plain, Signals, Fields, Values
<1>3. Able(x, w) /\ After(x, w) = CameraIf(w)
  BY DEF Call, CameraIf, AbleCameraIf, Able, After
<1>4. Ok(x, w, CameraIf(w))
  BY <1>1, <1>2, <1>3 DEF Ok, Below
<1> QED
  BY <1>4, LeadsOne

LEMMA LeadAutoIf ==
  ASSUME NEW w \in World, AbleAutoIf(w)
  PROVE  Leads(<<Call("auto_if_preset")>>, w, AutoIf(w))
<1> DEFINE x == Call("auto_if_preset")
<1>1. AutoIf(w) \in World
  BY SetWbWorld DEF AutoIf, AbleAutoIf, AbleSetWb, Warmths, Presets
<1>2. x \in Calls /\ x.do = "auto_if_preset"
  BY DEF Call, AutoIf, AbleAutoIf, Calls, Plain, Signals, Fields, Values
<1>3. Able(x, w) /\ After(x, w) = AutoIf(w)
  BY DEF Call, AutoIf, AbleAutoIf, Able, After
<1>4. Ok(x, w, AutoIf(w))
  BY <1>1, <1>2, <1>3 DEF Ok, Below
<1> QED
  BY <1>4, LeadsOne

LEMMA LeadCamera ==
  ASSUME NEW w \in World, AbleCamera(w)
  PROVE  Leads(<<Call("camera")>>, w, AfterCamera(w))
<1> DEFINE x == Call("camera")
<1>1. AfterCamera(w) \in World
  BY CameraWorld
<1>2. x \in Calls /\ x.do = "camera"
  BY DEF Call, Calls, Plain, Signals, Fields, Values
<1>3. Able(x, w) /\ After(x, w) = AfterCamera(w)
  BY DEF Call, Able, After
<1>4. Ok(x, w, AfterCamera(w))
  BY <1>1, <1>2, <1>3 DEF Ok, Below
<1> QED
  BY <1>4, LeadsOne

LEMMA LeadMute ==
  ASSUME NEW w \in World, NEW b \in BOOLEAN
  PROVE  Leads(<<Mute(b)>>, w, Muting(w, b))
<1> DEFINE x == Mute(b)
<1>1. Muting(w, b) \in World
  BY MutingIs
<1>2. x \in Calls /\ x.do = "mute"
  BY DEF Mute, Calls, Plain, Signals, Fields, Values
<1>3. Able(x, w) /\ After(x, w) = Muting(w, b)
  BY DEF Mute, Able, After
<1>4. Ok(x, w, Muting(w, b))
  BY <1>1, <1>2, <1>3 DEF Ok, Below
<1> QED
  BY <1>4, LeadsOne

LEMMA LeadDefault ==
  ASSUME NEW w \in World
  PROVE  Leads(<<Call("default_preset")>>, w, Defaulted(w))
<1> DEFINE x == Call("default_preset")
<1>1. Defaulted(w) \in World
  BY DefaultedIs
<1>2. x \in Calls /\ x.do = "default_preset"
  BY DEF Call, Calls, Plain, Signals, Fields, Values
<1>3. Able(x, w) /\ After(x, w) = Defaulted(w)
  BY DEF Call, Able, After
<1>4. Ok(x, w, Defaulted(w))
  BY <1>1, <1>2, <1>3 DEF Ok, Below
<1> QED
  BY <1>4, LeadsOne

LEMMA LeadNeutral ==
  ASSUME NEW w \in World, AbleNeutral(w)
  PROVE  Leads(<<Call("neutral")>>, w, AfterNeutral(w))
<1> DEFINE x == Call("neutral")
<1>1. AfterNeutral(w) \in World
  BY NeutralWorld
<1>2. x \in Calls /\ x.do = "neutral"
  BY DEF Call, Calls, Plain, Signals, Fields, Values
<1>3. Able(x, w) /\ After(x, w) = AfterNeutral(w)
  BY DEF Call, Able, After
<1>4. Ok(x, w, AfterNeutral(w))
  BY <1>1, <1>2, <1>3 DEF Ok, Below
<1> QED
  BY <1>4, LeadsOne

LEMMA LeadRemember ==
  ASSUME NEW w \in World
  PROVE  Leads(<<Call("remember")>>, w, Remembered(w))
<1> DEFINE x == Call("remember")
<1>1. Remembered(w) \in World
  BY RememberedIs
<1>2. x \in Calls /\ x.do = "remember"
  BY DEF Call, Calls, Plain, Signals, Fields, Values
<1>3. Able(x, w) /\ After(x, w) = Remembered(w)
  BY DEF Call, Able, After
<1>4. Ok(x, w, Remembered(w))
  BY <1>1, <1>2, <1>3 DEF Ok, Below
<1> QED
  BY <1>4, LeadsOne

LEMMA LeadProfile ==
  ASSUME NEW w \in World, NEW c \in Chains
  PROVE  Leads(<<OnChain("profile", c)>>, w, Profiled(w, c))
<1> DEFINE x == OnChain("profile", c)
<1>1. Profiled(w, c) \in World
  BY ProfiledIs
<1>2. x \in Calls /\ x.do = "profile"
  BY DEF OnChain, Calls, Plain, Signals, Fields, Values
<1>3. Able(x, w) /\ After(x, w) = Profiled(w, c)
  BY DEF OnChain, Able, After
<1>4. Ok(x, w, Profiled(w, c))
  BY <1>1, <1>2, <1>3 DEF Ok, Below
<1> QED
  BY <1>4, LeadsOne

LEMMA LeadConnect ==
  ASSUME NEW w \in World, NEW c \in Chains, AbleConnect(w, c)
  PROVE  Leads(<<OnChain("connect", c)>>, w, AfterConnect(w, c))
<1> DEFINE x == OnChain("connect", c)
<1>1. AfterConnect(w, c) \in World
  BY ConnectWorld
<1>2. x \in Calls /\ x.do = "connect"
  BY DEF OnChain, Calls, Plain, Signals, Fields, Values
<1>3. Able(x, w) /\ After(x, w) = AfterConnect(w, c)
  BY DEF OnChain, Able, After
<1>4. Ok(x, w, AfterConnect(w, c))
  BY <1>1, <1>2, <1>3 DEF Ok, Below
<1> QED
  BY <1>4, LeadsOne

LEMMA LeadSetPhoto ==
  ASSUME NEW w \in World
  PROVE  Leads(<<Call("toolbox_set_photo")>>, w, AfterSetPhoto(w))
<1> DEFINE x == Call("toolbox_set_photo")
<1>1. AfterSetPhoto(w) \in World
  BY SetPhotoIs
<1>2. x \in Calls /\ x.do = "toolbox_set_photo"
  BY DEF Call, Calls, Plain, Signals, Fields, Values
<1>3. Able(x, w) /\ After(x, w) = AfterSetPhoto(w)
  BY DEF Call, Able, After
<1>4. Ok(x, w, AfterSetPhoto(w))
  BY <1>1, <1>2, <1>3 DEF Ok, Below
<1> QED
  BY <1>4, LeadsOne

(* What a call that leads somewhere is.                                    *)

LEMMA SetOk ==
  ASSUME NEW x, NEW w, NEW v, Ok(x, w, v), x.do = "set"
  PROVE  /\ w \in World /\ v \in World
         /\ Typed(x.field, x.value)
         /\ AbleSet(w, x.field, x.value)
         /\ Below(v, AfterSet(w, x.field, x.value))
BY DEF Ok, Able, After

LEMMA AnnounceOk ==
  ASSUME NEW x, NEW w, NEW v, Ok(x, w, v), x.do = "announce"
  PROVE  /\ w \in World /\ v \in World
         /\ x.bits \in SUBSET AllBits
         /\ AbleAnnounce(w, x.bits)
         /\ Below(v, AfterAnnounce(w, x.bits))
<1>1. x.bits \in SUBSET AllBits
  BY DEF Ok, Calls, Plain, Signals, Fields, Values
<1> QED
  BY <1>1 DEF Ok, Able, After

LEMMA EmitOk ==
  ASSUME NEW x, NEW w, NEW v, Ok(x, w, v), x.do = "emit"
  PROVE  /\ w \in World /\ v \in World
         /\ x.bits \in SUBSET AllBits
         /\ AbleEmit(w, x.bits)
         /\ Below(v, AfterEmit(w, x.bits))
<1>1. x.bits \in SUBSET AllBits
  BY DEF Ok, Calls, Plain, Signals, Fields, Values
<1> QED
  BY <1>1 DEF Ok, Able, After

LEMMA PhotoOk ==
  ASSUME NEW x, NEW w, NEW v, Ok(x, w, v), x.do = "photo"
  PROVE  /\ w \in World /\ v \in World
         /\ x.bits \in SUBSET AllBits
         /\ AblePhoto(w, x.bits)
         /\ Below(v, AfterPhoto(w, x.bits))
<1>1. x.bits \in SUBSET AllBits
  BY DEF Ok, Calls, Plain, Signals, Fields, Values
<1> QED
  BY <1>1 DEF Ok, Able, After

LEMMA ToolboxOk ==
  ASSUME NEW x, NEW w, NEW v, Ok(x, w, v), x.do = "toolbox"
  PROVE  /\ w \in World /\ v \in World
         /\ x.bits \in SUBSET AllBits
         /\ w.follows
         /\ AbleToolbox(w, x.bits)
         /\ Below(v, AfterToolbox(w, x.bits))
<1>1. x.bits \in SUBSET AllBits
  BY DEF Ok, Calls, Plain, Signals, Fields, Values
<1> QED
  BY <1>1 DEF Ok, Able, After

LEMMA WbOk ==
  ASSUME NEW x, NEW w, NEW v, Ok(x, w, v), x.do = "wb_recalculated"
  PROVE  /\ w \in World /\ v \in World
         /\ AbleWb(w)
         /\ Below(v, AfterWb(w))
BY DEF Ok, Able, After

LEMMA ReadOk ==
  ASSUME NEW x, NEW w, NEW v, Ok(x, w, v), x.do = "read"
  PROVE  /\ w \in World /\ v \in World
         /\ x.chain \in Chains
         /\ x.bits \in SUBSET AllBits
         /\ AbleRead(w, x.chain, x.bits)
         /\ Below(v, AfterRead(w, x.chain, x.bits))
<1>1. x.chain \in Chains /\ x.bits \in SUBSET AllBits
  BY DEF Ok, Calls, Plain, Signals, Fields, Values
<1> QED
  BY <1>1 DEF Ok, Able, After

LEMMA StartOk ==
  ASSUME NEW x, NEW w, NEW v, Ok(x, w, v), x.do = "start"
  PROVE  /\ w \in World /\ v \in World
         /\ w.commit < 2
         /\ Below(v, Started(w))
BY DEF Ok, Able, After

LEMMA StopOk ==
  ASSUME NEW x, NEW w, NEW v, Ok(x, w, v), x.do = "stop"
  PROVE  /\ w \in World /\ v \in World
         /\ AbleStop(w)
         /\ Below(v, AfterStop(w))
BY DEF Ok, Able, After

LEMMA StoppedOk ==
  ASSUME NEW x, NEW w, NEW v, Ok(x, w, v), x.do = "stopped"
  PROVE  /\ w \in World /\ v \in World
         /\ w.commit > 0
         /\ Below(v, Stopped(w))
BY DEF Ok, Able, After

LEMMA CopyOk ==
  ASSUME NEW x, NEW w, NEW v, Ok(x, w, v), x.do = "copy"
  PROVE  /\ w \in World /\ v \in World
         /\ x.from \in SettingsType
         /\ x.bits \in SUBSET AllBits
         /\ AbleCopy(w, x.from, x.bits)
         /\ Below(v, AfterCopy(w, x.from, x.bits))
<1>1. x.from \in SettingsType /\ x.bits \in SUBSET AllBits
  BY DEF Ok, Calls, Plain, Signals, Fields, Values
<1> QED
  BY <1>1 DEF Ok, Able, After

LEMMA CameraIfOk ==
  ASSUME NEW x, NEW w, NEW v, Ok(x, w, v), x.do = "camera_if_preset"
  PROVE  /\ w \in World /\ v \in World
         /\ AbleCameraIf(w) /\ Below(v, CameraIf(w))
BY DEF Ok, Able, After

LEMMA AutoIfOk ==
  ASSUME NEW x, NEW w, NEW v, Ok(x, w, v), x.do = "auto_if_preset"
  PROVE  /\ w \in World /\ v \in World
         /\ AbleAutoIf(w) /\ Below(v, AutoIf(w))
BY DEF Ok, Able, After

LEMMA CameraOk ==
  ASSUME NEW x, NEW w, NEW v, Ok(x, w, v), x.do = "camera"
  PROVE  /\ w \in World /\ v \in World
         /\ AbleCamera(w)
         /\ Below(v, AfterCamera(w))
BY DEF Ok, Able, After

LEMMA MuteOk ==
  ASSUME NEW x, NEW w, NEW v, Ok(x, w, v), x.do = "mute"
  PROVE  /\ w \in World /\ v \in World
         /\ x.value \in BOOLEAN
         /\ Below(v, Muting(w, x.value))
<1>1. x.value \in BOOLEAN
  BY DEF Ok, Calls, Plain, Signals, Fields, Values
<1> QED
  BY <1>1 DEF Ok, Able, After

LEMMA DefaultOk ==
  ASSUME NEW x, NEW w, NEW v, Ok(x, w, v), x.do = "default_preset"
  PROVE  /\ w \in World /\ v \in World
         /\ Below(v, Defaulted(w))
BY DEF Ok, Able, After

LEMMA NeutralOk ==
  ASSUME NEW x, NEW w, NEW v, Ok(x, w, v), x.do = "neutral"
  PROVE  /\ w \in World /\ v \in World
         /\ AbleNeutral(w)
         /\ Below(v, AfterNeutral(w))
BY DEF Ok, Able, After

LEMMA RememberOk ==
  ASSUME NEW x, NEW w, NEW v, Ok(x, w, v), x.do = "remember"
  PROVE  /\ w \in World /\ v \in World
         /\ Below(v, Remembered(w))
BY DEF Ok, Able, After

LEMMA ProfileOk ==
  ASSUME NEW x, NEW w, NEW v, Ok(x, w, v), x.do = "profile"
  PROVE  /\ w \in World /\ v \in World
         /\ x.chain \in Chains
         /\ Below(v, Profiled(w, x.chain))
<1>1. x.chain \in Chains
  BY DEF Ok, Calls, Plain, Signals, Fields, Values
<1> QED
  BY <1>1 DEF Ok, Able, After

LEMMA ConnectOk ==
  ASSUME NEW x, NEW w, NEW v, Ok(x, w, v), x.do = "connect"
  PROVE  /\ w \in World /\ v \in World
         /\ x.chain \in Chains
         /\ AbleConnect(w, x.chain)
         /\ Below(v, AfterConnect(w, x.chain))
<1>1. x.chain \in Chains
  BY DEF Ok, Calls, Plain, Signals, Fields, Values
<1> QED
  BY <1>1 DEF Ok, Able, After

LEMMA SetPhotoOk ==
  ASSUME NEW x, NEW w, NEW v, Ok(x, w, v), x.do = "toolbox_set_photo"
  PROVE  /\ w \in World /\ v \in World
         /\ Below(v, AfterSetPhoto(w))
BY DEF Ok, Able, After

-----------------------------------------------------------------------------
(* Each call does what its contract says.                                  *)

held == <<kind, settings, todo, commit, linked, follows, mute, chain, profile,
          choice, tool, unseen, opened>>

RestType ==
    /\ tool \in [exposure : Exposures, temp : Temps, switch : BOOLEAN]
    /\ chain \in [Chains -> [profile : Choices, exposure : Exposures,
                             temp : Temps, warmth : Warmths]]
    /\ buffer \in [settings : SettingsType, profile : Choices]
    /\ ops \in 0..MaxOps
    /\ want \in [exposure : Exposures, temp : Temps]
    /\ late \in BOOLEAN

\* The calls put in front of the rest lead to v from what the state is now.
Moves(v) ==
    \E now \in Seq(Calls), u \in World :
        Holds(u)' /\ Leads(now, u, v) /\ agenda' = now \o Tail(agenda)

LEMMA HoldsBelow ==
  ASSUME NEW v, NEW w, Holds(w)', Below(v, w)
  PROVE  Holds(v)'
BY DEF Holds, Below

LEMMA HoldsStill ==
  ASSUME NEW w, Holds(w), UNCHANGED held
  PROVE  Holds(w)'
BY DEF Holds, held

LEMMA MovesNone ==
  ASSUME NEW v \in World, Holds(v)', agenda' = <<>> \o Tail(agenda)
  PROVE  Moves(v)
<1>1. <<>> \in Seq(Calls) /\ Leads(<<>>, v, v)
  BY LeadsNone
<1> QED
  BY <1>1 DEF Moves

LEMMA MovesOn ==
  ASSUME NEW now, NEW u, NEW r, NEW v \in World, Holds(u)', Leads(now, u, r),
         now # <<>>, Below(v, r), agenda' = now \o Tail(agenda)
  PROVE  Moves(v)
<1>1. Leads(now, u, v) /\ now \in Seq(Calls) /\ u \in World
  BY LeadsBelow, LeadsWorld
<1> QED
  BY <1>1 DEF Moves

LEMMA MapOne ==
  ASSUME NEW a, NEW bits
  PROVE  [i \in DOMAIN <<a>> |-> Read(<<a>>[i], bits)] = <<Read(a, bits)>>
<1>1. DOMAIN <<a>> = 1..1
  OBVIOUS
<1> QED
  BY <1>1

LEMMA JoinTwo ==
  ASSUME NEW S, NEW x \in S, NEW y \in S
  PROVE  <<x>> \o <<y>> = <<x, y>>
<1>1. /\ <<x>> \in Seq(S) /\ <<y>> \in Seq(S) /\ <<x, y>> \in Seq(S)
      /\ <<x>> \o <<y>> \in Seq(S)
  OBVIOUS
<1>2. Len(<<x>> \o <<y>>) = 2 /\ Len(<<x, y>>) = 2
  OBVIOUS
<1>3. (<<x>> \o <<y>>)[1] = x /\ (<<x>> \o <<y>>)[2] = y
  OBVIOUS
<1>4. \A i \in 1..2 : (<<x>> \o <<y>>)[i] = <<x, y>>[i]
  BY <1>3
<1> QED
  BY <1>1, <1>2, <1>4, SeqEqual

LEMMA JoinThree ==
  ASSUME NEW S, NEW x \in S, NEW y \in S, NEW z \in S
  PROVE  (<<x>> \o <<y>>) \o <<z>> = <<x, y, z>>
<1> DEFINE a == <<x>> \o <<y>>
           b == <<x, y, z>>
<1>1. a = <<x, y>> /\ a \in Seq(S) /\ Len(a) = 2
  BY JoinTwo
<1>2. a[1] = x /\ a[2] = y
  BY <1>1
<1>3. b \in Seq(S) /\ Len(b) = 3 /\ b[1] = x /\ b[2] = y /\ b[3] = z
  OBVIOUS
<1> HIDE DEF a, b
<1>4. <<z>> \in Seq(S) /\ a \o <<z>> \in Seq(S) /\ Len(a \o <<z>>) = 3
  BY <1>1
<1>5. (a \o <<z>>)[1] = x /\ (a \o <<z>>)[2] = y /\ (a \o <<z>>)[3] = z
  BY <1>1, <1>2
<1>6. ASSUME NEW i \in 1..3 PROVE (a \o <<z>>)[i] = b[i]
  <2>1. i = 1 \/ i = 2 \/ i = 3
    OBVIOUS
  <2> QED
    BY <1>3, <1>5, <2>1
<1>7. a \o <<z>> = b
  BY <1>3, <1>4, <1>6, SeqEqual
<1> QED
  BY <1>7 DEF a, b

LEMMA MapTwo ==
  ASSUME NEW a, NEW b, NEW bits
  PROVE  [i \in DOMAIN <<a, b>> |-> Read(<<a, b>>[i], bits)]
            = <<Read(a, bits)>> \o <<Read(b, bits)>>
<1> DEFINE x == Read(a, bits)
           y == Read(b, bits)
           m == [i \in DOMAIN <<a, b>> |-> Read(<<a, b>>[i], bits)]
<1>1. DOMAIN <<a, b>> = 1..2
  OBVIOUS
<1>2. m = [i \in 1..2 |-> IF i = 1 THEN x ELSE y]
  BY <1>1
<1> HIDE DEF x, y, m
<1>3. m = <<x, y>>
  BY <1>2
<1>4. <<x, y>> = <<x>> \o <<y>>
  <2> DEFINE S == {x, y}
  <2>1. x \in S /\ y \in S
    OBVIOUS
  <2> HIDE DEF S
  <2> QED
    BY <2>1, JoinTwo
<1> QED
  BY <1>3, <1>4 DEF x, y, m

LEMMA MapThree ==
  ASSUME NEW a, NEW b, NEW c, NEW bits
  PROVE  [i \in DOMAIN <<a, b, c>> |-> Read(<<a, b, c>>[i], bits)]
            = (<<Read(a, bits)>> \o <<Read(b, bits)>>) \o <<Read(c, bits)>>
<1> DEFINE x == Read(a, bits)
           y == Read(b, bits)
           z == Read(c, bits)
           m == [i \in DOMAIN <<a, b, c>> |-> Read(<<a, b, c>>[i], bits)]
<1>1. DOMAIN <<a, b, c>> = 1..3
  OBVIOUS
<1>2. m = [i \in 1..3 |-> IF i = 1 THEN x ELSE IF i = 2 THEN y ELSE z]
  BY <1>1
<1> HIDE DEF x, y, z, m
<1>3. m = <<x, y, z>>
  BY <1>2
<1>4. <<x, y, z>> = (<<x>> \o <<y>>) \o <<z>>
  <2> DEFINE S == {x, y, z}
  <2>1. x \in S /\ y \in S /\ z \in S
    OBVIOUS
  <2> HIDE DEF S
  <2> QED
    BY <2>1, JoinThree
<1> QED
  BY <1>3, <1>4 DEF x, y, z, m

LEMMA LeadReads ==
  ASSUME NEW w \in World, NEW bits \in SUBSET AllBits, AbleReads(w, bits)
  PROVE  Leads([i \in DOMAIN InOrder(w.link) |-> Read(InOrder(w.link)[i], bits)],
               w, AfterReads(w, bits))
<1> DEFINE a == ReadBy(w, "loupe", bits)
           b == ReadBy(a, "navigator", bits)
           d == ReadBy(b, "view", bits)
           s == [i \in DOMAIN InOrder(w.link) |-> Read(InOrder(w.link)[i], bits)]
<1>0. ASSUME NEW u, NEW c, c \notin u.link
      PROVE  ReadBy(u, c, bits) = u
  BY <1>0 DEF ReadBy
<1>1. "loupe" \in Chains /\ "navigator" \in Chains /\ "view" \in Chains
  BY DEF Chains
<1>2. a \in World /\ a.link = w.link
  BY <1>1, ByWorld DEF Framed, Placed
<1>3. b \in World /\ b.link = w.link
  BY <1>1, <1>2, ByWorld DEF Framed, Placed
<1>4. AfterReads(w, bits) = d
  BY DEF AfterReads
<1>5. "loupe" \in w.link => Leads(<<Read("loupe", bits)>>, w, a)
  BY <1>1, LeadRead DEF AbleReads, AbleBy, ReadBy
<1>6. "navigator" \in w.link => Leads(<<Read("navigator", bits)>>, a, b)
  BY <1>1, <1>2, LeadRead DEF AbleReads, AbleBy, ReadBy
<1>7. "view" \in w.link => Leads(<<Read("view", bits)>>, b, d)
  BY <1>1, <1>3, LeadRead DEF AbleReads, AbleBy, ReadBy
<1>8. CASE w.link = {}
  <2>1. s = <<>> /\ d = w
    BY <1>8 DEF InOrder, ReadBy
  <2> QED
    BY <1>4, <2>1, LeadsNone
<1>9. CASE w.link = {"loupe"}
  <2>1. d = a
    BY <1>0, <1>2, <1>9
  <2>2. InOrder(w.link) = <<"loupe">>
    BY <1>9 DEF InOrder
  <2>3. s = <<Read("loupe", bits)>>
    BY <2>2, MapOne
  <2> QED
    BY <1>4, <1>5, <1>9, <2>1, <2>3
<1>10. CASE w.link = {"loupe", "navigator"}
  <2>1. d = b
    BY <1>3, <1>10 DEF ReadBy
  <2>2. InOrder(w.link) = <<"loupe", "navigator">>
    BY <1>10 DEF InOrder
  <2>3. s = <<Read("loupe", bits)>> \o <<Read("navigator", bits)>>
    BY <2>2, MapTwo
  <2>4. Leads(<<Read("loupe", bits)>> \o <<Read("navigator", bits)>>, w, b)
    BY <1>5, <1>6, <1>10, LeadsOn
  <2> QED
    BY <1>4, <2>1, <2>3, <2>4
<1>11. CASE w.link = Chains
  <2>1. InOrder(w.link) = <<"loupe", "navigator", "view">>
    <3>1. Chains # {} /\ Chains # {"loupe"} /\ Chains # {"loupe", "navigator"}
      BY DEF Chains
    <3> QED
      BY <1>11, <3>1 DEF InOrder
  <2>2. s = (<<Read("loupe", bits)>> \o <<Read("navigator", bits)>>)
             \o <<Read("view", bits)>>
    <3> DEFINE q == <<"loupe", "navigator", "view">>
               m == (<<Read("loupe", bits)>> \o <<Read("navigator", bits)>>)
                    \o <<Read("view", bits)>>
    <3>1. [i \in DOMAIN q |-> Read(q[i], bits)] = m
      BY MapThree
    <3> HIDE DEF q, m
    <3>2. s = m
      BY <2>1, <3>1 DEF q
    <3> QED
      BY <3>2 DEF m
  <2>3. Leads(<<Read("loupe", bits)>> \o <<Read("navigator", bits)>>, w, b)
    <3>1. Leads(<<Read("loupe", bits)>>, w, a) /\ Leads(<<Read("navigator", bits)>>, a, b)
      BY <1>1, <1>5, <1>6, <1>11
    <3> HIDE DEF a, b
    <3> QED
      BY <3>1, LeadsOn
  <2>4. Leads((<<Read("loupe", bits)>> \o <<Read("navigator", bits)>>)
                \o <<Read("view", bits)>>, w, d)
    <3>1. Leads(<<Read("view", bits)>>, b, d)
      BY <1>1, <1>7, <1>11
    <3> HIDE DEF a, b, d
    <3> QED
      BY <2>3, <3>1, LeadsOn
  <2> QED
    BY <1>4, <2>2, <2>4
<1> QED
  BY <1>8, <1>9, <1>10, <1>11, WorldHas DEF Links

LEMMA MovesTo ==
  ASSUME NEW u, NEW v \in World, Holds(u)', Below(v, u),
         agenda' = <<>> \o Tail(agenda)
  PROVE  Moves(v)
BY HoldsBelow, MovesNone

\* What the state says of a world that holds.
LEMMA HoldsIs ==
  ASSUME NEW w, Holds(w)
  PROVE  /\ w.kind = kind /\ w.set = settings /\ w.todo = todo /\ w.commit = commit
         /\ linked = InOrder(w.link) /\ w.follows = follows /\ w.mute = mute
         /\ w.prof = [c \in Chains |-> chain[c].profile]
         /\ w.profile = profile /\ w.choice = choice
         /\ w.switch = tool.switch /\ w.unseen = unseen /\ w.opened = opened
BY DEF Holds

(* SetProperty. *)
LEMMA StoredHolds ==
  ASSUME NEW w \in World, Holds(w), NEW f, NEW x, Typed(f, x),
         settings' = [settings EXCEPT ![f] = x],
         UNCHANGED <<photoVars, commit, todo, signalVars, userVars, unseen>>
  PROVE  Holds(Stored(w, f, x))'
<1>1. /\ Stored(w, f, x) \in World /\ Framed(Stored(w, f, x), w)
      /\ Stored(w, f, x).set = [w.set EXCEPT ![f] = x]
      /\ Stored(w, f, x).todo = w.todo /\ Stored(w, f, x).choice = w.choice
      /\ Stored(w, f, x).switch = w.switch /\ Stored(w, f, x).unseen = w.unseen
      /\ Stored(w, f, x).exposure = IF f = "exposure" THEN {} ELSE w.exposure
      /\ Stored(w, f, x).wb = IF f \in {"warmth", "temp"} THEN {} ELSE w.wb
      /\ RaisedBy(f, x) \in SUBSET AllBits
  BY StoredIs
<1>2. settings \in SettingsType
  BY WorldHas DEF Holds
<1>3. /\ f # "exposure" => settings'.exposure = settings.exposure
      /\ f \notin {"warmth", "temp"} => /\ settings'.warmth = settings.warmth
                                        /\ settings'.temp = settings.temp
  BY <1>2 DEF SettingsType
<1> DEFINE u == Stored(w, f, x)
<1> HIDE DEF u
<1> QED
  BY <1>1, <1>3 DEF Holds, Framed, Placed, photoVars, signalVars, userVars, u

LEMMA StepSet ==
  ASSUME NEW w, NEW v, Holds(w), Ok(Head(agenda), w, v), At("set"), SetProperty
  PROVE  Moves(v)
<1>0. PICK f, x : f = Head(agenda).field /\ x = Head(agenda).value
  OBVIOUS
<1> DEFINE u == Stored(w, f, x)
<1>1. /\ w \in World /\ v \in World /\ Typed(f, x) /\ AbleSet(w, f, x)
      /\ Below(v, AfterSet(w, f, x))
  BY <1>0, SetOk DEF At
<1>2. settings \in SettingsType /\ w.set = settings
  BY <1>1, WorldHas DEF Holds
<1>3. /\ settings' = [settings EXCEPT ![f] = x]
      /\ UNCHANGED <<photoVars, commit, todo, signalVars, userVars, unseen>>
      /\ agenda' = (IF Same(w, f, x) THEN <<>>
                    ELSE (IF f \in {"warmth", "temp"}
                          THEN <<Set("preset", None)>> ELSE <<>>)
                         \o <<Tell("announce", RaisedBy(f, x))>>) \o Tail(agenda)
  BY <1>0, <1>2 DEF SetProperty, Continue, Same
<1>4. u \in World /\ Holds(u)' /\ RaisedBy(f, x) \in SUBSET AllBits
  BY <1>1, <1>3, StoredHolds, StoredIs
<1>5. CASE Same(w, f, x)
  <2>1. settings' = settings
    BY <1>1, <1>2, <1>3, <1>5 DEF Same, SettingsType, Typed
  <2>2. Holds(w)'
    BY <1>3, <2>1, HoldsStill DEF held, photoVars, signalVars, userVars
  <2> QED
    BY <1>1, <1>3, <1>5, <2>2, MovesTo DEF AfterSet
<1> DEFINE r == AfterPut(u, "preset", None)
<1>6. CASE ~Same(w, f, x) /\ f \in {"warmth", "temp"}
  <2>1. RaisedBy(f, x) = {"wb"} /\ {"wb"} \in SUBSET AllBits
    BY <1>6 DEF RaisedBy, AllBits
  <2>2. Typed("preset", None)
    BY DEF Typed, Presets
  <2>3. /\ AblePut(u, "preset", None) /\ AbleAnnounce(r, {"wb"})
        /\ AfterSet(w, f, x) = AfterAnnounce(r, {"wb"})
    BY <1>1, <1>6 DEF AbleSet, AfterSet
  <2>4. AbleSet(u, "preset", None) /\ AfterSet(u, "preset", None) = r
    BY <2>3 DEF AbleSet, AfterSet, Same
  <2>5. r \in World
    BY <1>4, <2>2, PutWorld
  <2>6. Leads(<<Set("preset", None)>>, u, r)
    BY <1>4, <2>2, <2>4, LeadSet
  <2> HIDE DEF u, r
  <2>7. Leads(<<Tell("announce", {"wb"})>>, r, AfterAnnounce(r, {"wb"}))
    BY <2>1, <2>3, <2>5, LeadAnnounce
  <2>8. Leads(<<Set("preset", None)>> \o <<Tell("announce", {"wb"})>>,
              u, AfterSet(w, f, x))
    BY <2>3, <2>6, <2>7, LeadsOn
  <2>9. <<Set("preset", None)>> \o <<Tell("announce", {"wb"})>> # <<>>
    OBVIOUS
  <2>10. agenda' = (<<Set("preset", None)>> \o <<Tell("announce", {"wb"})>>)
                     \o Tail(agenda)
    BY <1>3, <1>6, <2>1
  <2> QED
    BY <1>1, <1>4, <2>8, <2>9, <2>10, MovesOn
<1>7. CASE ~Same(w, f, x) /\ f \notin {"warmth", "temp"}
  <2>1. /\ AbleAnnounce(u, RaisedBy(f, x))
        /\ AfterSet(w, f, x) = AfterAnnounce(u, RaisedBy(f, x))
    BY <1>1, <1>7 DEF AbleSet, AfterSet, AblePut, AfterPut
  <2> HIDE DEF u
  <2>2. Leads(<<Tell("announce", RaisedBy(f, x))>>, u, AfterSet(w, f, x))
    BY <1>4, <2>1, LeadAnnounce
  <2>3. Leads(<<>> \o <<Tell("announce", RaisedBy(f, x))>>, u, AfterSet(w, f, x))
    BY <1>4, <2>2, LeadsNone, LeadsOn
  <2>4. <<>> \o <<Tell("announce", RaisedBy(f, x))>> # <<>>
    OBVIOUS
  <2>5. agenda' = (<<>> \o <<Tell("announce", RaisedBy(f, x))>>) \o Tail(agenda)
    BY <1>3, <1>7
  <2> QED
    BY <1>1, <1>4, <2>3, <2>4, <2>5, MovesOn
<1> QED
  BY <1>5, <1>6, <1>7

(* Announce. *)
LEMMA StepAnnounce ==
  ASSUME NEW w, NEW v, Holds(w), Ok(Head(agenda), w, v), At("announce"), Announce
  PROVE  Moves(v)
<1>0. PICK bits : bits = Head(agenda).bits
  OBVIOUS
<1>1. /\ w \in World /\ v \in World /\ bits \in SUBSET AllBits
      /\ AbleAnnounce(w, bits) /\ Below(v, AfterAnnounce(w, bits))
  BY <1>0, AnnounceOk DEF At
<1>2. /\ todo' = IF commit > 0 THEN todo \union bits ELSE todo
      /\ agenda' = (IF commit > 0 \/ bits = {} THEN <<>>
                    ELSE <<Tell("emit", bits)>>) \o Tail(agenda)
      /\ UNCHANGED <<photoVars, settings, commit, signalVars, userVars, unseen>>
  BY <1>0 DEF Announce, Continue
<1>3. w.commit = commit /\ w.todo = todo
  BY <1>1 DEF Holds
<1>4. CASE commit > 0
  <2> DEFINE u == Known(w, w.set, w.todo \union bits, w.choice, w.exposure, w.wb)
  <2>1. w.todo \union bits \in SUBSET AllBits
    BY <1>1, WorldHas
  <2>2. /\ Framed(u, w) /\ u.set = w.set /\ u.todo = w.todo \union bits
        /\ u.choice = w.choice /\ u.switch = w.switch /\ u.unseen = w.unseen
        /\ u.exposure = w.exposure /\ u.wb = w.wb
    BY <1>1, <2>1, KnownIs, WorldHas
  <2>3. AfterAnnounce(w, bits) = u
    BY <1>3, <1>4 DEF AfterAnnounce
  <2> HIDE DEF u
  <2>4. Holds(u)'
    BY <1>2, <1>4, <2>2 DEF Holds, Framed, Placed, photoVars, signalVars, userVars
  <2> QED
    BY <1>1, <1>2, <1>4, <2>3, <2>4, MovesTo
<1>5. CASE ~(commit > 0)
  <2>1. Holds(w)'
    BY <1>2, <1>5, HoldsStill DEF held, photoVars, signalVars, userVars
  <2>2. CASE bits = {}
    BY <1>1, <1>2, <1>3, <1>5, <2>1, <2>2, MovesTo DEF AfterAnnounce
  <2>3. CASE bits # {}
    <3>1. commit = 0
      BY <1>1, <1>3, <1>5, WorldHas
    <3>2. AbleEmit(w, bits) /\ AfterAnnounce(w, bits) = AfterEmit(w, bits)
      BY <1>1, <1>3, <2>3, <3>1 DEF AbleAnnounce, AfterAnnounce
    <3>3. Leads(<<Tell("emit", bits)>>, w, AfterAnnounce(w, bits))
      BY <1>1, <3>2, LeadEmit
    <3>4. <<Tell("emit", bits)>> # <<>>
      OBVIOUS
    <3> QED
      BY <1>1, <1>2, <1>5, <2>1, <2>3, <3>3, <3>4, MovesOn
  <2> QED
    BY <2>2, <2>3
<1> QED
  BY <1>4, <1>5

(* EmitChanged. *)
LEMMA StepEmit ==
  ASSUME NEW w, NEW v, Holds(w), Ok(Head(agenda), w, v), At("emit"), EmitChanged
  PROVE  Moves(v)
<1>0. PICK bits : bits = Head(agenda).bits
  OBVIOUS
<1> DEFINE r == AfterPhoto(w, bits)
           reads == [i \in DOMAIN InOrder(w.link) |-> Read(InOrder(w.link)[i], bits)]
<1>1. /\ w \in World /\ v \in World /\ bits \in SUBSET AllBits
      /\ AbleEmit(w, bits) /\ Below(v, AfterEmit(w, bits))
  BY <1>0, EmitOk DEF At
<1>2. /\ agenda' = (<<Tell("photo", bits)>> \o reads) \o Tail(agenda)
      /\ UNCHANGED <<photoVars, settings, commit, todo, signalVars, userVars, unseen>>
  BY <1>0 DEF EmitChanged, Continue, Holds
<1>3. Holds(w)'
  BY <1>2, HoldsStill DEF held, photoVars, signalVars, userVars
<1>4. AblePhoto(w, bits) /\ AbleReads(r, bits) /\ AfterEmit(w, bits) = AfterReads(r, bits)
  BY <1>1 DEF AbleEmit, AfterEmit
<1>5. r \in World /\ r.link = w.link
  BY <1>1, PhotoWorld DEF Framed, Placed
<1>6. Leads(<<Tell("photo", bits)>>, w, r)
  BY <1>1, <1>4, LeadPhoto
<1> HIDE DEF r
<1>7. Leads(reads, r, AfterReads(r, bits))
  BY <1>1, <1>4, <1>5, LeadReads
<1>8. reads \in Seq(Calls)
  BY <1>7, LeadsWorld
<1> HIDE DEF reads
<1>9. Leads(<<Tell("photo", bits)>> \o reads, w, AfterEmit(w, bits))
  BY <1>4, <1>6, <1>7, LeadsOn
<1>10. <<Tell("photo", bits)>> \o reads # <<>>
  BY <1>8
<1> QED
  BY <1>1, <1>2, <1>3, <1>9, <1>10, MovesOn

(* PhotoChanged. *)
LEMMA StepPhoto ==
  ASSUME NEW w, NEW v, Holds(w), Ok(Head(agenda), w, v), At("photo"), PhotoChanged
  PROVE  Moves(v)
<1>0. PICK bits : bits = Head(agenda).bits
  OBVIOUS
<1>1. /\ w \in World /\ v \in World /\ bits \in SUBSET AllBits
      /\ AblePhoto(w, bits) /\ Below(v, AfterPhoto(w, bits))
  BY <1>0, PhotoOk DEF At
<1>2. /\ agenda' = (IF w.follows THEN <<Tell("toolbox", bits)>> ELSE <<>>)
                     \o Tail(agenda)
      /\ UNCHANGED <<photoVars, settings, commit, todo, signalVars, userVars, unseen>>
  BY <1>0 DEF PhotoChanged, Continue, Holds
<1>3. Holds(w)'
  BY <1>2, HoldsStill DEF held, photoVars, signalVars, userVars
<1>4. CASE w.follows
  <2>1. Leads(<<Tell("toolbox", bits)>>, w, AfterPhoto(w, bits))
    BY <1>1, <1>4, LeadToolbox DEF AblePhoto, AfterPhoto
  <2>2. <<Tell("toolbox", bits)>> # <<>>
    OBVIOUS
  <2> QED
    BY <1>1, <1>2, <1>3, <1>4, <2>1, <2>2, MovesOn
<1>5. CASE ~w.follows
  BY <1>1, <1>2, <1>3, <1>5, MovesTo DEF AfterPhoto
<1> QED
  BY <1>4, <1>5

(* ToolboxChanged. *)
LEMMA StepToolbox ==
  ASSUME NEW w, NEW v, Holds(w), Ok(Head(agenda), w, v), At("toolbox"),
         ToolboxChanged, RestType
  PROVE  Moves(v)
<1>0. PICK bits : bits = Head(agenda).bits
  OBVIOUS
<1> DEFINE u == ToolShown(w, bits)
<1>1. /\ w \in World /\ v \in World /\ bits \in SUBSET AllBits
      /\ AbleToolbox(w, bits) /\ Below(v, AfterToolbox(w, bits))
  BY <1>0, ToolboxOk DEF At
<1>2. /\ tool' = (IF w.mute THEN tool
                  ELSE [exposure |-> settings.exposure, temp |-> settings.temp,
                        switch |-> IF "switch" \in bits THEN settings.switch
                                                        ELSE tool.switch])
      /\ unseen' = (IF w.mute \/ "switch" \notin bits THEN unseen ELSE FALSE)
      /\ agenda' = <<Read("navigator", AllBits)>> \o Tail(agenda)
      /\ UNCHANGED <<photoVars, settings, commit, todo, mute, follows, chain,
                     linked, userVars>>
  BY <1>0 DEF ToolboxChanged, Continue, Holds, Shown
<1>3. /\ Still(u, w)
      /\ ~w.mute => /\ u.exposure = w.exposure \union {"toolbox"}
                    /\ u.wb = w.wb \union {"toolbox"}
      /\ w.mute => u = w
      /\ u.switch = (IF ~w.mute /\ "switch" \in bits THEN w.set.switch ELSE w.switch)
      /\ u.unseen = (IF ~w.mute /\ "switch" \in bits THEN FALSE ELSE w.unseen)
  BY <1>1, ShownIs
<1>4. AbleRead(u, "navigator", AllBits)
      /\ AfterToolbox(w, bits) = AfterRead(u, "navigator", AllBits)
  BY <1>1 DEF AbleToolbox, AfterToolbox
<1> HIDE DEF u
<1>5. Holds(u)'
  <2>1. CASE w.mute
    <3>1. UNCHANGED held
      BY <1>2, <2>1 DEF held, photoVars, userVars
    <3>2. u = w
      BY <1>3, <2>1
    <3> QED
      BY <3>1, <3>2, HoldsStill
  <2>2. CASE ~w.mute
    <3>1. /\ u.exposure = w.exposure \union {"toolbox"}
          /\ u.wb = w.wb \union {"toolbox"} /\ Framed(u, w)
          /\ u.set = w.set /\ u.todo = w.todo /\ u.choice = w.choice
      BY <1>3, <2>2 DEF Still
    <3>2. tool'.exposure = settings.exposure /\ tool'.temp = settings.temp
      BY <1>2, <2>2
    <3>3. u.switch = tool'.switch /\ u.unseen = unseen'
      BY <1>2, <1>3, <2>2 DEF Holds
    <3>4. "toolbox" \notin Chains
      BY DEF Chains
    <3> QED
      BY <1>2, <3>1, <3>2, <3>3, <3>4 DEF Holds, Framed, Placed, photoVars, userVars
  <2> QED
    BY <2>1, <2>2
<1>6. u \in World /\ "navigator" \in Chains /\ AllBits \in SUBSET AllBits
  BY <1>3 DEF Still, Chains
<1>7. Leads(<<Read("navigator", AllBits)>>, u, AfterToolbox(w, bits))
  BY <1>4, <1>6, LeadRead
<1>8. <<Read("navigator", AllBits)>> # <<>>
  OBVIOUS
<1> QED
  BY <1>1, <1>2, <1>5, <1>7, <1>8, MovesOn

(* WbRecalculated. *)
LEMMA StepWb ==
  ASSUME NEW w, NEW v, Holds(w), Ok(Head(agenda), w, v), At("wb_recalculated"),
         WbRecalculated
  PROVE  Moves(v)
<1>1. w \in World /\ v \in World /\ AbleWb(w) /\ Below(v, AfterWb(w))
  BY WbOk DEF At
<1>2. /\ agenda' = (IF Listening(w) THEN <<Tell("toolbox", {"wb"})>> ELSE <<>>)
                     \o Tail(agenda)
      /\ UNCHANGED <<photoVars, settings, commit, todo, signalVars, userVars, unseen>>
  BY DEF WbRecalculated, Continue, Holds, Listening
<1>3. Holds(w)'
  BY <1>2, HoldsStill DEF held, photoVars, signalVars, userVars
<1>4. CASE Listening(w)
  <2>1. {"wb"} \in SUBSET AllBits /\ w.follows
    BY <1>4 DEF AllBits, Listening
  <2>2. Leads(<<Tell("toolbox", {"wb"})>>, w, AfterWb(w))
    BY <1>1, <1>4, <2>1, LeadToolbox DEF AbleWb, AfterWb
  <2>3. <<Tell("toolbox", {"wb"})>> # <<>>
    OBVIOUS
  <2> QED
    BY <1>1, <1>2, <1>3, <1>4, <2>2, <2>3, MovesOn
<1>5. CASE ~Listening(w)
  BY <1>1, <1>2, <1>3, <1>5, MovesTo DEF AfterWb
<1> QED
  BY <1>4, <1>5

(* CommitStart, CommitStop, CommitStopped. *)
LEMMA StepStart ==
  ASSUME NEW w, NEW v, Holds(w), Ok(Head(agenda), w, v), At("start"), CommitStart
  PROVE  Moves(v)
<1> DEFINE u == Started(w)
<1>1. w \in World /\ v \in World /\ w.commit < 2 /\ Below(v, u)
  BY StartOk DEF At
<1>2. /\ Placed(u, w) /\ u.commit = w.commit + 1
      /\ u.todo = (IF w.commit = 0 THEN {} ELSE w.todo)
      /\ u.set = w.set /\ u.choice = w.choice
      /\ u.switch = w.switch /\ u.unseen = w.unseen
      /\ u.exposure = w.exposure /\ u.wb = w.wb
  BY <1>1, StartedIs
<1> HIDE DEF u
<1>3. Holds(u)' /\ agenda' = <<>> \o Tail(agenda)
  BY <1>2 DEF CommitStart, Continue, Holds, Placed, photoVars, signalVars, userVars
<1> QED
  BY <1>1, <1>3, MovesTo

LEMMA StepStopped ==
  ASSUME NEW w, NEW v, Holds(w), Ok(Head(agenda), w, v), At("stopped"), CommitStopped
  PROVE  Moves(v)
<1> DEFINE u == Stopped(w)
<1>1. w \in World /\ v \in World /\ w.commit > 0 /\ Below(v, u)
  BY StoppedOk DEF At
<1>2. /\ Placed(u, w) /\ u.commit = w.commit - 1 /\ u.todo = w.todo
      /\ u.set = w.set /\ u.choice = w.choice
      /\ u.switch = w.switch /\ u.unseen = w.unseen
      /\ u.exposure = w.exposure /\ u.wb = w.wb
  BY <1>1, StoppedIs
<1> HIDE DEF u
<1>3. Holds(u)' /\ agenda' = <<>> \o Tail(agenda)
  BY <1>1, <1>2 DEF CommitStopped, Continue, Holds, Placed, photoVars, signalVars,
                    userVars
<1> QED
  BY <1>1, <1>3, MovesTo

LEMMA StepStop ==
  ASSUME NEW w, NEW v, Holds(w), Ok(Head(agenda), w, v), At("stop"), CommitStop
  PROVE  Moves(v)
<1>1. /\ w \in World /\ v \in World /\ AbleStop(w) /\ Below(v, AfterStop(w))
  BY StopOk DEF At
<1>2. /\ agenda' = ((IF w.commit = 1 /\ w.todo # {} THEN <<Tell("emit", w.todo)>>
                     ELSE <<>>) \o <<Call("stopped")>>) \o Tail(agenda)
      /\ UNCHANGED <<photoVars, settings, commit, todo, signalVars, userVars, unseen>>
  BY DEF CommitStop, Continue, Holds
<1>3. Holds(w)'
  BY <1>2, HoldsStill DEF held, photoVars, signalVars, userVars
<1>4. w.commit > 0 /\ w.todo \in SUBSET AllBits
  BY <1>1, WorldHas DEF AbleStop
<1> DEFINE r == Stopping(w)
<1>5. r \in World /\ r.commit > 0
  BY <1>1, <1>4, StopWorld DEF Framed
<1>6. AfterStop(w) = Stopped(r)
  BY DEF AfterStop
<1>7. CASE w.commit = 1 /\ w.todo # {}
  <2>1. Leads(<<Tell("emit", w.todo)>>, w, r)
    BY <1>1, <1>4, <1>7, LeadEmit DEF AbleStop, Stopping
  <2> HIDE DEF r
  <2>2. Leads(<<Call("stopped")>>, r, AfterStop(w))
    BY <1>5, <1>6, LeadStopped
  <2>3. Leads(<<Tell("emit", w.todo)>> \o <<Call("stopped")>>, w, AfterStop(w))
    BY <2>1, <2>2, LeadsOn
  <2>4. <<Tell("emit", w.todo)>> \o <<Call("stopped")>> # <<>>
    OBVIOUS
  <2> QED
    BY <1>1, <1>2, <1>3, <1>7, <2>3, <2>4, MovesOn
<1>8. CASE ~(w.commit = 1 /\ w.todo # {})
  <2>1. r = w
    BY <1>8 DEF Stopping
  <2> HIDE DEF r
  <2>2. Leads(<<Call("stopped")>>, w, AfterStop(w))
    BY <1>5, <1>6, <2>1, LeadStopped
  <2>3. Leads(<<>> \o <<Call("stopped")>>, w, AfterStop(w))
    BY <1>1, <2>2, LeadsNone, LeadsOn
  <2>4. <<>> \o <<Call("stopped")>> # <<>>
    OBVIOUS
  <2>5. agenda' = (<<>> \o <<Call("stopped")>>) \o Tail(agenda)
    BY <1>2, <1>8
  <2> QED
    BY <1>1, <1>3, <2>3, <2>4, <2>5, MovesOn
<1> QED
  BY <1>7, <1>8

(* Calls in a row. *)
LEMMA LeadsFirst ==
  ASSUME NEW s \in Seq(Calls), s # <<>>, NEW u, NEW v, NEW w,
         Leads(<<Head(s)>>, u, v), Leads(Tail(s), v, w)
  PROVE  Leads(s, u, w)
<1> DEFINE h == <<Head(s)>>
           t == Tail(s)
           r == h \o t
<1>1. Head(s) \in Calls /\ Head(s) = s[1] /\ Len(s) \in Nat \ {0}
  OBVIOUS
<1>2. h \in Seq(Calls) /\ Len(h) = 1 /\ h[1] = s[1]
  BY <1>1
<1>3. t \in Seq(Calls) /\ Len(t) = Len(s) - 1 /\ \A i \in 1..Len(t) : t[i] = s[i + 1]
  OBVIOUS
<1> HIDE DEF h, t
<1>4. /\ r \in Seq(Calls) /\ Len(r) = Len(s)
      /\ \A i \in 1..Len(s) : r[i] = IF i <= 1 THEN h[i] ELSE t[i - 1]
  <2>0. h \in Seq(Calls) /\ t \in Seq(Calls)
    BY <1>2, <1>3
  <2>1. /\ r \in Seq(Calls) /\ Len(r) = Len(h) + Len(t)
        /\ \A i \in 1..Len(r) : r[i] = IF i <= Len(h) THEN h[i] ELSE t[i - Len(h)]
    BY <2>0
  <2>2. Len(h) + Len(t) = Len(s)
    BY <1>1, <1>2, <1>3
  <2> QED
    BY <1>2, <2>1, <2>2
<1> HIDE DEF r
<1>5. ASSUME NEW i \in 1..Len(s) PROVE r[i] = s[i]
  <2>1. CASE i = 1
    BY <1>2, <1>4, <2>1
  <2>2. CASE i > 1
    BY <1>1, <1>3, <1>4, <2>2
  <2> QED
    BY <1>1, <2>1, <2>2
<1>6. r = s
  BY <1>4, <1>5, SeqEqual
<1>7. Leads(r, u, w)
  BY LeadsOn DEF r, h, t
<1> QED
  BY <1>6, <1>7

LEMMA OneCall ==
  ASSUME NEW x, NEW u, NEW v, Leads(<<x>>, u, v)
  PROVE  x \in Calls /\ Ok(x, u, v)
<1>1. Len(<<x>>) = 1 /\ <<x>>[1] = x /\ <<x>> \in Seq(Calls)
  BY DEF Leads
<1>2. PICK way \in [1..(Len(<<x>>) + 1) -> World] :
        /\ way[1] = u /\ way[Len(<<x>>) + 1] = v
        /\ \A i \in 1..Len(<<x>>) : Ok(<<x>>[i], way[i], way[i + 1])
  BY DEF Leads
<1>3. Ok(x, u, v)
  BY <1>1, <1>2
<1> QED
  BY <1>3 DEF Ok

LEMMA LeadsTwo ==
  ASSUME NEW a, NEW b, NEW u, NEW v, NEW w, Leads(<<a>>, u, v), Leads(<<b>>, v, w)
  PROVE  Leads(<<a, b>>, u, w)
<1>1. a \in Calls /\ b \in Calls
  BY OneCall
<1>2. Leads(<<a>> \o <<b>>, u, w)
  BY LeadsOn
<1> QED
  BY <1>1, <1>2, JoinTwo

LEMMA LeadsThree ==
  ASSUME NEW a, NEW b, NEW c, NEW u, NEW v, NEW w,
         Leads(<<a>>, u, v), Leads(<<b, c>>, v, w), b \in Calls, c \in Calls
  PROVE  Leads(<<a, b, c>>, u, w)
<1>1. a \in Calls
  BY OneCall
<1> DEFINE s == <<a, b, c>>
<1>2. s \in Seq(Calls) /\ s # <<>> /\ Head(s) = a /\ Tail(s) = <<b, c>>
  BY <1>1
<1> HIDE DEF s
<1>3. Leads(<<Head(s)>>, u, v) /\ Leads(Tail(s), v, w)
  BY <1>2
<1>4. Leads(s, u, w)
  BY <1>2, <1>3, LeadsFirst
<1> QED
  BY <1>4 DEF s

LEMMA LeadsFour ==
  ASSUME NEW a, NEW b, NEW c, NEW d, NEW u, NEW v, NEW w,
         Leads(<<a>>, u, v), Leads(<<b, c, d>>, v, w),
         b \in Calls, c \in Calls, d \in Calls
  PROVE  Leads(<<a, b, c, d>>, u, w)
<1>1. a \in Calls
  BY OneCall
<1> DEFINE s == <<a, b, c, d>>
<1>2. s \in Seq(Calls) /\ s # <<>> /\ Head(s) = a /\ Tail(s) = <<b, c, d>>
  BY <1>1
<1> HIDE DEF s
<1>3. Leads(<<Head(s)>>, u, v) /\ Leads(Tail(s), v, w)
  BY <1>2
<1>4. Leads(s, u, w)
  BY <1>2, <1>3, LeadsFirst
<1> QED
  BY <1>4 DEF s

LEMMA LeadsFive ==
  ASSUME NEW a, NEW b, NEW c, NEW d, NEW e, NEW u, NEW v, NEW w,
         Leads(<<a>>, u, v), Leads(<<b, c, d, e>>, v, w),
         b \in Calls, c \in Calls, d \in Calls, e \in Calls
  PROVE  Leads(<<a, b, c, d, e>>, u, w)
<1>1. a \in Calls
  BY OneCall
<1> DEFINE s == <<a, b, c, d, e>>
<1>2. s \in Seq(Calls) /\ s # <<>> /\ Head(s) = a /\ Tail(s) = <<b, c, d, e>>
  BY <1>1
<1> HIDE DEF s
<1>3. Leads(<<Head(s)>>, u, v) /\ Leads(Tail(s), v, w)
  BY <1>2
<1>4. Leads(s, u, w)
  BY <1>2, <1>3, LeadsFirst
<1> QED
  BY <1>4 DEF s

LEMMA FiveInTurn ==
  ASSUME NEW a, NEW b, NEW c, NEW d, NEW e,
         NEW u, NEW v, NEW w, NEW p, NEW q, NEW r,
         Leads(<<a>>, u, v), Leads(<<b>>, v, w), Leads(<<c>>, w, p),
         Leads(<<d>>, p, q), Leads(<<e>>, q, r)
  PROVE  Leads(<<a, b, c, d, e>>, u, r)
<1>1. a \in Calls /\ b \in Calls /\ c \in Calls /\ d \in Calls /\ e \in Calls
  BY OneCall
<1>2. Leads(<<d, e>>, p, r)
  BY LeadsTwo
<1>3. Leads(<<c, d, e>>, w, r)
  BY <1>1, <1>2, LeadsThree
<1>4. Leads(<<b, c, d, e>>, v, r)
  BY <1>1, <1>3, LeadsFour
<1> QED
  BY <1>1, <1>4, LeadsFive

LEMMA AbleInCommit ==
  ASSUME NEW w \in World, w.commit > 0, NEW f, NEW x, Typed(f, x)
  PROVE  AbleSet(w, f, x) /\ AblePut(w, f, x)
<1> DEFINE u == Stored(w, f, x)
           r == AfterPut(u, "preset", None)
<1>1. u \in World /\ u.commit = w.commit
  BY StoredWorld DEF Framed
<1>2. Typed("preset", None)
  BY DEF Typed, Presets
<1>3. r \in World /\ r.commit = w.commit
  BY <1>1, <1>2, PutWorld DEF Framed
<1>4. Stored(u, "preset", None).commit = w.commit
  BY <1>1, <1>2, StoredWorld DEF Framed
<1>5. w.commit # 0
  BY WorldHas
<1> HIDE DEF u, r
<1>6. AblePut(w, f, x) /\ AblePut(u, "preset", None) /\ AbleAnnounce(r, {"wb"})
  BY <1>1, <1>3, <1>4, <1>5 DEF AblePut, AbleAnnounce, u
<1> QED
  BY <1>6 DEF AbleSet, u, r

LEMMA PutIsSet ==
  ASSUME NEW w, NEW x, NEW f \in {"preset", "recalc"}
  PROVE  AfterSet(w, f, x) = AfterPut(w, f, x)
BY DEF AfterSet, Same

(* SetWb(). *)
LEMMA LeadSetWb ==
  ASSUME NEW w \in World, NEW t \in Warmths, NEW p \in Presets, AbleSetWb(w, t, p)
  PROVE  Leads(SetWb(t, p), w, AfterSetWb(w, t, p))
<1> DEFINE a == Started(w)
           b == AfterSet(a, "warmth", t)
           c == AfterPut(b, "preset", p)
           d == WbPut(w, t, p)
<1>1. w.commit < 2 /\ AbleStop(d)
  BY DEF AbleSetWb
<1>2. a \in World /\ a.commit = w.commit + 1
  BY <1>1, StartedIs
<1>3. /\ b \in World /\ b.commit = w.commit + 1
      /\ c \in World /\ c.commit = w.commit + 1
      /\ d \in World /\ d.commit = w.commit + 1
  BY <1>1, WbPutWorld
<1>4. a.commit > 0 /\ b.commit > 0 /\ c.commit > 0
  BY <1>2, <1>3, WorldHas
<1>5. Typed("warmth", t) /\ Typed("preset", p) /\ Typed("recalc", TRUE)
  BY TypedValues
<1>6. d = AfterSet(c, "recalc", TRUE) /\ c = AfterSet(b, "preset", p)
  BY PutIsSet DEF WbPut
<1>7. AfterSetWb(w, t, p) = AfterStop(d)
  BY DEF AfterSetWb
<1>8. Leads(<<Call("start")>>, w, a)
  BY <1>1, LeadStart
<1>9. Leads(<<Set("warmth", t)>>, a, b)
  BY <1>2, <1>4, <1>5, AbleInCommit, LeadSet
<1> HIDE DEF a, b, d
<1>10. Leads(<<Set("preset", p)>>, b, c)
  <2>1. AbleSet(b, "preset", p)
    BY <1>3, <1>4, <1>5, AbleInCommit
  <2> QED
    BY <1>3, <1>5, <1>6, <2>1, LeadSet
<1> HIDE DEF c
<1>11. Leads(<<Set("recalc", TRUE)>>, c, d)
  <2>1. AbleSet(c, "recalc", TRUE)
    BY <1>3, <1>4, <1>5, AbleInCommit
  <2> QED
    BY <1>3, <1>5, <1>6, <2>1, LeadSet
<1>12. Leads(<<Call("stop")>>, d, AfterStop(d))
  BY <1>1, <1>3, LeadStop
<1>13. Leads(<<Call("start"), Set("warmth", t), Set("preset", p), Set("recalc", TRUE),
               Call("stop")>>, w, AfterStop(d))
  BY <1>8, <1>9, <1>10, <1>11, <1>12, FiveInTurn
<1> QED
  BY <1>7, <1>13 DEF SetWb

LEMMA LeadTempPut ==
  ASSUME NEW w \in World, w.commit < 2, AbleStop(TempPut(w))
  PROVE  Leads(<<Call("start"), Set("temp", DefaultTemp), Set("preset", "camera"),
                 Set("recalc", FALSE), Call("stop")>>, w, AfterStop(TempPut(w)))
<1> DEFINE a == Started(w)
           b == AfterSet(a, "temp", DefaultTemp)
           c == AfterPut(b, "preset", "camera")
           d == TempPut(w)
<1>2. a \in World /\ a.commit = w.commit + 1
  BY StartedIs
<1>3. /\ b \in World /\ b.commit = w.commit + 1
      /\ c \in World /\ c.commit = w.commit + 1
      /\ d \in World /\ d.commit = w.commit + 1
  BY TempPutWorld
<1>4. a.commit > 0 /\ b.commit > 0 /\ c.commit > 0
  BY <1>2, <1>3, WorldHas
<1>5. Typed("temp", DefaultTemp) /\ Typed("preset", "camera") /\ Typed("recalc", FALSE)
  BY TypedValues DEF Presets
<1>6. d = AfterSet(c, "recalc", FALSE) /\ c = AfterSet(b, "preset", "camera")
  BY PutIsSet DEF TempPut
<1>8. Leads(<<Call("start")>>, w, a)
  BY LeadStart
<1>9. Leads(<<Set("temp", DefaultTemp)>>, a, b)
  BY <1>2, <1>4, <1>5, AbleInCommit, LeadSet
<1> HIDE DEF a, b, d
<1>10. Leads(<<Set("preset", "camera")>>, b, c)
  <2>1. AbleSet(b, "preset", "camera")
    BY <1>3, <1>4, <1>5, AbleInCommit
  <2> QED
    BY <1>3, <1>5, <1>6, <2>1, LeadSet
<1> HIDE DEF c
<1>11. Leads(<<Set("recalc", FALSE)>>, c, d)
  <2>1. AbleSet(c, "recalc", FALSE)
    BY <1>3, <1>4, <1>5, AbleInCommit
  <2> QED
    BY <1>3, <1>5, <1>6, <2>1, LeadSet
<1>12. Leads(<<Call("stop")>>, d, AfterStop(d))
  BY <1>3, LeadStop DEF d
<1>13. Leads(<<Call("start"), Set("temp", DefaultTemp), Set("preset", "camera"),
               Set("recalc", FALSE), Call("stop")>>, w, AfterStop(d))
  BY <1>8, <1>9, <1>10, <1>11, <1>12, FiveInTurn
<1> QED
  BY <1>13 DEF d

(* rs_photo_set_wb_from_camera(). *)
LEMMA LeadFromCamera ==
  ASSUME NEW w \in World, AbleCamera(w), w.kind = kind, w.profile = profile
  PROVE  /\ Leads(FromCamera, w, AfterCamera(w))
         /\ FromCamera = <<>> => AfterCamera(w) = w
<1>1. CASE kind = "raw"
  <2>1. /\ FromCamera = SetWb("camera", "camera") /\ AbleSetWb(w, "camera", "camera")
        /\ AfterCamera(w) = AfterSetWb(w, "camera", "camera")
    BY <1>1 DEF FromCamera, AbleCamera, AfterCamera
  <2>2. "camera" \in Warmths /\ "camera" \in Presets /\ FromCamera # <<>>
    BY <2>1 DEF Warmths, Presets, SetWb
  <2> QED
    BY <2>1, <2>2, LeadSetWb
<1>2. CASE kind # "raw" /\ profile = None
  <2>1. /\ FromCamera = <<Call("start"), Set("temp", DefaultTemp),
                          Set("preset", "camera"), Set("recalc", FALSE), Call("stop")>>
        /\ w.commit < 2 /\ AbleStop(TempPut(w))
        /\ AfterCamera(w) = AfterStop(TempPut(w))
    BY <1>2 DEF FromCamera, AbleCamera, AfterCamera
  <2>2. FromCamera # <<>>
    BY <2>1
  <2> QED
    BY <2>1, <2>2, LeadTempPut
<1>3. CASE kind # "raw" /\ profile # None
  BY <1>3, LeadsNone DEF FromCamera, AfterCamera
<1> QED
  BY <1>1, <1>2, <1>3

(* CopySettings. *)
LEMMA StepCopy ==
  ASSUME NEW w, NEW v, Holds(w), Ok(Head(agenda), w, v), At("copy"), CopySettings
  PROVE  Moves(v)
<1>0. PICK from, bits : from = Head(agenda).from /\ bits = Head(agenda).bits
  OBVIOUS
<1>1. /\ w \in World /\ v \in World /\ from \in SettingsType /\ bits \in SUBSET AllBits
      /\ AbleCopy(w, from, bits) /\ Below(v, AfterCopy(w, from, bits))
  BY <1>0, CopyOk DEF At
<1> DEFINE new == CopiedOver(w.set, from, bits)
           told == BitsOf(w.set, new)
           u == Overwritten(w, new)
<1>2. settings \in SettingsType /\ w.set = settings
  BY <1>1, WorldHas DEF Holds
<1>3. new \in SettingsType /\ told \in SUBSET AllBits
  BY <1>1, <1>2, CopiedType, CopyWorld
<1>4. Copied(from, bits) = new /\ CopyBits(new) = told
  BY SMTT(60), <1>2 DEF Copied, CopiedOver, CopyBits, BitsOf, WbDiffers
<1>5. /\ settings' = new
      /\ unseen' = (unseen \/ (follows /\ new.switch # settings.switch))
      /\ agenda' = (IF told = {} THEN <<>> ELSE <<Tell("emit", told)>>) \o Tail(agenda)
      /\ UNCHANGED <<photoVars, commit, todo, signalVars, userVars>>
  BY <1>0, <1>4 DEF CopySettings, Continue
<1>6. /\ told # {} => AbleEmit(u, told)
      /\ AfterCopy(w, from, bits) = IF told = {} THEN u ELSE AfterEmit(u, told)
  BY <1>1 DEF AbleCopy, AfterCopy
<1> HIDE DEF new, told
<1>7. /\ u \in World /\ Framed(u, w) /\ u.set = new /\ u.todo = w.todo
      /\ u.choice = w.choice /\ u.switch = w.switch
      /\ u.exposure = (IF new.exposure # w.set.exposure THEN {} ELSE w.exposure)
      /\ u.wb = (IF WbDiffers(w.set, new) THEN {} ELSE w.wb)
      /\ u.unseen = (w.unseen \/ (w.follows /\ new.switch # w.set.switch))
  BY <1>1, <1>3, OverwrittenIs
<1> HIDE DEF u
<1>8. Holds(u)'
  <2>1. ~WbDiffers(w.set, new)
            => new.warmth = settings.warmth /\ new.temp = settings.temp
    BY <1>2 DEF WbDiffers
  <2>2. u.unseen = unseen'
    BY <1>2, <1>5, <1>7 DEF Holds
  <2> QED
    BY <1>2, <1>5, <1>7, <2>1, <2>2 DEF Holds, Framed, Placed, photoVars, signalVars,
                                        userVars
<1>9. CASE told = {}
  BY <1>1, <1>5, <1>6, <1>8, <1>9, MovesTo
<1>10. CASE told # {}
  <2>1. Leads(<<Tell("emit", told)>>, u, AfterCopy(w, from, bits))
    BY <1>3, <1>6, <1>7, <1>10, LeadEmit
  <2>2. <<Tell("emit", told)>> # <<>>
    OBVIOUS
  <2> QED
    BY <1>1, <1>5, <1>8, <1>10, <2>1, <2>2, MovesOn
<1> QED
  BY <1>9, <1>10

LEMMA MovesCamera ==
  ASSUME NEW w \in World, NEW v \in World, Holds(w), UNCHANGED held,
         AbleCamera(w), Below(v, AfterCamera(w)), agenda' = FromCamera \o Tail(agenda)
  PROVE  Moves(v)
<1>0. PICK now : now = FromCamera
  OBVIOUS
<1>1. Leads(now, w, AfterCamera(w)) /\ (now = <<>> => AfterCamera(w) = w)
  BY <1>0, LeadFromCamera DEF Holds
<1>2. Holds(w)'
  BY HoldsStill
<1>3. agenda' = now \o Tail(agenda)
  BY <1>0
<1>4. CASE now = <<>>
  BY <1>1, <1>2, <1>3, <1>4, MovesTo
<1>5. CASE now # <<>>
  BY <1>1, <1>2, <1>3, <1>5, MovesOn
<1> QED
  BY <1>4, <1>5

(* CameraNow, CameraIfPreset, AutoIfPreset. *)
LEMMA StepCamera ==
  ASSUME NEW w, NEW v, Holds(w), Ok(Head(agenda), w, v), At("camera"), CameraNow
  PROVE  Moves(v)
<1>1. /\ w \in World /\ v \in World /\ AbleCamera(w) /\ Below(v, AfterCamera(w))
  BY CameraOk DEF At
<1>2. UNCHANGED held /\ agenda' = FromCamera \o Tail(agenda)
  BY DEF CameraNow, Continue, held, photoVars, signalVars, userVars
<1> QED
  BY <1>1, <1>2, MovesCamera

LEMMA StepCameraIf ==
  ASSUME NEW w, NEW v, Holds(w), Ok(Head(agenda), w, v), At("camera_if_preset"),
         CameraIfPreset
  PROVE  Moves(v)
<1>1. /\ w \in World /\ v \in World /\ AbleCameraIf(w) /\ Below(v, CameraIf(w))
  BY CameraIfOk DEF At
<1>2. /\ UNCHANGED held
      /\ agenda' = (IF w.set.preset = "camera" THEN FromCamera ELSE <<>>) \o Tail(agenda)
  BY DEF CameraIfPreset, Continue, Holds, held, photoVars, signalVars, userVars
<1>3. CASE w.set.preset = "camera"
  <2>1. AbleCamera(w) /\ Below(v, AfterCamera(w)) /\ agenda' = FromCamera \o Tail(agenda)
    BY <1>1, <1>2, <1>3 DEF AbleCameraIf, CameraIf
  <2> QED
    BY <1>1, <1>2, <2>1, MovesCamera
<1>4. CASE w.set.preset # "camera"
  <2>1. Holds(w)' /\ agenda' = <<>> \o Tail(agenda)
    BY <1>2, <1>4, HoldsStill
  <2> QED
    BY <1>1, <1>4, <2>1, MovesTo DEF CameraIf
<1> QED
  BY <1>3, <1>4

LEMMA StepAutoIf ==
  ASSUME NEW w, NEW v, Holds(w), Ok(Head(agenda), w, v), At("auto_if_preset"),
         AutoIfPreset
  PROVE  Moves(v)
<1>1. /\ w \in World /\ v \in World /\ AbleAutoIf(w) /\ Below(v, AutoIf(w))
  BY AutoIfOk DEF At
<1>2. /\ UNCHANGED held
      /\ agenda' = (IF w.set.preset = "auto" THEN SetWb("auto", "auto") ELSE <<>>)
                     \o Tail(agenda)
  BY DEF AutoIfPreset, Continue, Holds, held, photoVars, signalVars, userVars
<1>3. Holds(w)'
  BY <1>2, HoldsStill
<1>4. CASE w.set.preset = "auto"
  <2>1. "auto" \in Warmths /\ "auto" \in Presets /\ SetWb("auto", "auto") # <<>>
    BY DEF Warmths, Presets, SetWb
  <2>2. Leads(SetWb("auto", "auto"), w, AutoIf(w))
    BY <1>1, <1>4, <2>1, LeadSetWb DEF AutoIf, AbleAutoIf
  <2> QED
    BY <1>1, <1>2, <1>3, <1>4, <2>1, <2>2, MovesOn
<1>5. CASE w.set.preset # "auto"
  BY <1>1, <1>2, <1>3, <1>5, MovesTo DEF AutoIf
<1> QED
  BY <1>4, <1>5

(* MutePhoto, DefaultPreset, Remember, SetProfile, ToolboxSetPhoto. *)
LEMMA StepMute ==
  ASSUME NEW w, NEW v, Holds(w), Ok(Head(agenda), w, v), At("mute"), MutePhoto
  PROVE  Moves(v)
<1>0. PICK b : b = Head(agenda).value
  OBVIOUS
<1> DEFINE u == Muting(w, b)
<1>1. w \in World /\ v \in World /\ b \in BOOLEAN /\ Below(v, u)
  BY <1>0, MuteOk DEF At
<1>2. /\ u.mute = b
      /\ u.kind = w.kind /\ u.set = w.set /\ u.todo = w.todo /\ u.commit = w.commit
      /\ u.exposure = w.exposure /\ u.wb = w.wb /\ u.link = w.link
      /\ u.follows = w.follows /\ u.prof = w.prof /\ u.profile = w.profile
      /\ u.choice = w.choice /\ u.switch = w.switch /\ u.unseen = w.unseen
      /\ u.opened = w.opened
  BY <1>1, MutingIs
<1> HIDE DEF u
<1>3. Holds(u)' /\ agenda' = <<>> \o Tail(agenda)
  BY <1>0, <1>2 DEF MutePhoto, Continue, Holds, photoVars, userVars
<1> QED
  BY <1>1, <1>3, MovesTo

LEMMA StepDefault ==
  ASSUME NEW w, NEW v, Holds(w), Ok(Head(agenda), w, v), At("default_preset"),
         DefaultPreset
  PROVE  Moves(v)
<1> DEFINE u == Defaulted(w)
<1>1. w \in World /\ v \in World /\ Below(v, u)
  BY DefaultOk DEF At
<1>2. /\ u.set = [w.set EXCEPT !.preset = "camera"]
      /\ u.kind = w.kind /\ u.todo = w.todo /\ u.commit = w.commit
      /\ u.exposure = w.exposure /\ u.wb = w.wb /\ u.link = w.link
      /\ u.follows = w.follows /\ u.mute = w.mute /\ u.prof = w.prof
      /\ u.profile = w.profile /\ u.choice = w.choice /\ u.switch = w.switch
      /\ u.unseen = w.unseen /\ u.opened = w.opened
  BY <1>1, DefaultedIs
<1> HIDE DEF u
<1>3. /\ settings' = [settings EXCEPT !.preset = "camera"]
      /\ agenda' = <<>> \o Tail(agenda)
      /\ UNCHANGED <<photoVars, commit, todo, signalVars, userVars, unseen>>
  BY DEF DefaultPreset, Continue
<1>4. /\ settings'.exposure = settings.exposure /\ settings'.temp = settings.temp
      /\ settings'.warmth = settings.warmth
  BY <1>1, <1>3, WorldHas DEF Holds, SettingsType
<1>5. Holds(u)'
  BY <1>2, <1>3, <1>4 DEF Holds, photoVars, signalVars, userVars
<1> QED
  BY <1>1, <1>3, <1>5, MovesTo

LEMMA StepRemember ==
  ASSUME NEW w, NEW v, Holds(w), Ok(Head(agenda), w, v), At("remember"), Remember
  PROVE  Moves(v)
<1> DEFINE u == Remembered(w)
<1>1. w \in World /\ v \in World /\ Below(v, u)
  BY RememberOk DEF At
<1>2. /\ u.opened = w.set
      /\ u.kind = w.kind /\ u.set = w.set /\ u.todo = w.todo /\ u.commit = w.commit
      /\ u.exposure = w.exposure /\ u.wb = w.wb /\ u.link = w.link
      /\ u.follows = w.follows /\ u.mute = w.mute /\ u.prof = w.prof
      /\ u.profile = w.profile /\ u.choice = w.choice /\ u.switch = w.switch
      /\ u.unseen = w.unseen
  BY <1>1, RememberedIs
<1> HIDE DEF u
<1>3. Holds(u)' /\ agenda' = <<>> \o Tail(agenda)
  BY <1>2 DEF Remember, Continue, Holds, signalVars, userVars
<1> QED
  BY <1>1, <1>3, MovesTo

LEMMA StepProfile ==
  ASSUME NEW w, NEW v, Holds(w), Ok(Head(agenda), w, v), At("profile"), SetProfile,
         RestType
  PROVE  Moves(v)
<1>0. PICK c : c = Head(agenda).chain
  OBVIOUS
<1> DEFINE u == Profiled(w, c)
<1>1. w \in World /\ v \in World /\ c \in Chains /\ Below(v, u)
  BY <1>0, ProfileOk DEF At
<1>2. /\ u.prof = [w.prof EXCEPT ![c] = w.profile]
      /\ u.kind = w.kind /\ u.set = w.set /\ u.todo = w.todo /\ u.commit = w.commit
      /\ u.exposure = w.exposure /\ u.wb = w.wb /\ u.link = w.link
      /\ u.follows = w.follows /\ u.mute = w.mute
      /\ u.profile = w.profile /\ u.choice = w.choice /\ u.switch = w.switch
      /\ u.unseen = w.unseen /\ u.opened = w.opened
  BY <1>1, ProfiledIs
<1> HIDE DEF u
<1>3. /\ chain' = [chain EXCEPT ![c].profile = profile]
      /\ agenda' = <<>> \o Tail(agenda)
      /\ UNCHANGED <<photoVars, settings, commit, todo, tool, mute, follows, linked,
                     userVars, unseen>>
  BY <1>0 DEF SetProfile, Continue
<1>4. ASSUME NEW d \in Chains
      PROVE  /\ chain'[d].exposure = chain[d].exposure
             /\ chain'[d].temp = chain[d].temp /\ chain'[d].warmth = chain[d].warmth
             /\ chain'[d].profile = IF d = c THEN profile ELSE chain[d].profile
  <2>1. /\ chain[d] \in [profile : Choices, exposure : Exposures,
                         temp : Temps, warmth : Warmths]
        /\ chain'[d] = IF d = c THEN [chain[d] EXCEPT !.profile = profile] ELSE chain[d]
    BY <1>1, <1>3 DEF RestType
  <2> QED
    BY <2>1
<1>5. u.prof = [d \in Chains |-> chain'[d].profile]
  <2>1. w.prof = [d \in Chains |-> chain[d].profile] /\ w.profile = profile
    BY DEF Holds
  <2> QED
    BY <1>1, <1>2, <1>4, <2>1
<1>6. Holds(u)'
  BY <1>2, <1>3, <1>4, <1>5 DEF Holds, photoVars, userVars
<1> QED
  BY <1>1, <1>3, <1>6, MovesTo

LEMMA StepSetPhoto ==
  ASSUME NEW w, NEW v, Holds(w), Ok(Head(agenda), w, v), At("toolbox_set_photo"),
         ToolboxSetPhoto
  PROVE  Moves(v)
<1> DEFINE u == AfterSetPhoto(w)
<1>1. w \in World /\ v \in World /\ Below(v, u)
  BY SetPhotoOk DEF At
<1>2. /\ u.follows = TRUE /\ u.unseen = FALSE /\ u.switch = w.set.switch
      /\ u.exposure = w.exposure \union {"toolbox"}
      /\ u.wb = w.wb \union {"toolbox"}
      /\ u.kind = w.kind /\ u.set = w.set /\ u.todo = w.todo /\ u.commit = w.commit
      /\ u.link = w.link /\ u.mute = w.mute /\ u.prof = w.prof
      /\ u.profile = w.profile /\ u.choice = w.choice /\ u.opened = w.opened
  BY <1>1, SetPhotoIs
<1> HIDE DEF u
<1>3. /\ follows' = TRUE /\ unseen' = FALSE
      /\ tool' = [exposure |-> settings.exposure, temp |-> settings.temp,
                  switch |-> settings.switch]
      /\ agenda' = <<>> \o Tail(agenda)
      /\ UNCHANGED <<photoVars, settings, commit, todo, mute, chain, linked, userVars>>
  BY DEF ToolboxSetPhoto, Continue, Shown, AllBits
<1>4. /\ tool'.exposure = settings.exposure /\ tool'.temp = settings.temp
      /\ tool'.switch = settings.switch
  BY <1>3
<1>5. "toolbox" \notin Chains
  BY DEF Chains
<1>6. Holds(u)'
  BY <1>2, <1>3, <1>4, <1>5 DEF Holds, photoVars, userVars
<1> QED
  BY <1>1, <1>3, <1>6, MovesTo

(* NeutralWb. *)
LEMMA StepNeutral ==
  ASSUME NEW w, NEW v, Holds(w), Ok(Head(agenda), w, v), At("neutral"), NeutralWb
  PROVE  Moves(v)
<1> DEFINE u == Unprofiled(w)
<1>1. w \in World /\ v \in World /\ AbleNeutral(w) /\ Below(v, AfterNeutral(w))
  BY NeutralOk DEF At
<1>2. /\ u \in World /\ u.profile = (IF w.kind = "jpeg" THEN None ELSE w.profile)
      /\ u.kind = w.kind /\ u.set = w.set /\ u.todo = w.todo /\ u.commit = w.commit
      /\ u.exposure = w.exposure /\ u.wb = w.wb /\ u.link = w.link
      /\ u.follows = w.follows /\ u.mute = w.mute /\ u.prof = w.prof
      /\ u.choice = w.choice /\ u.switch = w.switch /\ u.unseen = w.unseen
      /\ u.opened = w.opened
  BY <1>1, UnprofiledIs
<1>3. /\ agenda' = (IF w.kind = "jpeg" /\ w.set.warmth = "zero"
                    THEN SetWb("neutral", "camera") ELSE <<>>) \o Tail(agenda)
      /\ Holds(u)'
  <2> HIDE DEF u
  <2> QED
    BY <1>2 DEF NeutralWb, Continue, Holds, signalVars, userVars
<1>4. CASE w.kind = "jpeg" /\ w.set.warmth = "zero"
  <2>1. /\ "neutral" \in Warmths /\ "camera" \in Presets
        /\ SetWb("neutral", "camera") # <<>>
    BY DEF Warmths, Presets, SetWb
  <2>2. /\ AbleSetWb(u, "neutral", "camera")
        /\ AfterNeutral(w) = AfterSetWb(u, "neutral", "camera")
    BY <1>1, <1>4 DEF AbleNeutral, AfterNeutral
  <2> HIDE DEF u
  <2>3. Leads(SetWb("neutral", "camera"), u, AfterNeutral(w))
    BY <1>2, <2>1, <2>2, LeadSetWb
  <2> QED
    BY <1>1, <1>3, <1>4, <2>1, <2>3, MovesOn
<1>5. CASE ~(w.kind = "jpeg" /\ w.set.warmth = "zero")
  <2>1. AfterNeutral(w) = u
    BY <1>5 DEF AfterNeutral
  <2> HIDE DEF u
  <2>2. agenda' = <<>> \o Tail(agenda)
    BY <1>3, <1>5
  <2> QED
    BY <1>1, <1>3, <2>1, <2>2, MovesTo
<1> QED
  BY <1>4, <1>5

(* Connect. *)
LEMMA Appended ==
  ASSUME NEW S, NEW x \in S, NEW y \in S, NEW z \in S
  PROVE  /\ Append(<<>>, x) = <<x>> /\ Append(<<x>>, y) = <<x, y>>
         /\ Append(<<x, y>>, z) = <<x, y, z>>
<1>1. <<>> \in Seq(S) /\ <<x>> \in Seq(S) /\ <<x>> \o <<y>> \in Seq(S)
  OBVIOUS
<1>2. <<x>> \o <<y>> = <<x, y>>
  BY JoinTwo
<1>3. (<<x>> \o <<y>>) \o <<z>> = <<x, y, z>>
  BY JoinThree
<1>4. Append(<<>>, x) = <<>> \o <<x>> /\ Append(<<x>>, y) = <<x>> \o <<y>>
  BY <1>1, AppendIsConcat
<1>5. Append(<<x>> \o <<y>>, z) = (<<x>> \o <<y>>) \o <<z>>
  BY <1>1, AppendIsConcat
<1>6. <<>> \o <<x>> = <<x>>
  BY <1>1, ConcatEmptySeq
<1> QED
  BY <1>2, <1>3, <1>4, <1>5, <1>6

LEMMA OrderedOn ==
  ASSUME NEW w \in World, NEW c, AbleConnect(w, c)
  PROVE  InOrder(w.link \union {c}) = Append(InOrder(w.link), c)
<1>0. /\ Append(<<>>, "loupe") = <<"loupe">>
      /\ Append(<<"loupe">>, "navigator") = <<"loupe", "navigator">>
      /\ Append(<<"loupe", "navigator">>, "view") = <<"loupe", "navigator", "view">>
  <2>1. "loupe" \in Chains /\ "navigator" \in Chains /\ "view" \in Chains
    BY DEF Chains
  <2> QED
    BY <2>1, Appended
<1>1. CASE w.link = {} /\ c = "loupe"
  <2>1. w.link \union {c} = {"loupe"} /\ {"loupe"} # {}
    BY <1>1
  <2>2. InOrder(w.link) = <<>> /\ InOrder(w.link \union {c}) = <<"loupe">>
    BY <1>1, <2>1 DEF InOrder
  <2> QED
    BY <1>0, <1>1, <2>2
<1>2. CASE w.link = {"loupe"} /\ c = "navigator"
  <2>1. w.link \union {c} = {"loupe", "navigator"}
    BY <1>2
  <2>2. w.link # {} /\ {"loupe", "navigator"} # {} /\ {"loupe", "navigator"} # {"loupe"}
    BY <1>2
  <2>3. InOrder(w.link) = <<"loupe">>
        /\ InOrder(w.link \union {c}) = <<"loupe", "navigator">>
    BY <1>2, <2>1, <2>2 DEF InOrder
  <2> QED
    BY <1>0, <1>2, <2>3
<1>3. CASE w.link = {"loupe", "navigator"} /\ c = "view"
  <2> DEFINE all == {"loupe", "navigator", "view"}
  <2>1. w.link \union {c} = all
    BY <1>3
  <2>2. all # {} /\ all # {"loupe"} /\ all # {"loupe", "navigator"}
        /\ w.link # {} /\ w.link # {"loupe"}
    BY <1>3
  <2> HIDE DEF all
  <2>3. InOrder(w.link) = <<"loupe", "navigator">>
        /\ InOrder(w.link \union {c}) = <<"loupe", "navigator", "view">>
    BY <1>3, <2>1, <2>2 DEF InOrder
  <2> QED
    BY <1>0, <1>3, <2>3
<1> QED
  BY <1>1, <1>2, <1>3, ConnectNext DEF NextToLink

LEMMA StepConnect ==
  ASSUME NEW w, NEW v, Holds(w), Ok(Head(agenda), w, v), At("connect"), Connect
  PROVE  Moves(v)
<1>0. PICK c : c = Head(agenda).chain
  OBVIOUS
<1> DEFINE u == Linking(w, c)
<1>1. /\ w \in World /\ v \in World /\ c \in Chains /\ AbleConnect(w, c)
      /\ Below(v, AfterConnect(w, c))
  BY <1>0, ConnectOk DEF At
<1>2. /\ u \in World /\ u.link = w.link \union {c}
      /\ u.kind = w.kind /\ u.set = w.set /\ u.todo = w.todo /\ u.commit = w.commit
      /\ u.exposure = w.exposure /\ u.wb = w.wb
      /\ u.follows = w.follows /\ u.mute = w.mute /\ u.prof = w.prof
      /\ u.profile = w.profile /\ u.choice = w.choice /\ u.switch = w.switch
      /\ u.unseen = w.unseen /\ u.opened = w.opened
  BY <1>1, ConnectNext, LinkingIs
<1>3. AfterConnect(w, c) = AfterRead(u, c, AllBits) /\ AbleRead(u, c, AllBits)
  BY <1>1, ConnectWorld
<1> HIDE DEF u
<1>4. linked' = Append(linked, c) /\ agenda' = <<Read(c, AllBits)>> \o Tail(agenda)
      /\ UNCHANGED <<photoVars, settings, commit, todo, tool, mute, follows, chain,
                     userVars, unseen>>
  BY <1>0 DEF Connect, Continue
<1>5. linked' = InOrder(u.link)
  BY <1>1, <1>2, <1>4, OrderedOn DEF Holds
<1>6. Holds(u)'
  BY <1>2, <1>4, <1>5 DEF Holds, photoVars, userVars
<1>7. Leads(<<Read(c, AllBits)>>, u, AfterConnect(w, c))
  BY <1>1, <1>2, <1>3, LeadRead
<1>8. <<Read(c, AllBits)>> # <<>>
  OBVIOUS
<1> QED
  BY <1>1, <1>4, <1>6, <1>7, <1>8, MovesOn

(* ReadSettings. *)

\* r is w, with the settings s and no other change but in what is known.
Redone(r, w, s) ==
    /\ r \in World /\ Framed(r, w) /\ r.set = s /\ r.todo = w.todo
    /\ r.choice = w.choice /\ r.switch = w.switch /\ r.unseen = w.unseen
    /\ w.exposure \subseteq r.exposure /\ w.wb \subseteq r.wb

LEMMA Listed ==
  ASSUME NEW w \in World, NEW bits \in SUBSET AllBits, w.commit > 0
  PROVE  /\ AbleAnnounce(w, bits)
         /\ AfterAnnounce(w, bits)
              = Known(w, w.set, w.todo \union bits, w.choice, w.exposure, w.wb)
         /\ AfterAnnounce(w, bits) \in World /\ Framed(AfterAnnounce(w, bits), w)
         /\ AfterAnnounce(w, bits).set = w.set
         /\ AfterAnnounce(w, bits).todo = w.todo \union bits
         /\ AfterAnnounce(w, bits).choice = w.choice
         /\ AfterAnnounce(w, bits).switch = w.switch
         /\ AfterAnnounce(w, bits).unseen = w.unseen
         /\ AfterAnnounce(w, bits).exposure = w.exposure
         /\ AfterAnnounce(w, bits).wb = w.wb
<1> DEFINE u == Known(w, w.set, w.todo \union bits, w.choice, w.exposure, w.wb)
<1>1. w.todo \union bits \in SUBSET AllBits /\ w.commit # 0
  BY WorldHas
<1>2. /\ u \in World /\ Framed(u, w) /\ u.set = w.set /\ u.todo = w.todo \union bits
      /\ u.choice = w.choice /\ u.switch = w.switch /\ u.unseen = w.unseen
      /\ u.exposure = w.exposure /\ u.wb = w.wb
  BY <1>1, KnownIs, WorldHas
<1>3. AbleAnnounce(w, bits) /\ AfterAnnounce(w, bits) = u
  BY <1>1 DEF AbleAnnounce, AfterAnnounce
<1> HIDE DEF u
<1>4. u = Known(w, w.set, w.todo \union bits, w.choice, w.exposure, w.wb)
  BY DEF u
<1> QED
  BY <1>2, <1>3, <1>4

LEMMA RecalcOff ==
  ASSUME NEW w \in World
  PROVE  /\ AblePut(w, "recalc", FALSE)
         /\ Redone(AfterPut(w, "recalc", FALSE), w, [w.set EXCEPT !.recalc = FALSE])
<1> DEFINE u == Stored(w, "recalc", FALSE)
<1>1. Typed("recalc", FALSE)
  BY TypedValues
<1>2. StoredAs(u, w, "recalc", FALSE)
  BY <1>1, StoredThus
<1>3. RaisedBy("recalc", FALSE) = {}
  BY DEF RaisedBy
<1>4. /\ AblePut(w, "recalc", FALSE) = AbleAnnounce(u, {})
      /\ AfterPut(w, "recalc", FALSE) = AfterAnnounce(u, {})
  BY <1>3 DEF AblePut, AfterPut
<1> HIDE DEF u
<1>5. Redone(u, w, [w.set EXCEPT !.recalc = FALSE])
  BY <1>2 DEF Redone, StoredAs
<1>6. CASE u.commit > 0
  <2>1. /\ AbleAnnounce(u, {}) /\ AfterAnnounce(u, {}) \in World
        /\ Framed(AfterAnnounce(u, {}), u)
        /\ AfterAnnounce(u, {}).set = u.set
        /\ AfterAnnounce(u, {}).todo = u.todo \union {}
        /\ AfterAnnounce(u, {}).choice = u.choice
        /\ AfterAnnounce(u, {}).switch = u.switch
        /\ AfterAnnounce(u, {}).unseen = u.unseen
        /\ AfterAnnounce(u, {}).exposure = u.exposure
        /\ AfterAnnounce(u, {}).wb = u.wb
    BY ZenonT(60), <1>5, <1>6, Listed DEF Redone
  <2>2. u.todo \union {} = u.todo
    OBVIOUS
  <2> QED
    BY <1>4, <1>5, <2>1, <2>2 DEF Redone, Framed, Placed
<1>7. CASE ~(u.commit > 0)
  BY <1>4, <1>5, <1>7 DEF AbleAnnounce, AfterAnnounce
<1> QED
  BY <1>6, <1>7

LEMMA QuietWb ==
  ASSUME NEW w \in World, ~w.set.recalc
  PROVE  /\ AbleWb(w) /\ Redone(AfterWb(w), w, w.set)
         /\ Listening(w) => {"toolbox", "navigator"} \subseteq AfterWb(w).wb
<1>1. CASE Listening(w)
  <2>1. {"wb"} \in SUBSET AllBits /\ w.follows
    BY <1>1 DEF AllBits, Listening
  <2>2. /\ AbleToolbox(w, {"wb"}) /\ Still(AfterToolbox(w, {"wb"}), w)
        /\ Passed(AfterToolbox(w, {"wb"}), w, {"wb"})
    BY <2>1, QuietToolbox
  <2>3. AbleWb(w) /\ AfterWb(w) = AfterToolbox(w, {"wb"})
    BY <1>1, <2>2 DEF AbleWb, AfterWb
  <2> QED
    BY <1>1, <2>1, <2>2, <2>3 DEF Still, Passed, Redone
<1>2. CASE ~Listening(w)
  BY <1>2 DEF AbleWb, AfterWb, Redone, Framed, Placed
<1> QED
  BY <1>1, <1>2

LEMMA ThreeInTurn ==
  ASSUME NEW a, NEW b, NEW c, NEW u, NEW v, NEW w, NEW r,
         Leads(<<a>>, u, v), Leads(<<b>>, v, w), Leads(<<c>>, w, r)
  PROVE  Leads(<<a, b, c>>, u, r)
<1>1. b \in Calls /\ c \in Calls
  BY OneCall
<1>2. Leads(<<b, c>>, v, r)
  BY LeadsTwo
<1> QED
  BY <1>1, <1>2, LeadsThree

\* The rest of a conversion: recalc is cleared, and the toolbox told.
LEMMA RecalcRest ==
  ASSUME NEW u, NEW d \in World, NEW t, Leads(<<Set("temp", t)>>, u, d)
  PROVE  \E r : /\ Leads(AfterRecalc(t), u, r)
                /\ Redone(r, d, [d.set EXCEPT !.recalc = FALSE])
                /\ Listening(d) => {"toolbox", "navigator"} \subseteq r.wb
<1> DEFINE e == AfterPut(d, "recalc", FALSE)
           r == AfterWb(e)
           s == [d.set EXCEPT !.recalc = FALSE]
<1>1. AblePut(d, "recalc", FALSE) /\ Redone(e, d, s)
  BY RecalcOff
<1>2. Typed("recalc", FALSE)
  BY TypedValues
<1>3. AbleSet(d, "recalc", FALSE) /\ AfterSet(d, "recalc", FALSE) = e
  BY <1>1 DEF AbleSet, AfterSet, Same
<1>4. Leads(<<Set("recalc", FALSE)>>, d, e)
  BY <1>2, <1>3, LeadSet
<1> HIDE DEF e
<1>5. e \in World /\ ~e.set.recalc
  BY <1>1, WorldHas, RecalcDone DEF Redone
<1>6. /\ AbleWb(e) /\ Redone(r, e, e.set)
      /\ Listening(e) => {"toolbox", "navigator"} \subseteq r.wb
  BY <1>5, QuietWb
<1>7. Leads(<<Call("wb_recalculated")>>, e, r)
  BY <1>5, <1>6, LeadWb
<1> HIDE DEF r, s
<1>8. Leads(AfterRecalc(t), u, r)
  BY <1>4, <1>7, ThreeInTurn DEF AfterRecalc
<1>9. Redone(r, d, s)
  BY <1>1, <1>6 DEF Redone, Framed, Placed
<1>10. Listening(e) = Listening(d)
  BY <1>1 DEF Redone, Framed, Placed, Listening
<1> QED
  BY <1>6, <1>8, <1>9, <1>10 DEF s

\* The world of a filter c that converts, before it stores what it found: wb are
\* those that know the balance.
Converting(w, c, bits, wb) ==
    Known(w, w.set, w.todo, w.profile, Learnt(w, c, bits).exposure, wb)

LEMMA ConvertingIs ==
  ASSUME NEW w \in World, NEW c \in Chains, NEW bits \in SUBSET AllBits,
         NEW wb \in SUBSET Holders
  PROVE  LET u == Converting(w, c, bits, wb)
         IN  /\ u \in World /\ Framed(u, w) /\ u.set = w.set /\ u.todo = w.todo
             /\ u.choice = w.profile /\ u.switch = w.switch /\ u.unseen = w.unseen
             /\ u.exposure = Learnt(w, c, bits).exposure /\ u.wb = wb
<1>1. Learnt(w, c, bits).exposure \in SUBSET Holders
  BY LearntIs, WorldHas DEF Holders
<1> QED
  BY <1>1, KnownIs, WorldHas DEF Converting

LEMMA KeptLeads ==
  ASSUME NEW w \in World, NEW c \in Chains, NEW bits \in SUBSET AllBits,
         Converted(w, c) = w.set.temp
  PROVE  \E r : /\ Leads(AfterRecalc(w.set.temp),
                         Converting(w, c, bits, Learnt(w, c, bits).wb), r)
                /\ Below(Kept(w, c, bits), r)
<1> DEFINE t == w.set.temp
           u == Converting(w, c, bits, Learnt(w, c, bits).wb)
<1>1. Learnt(w, c, bits).wb \in SUBSET Holders
  BY LearntIs, WorldHas DEF Holders
<1>2. /\ u \in World /\ Framed(u, w) /\ u.set = w.set /\ u.todo = w.todo
      /\ u.choice = w.profile /\ u.switch = w.switch /\ u.unseen = w.unseen
      /\ u.exposure = Learnt(w, c, bits).exposure /\ u.wb = Learnt(w, c, bits).wb
  BY <1>1, ConvertingIs
<1> HIDE DEF u
<1>3. Typed("temp", t)
  BY WorldHas, SettingsHas, TypedValues
<1>4. Same(u, "temp", t)
  BY <1>2 DEF Same
<1>5. AbleSet(u, "temp", t) /\ AfterSet(u, "temp", t) = u
  BY <1>4 DEF AbleSet, AfterSet
<1>6. Leads(<<Set("temp", t)>>, u, u)
  BY <1>2, <1>3, <1>5, LeadSet
<1>7. PICK r : /\ Leads(AfterRecalc(t), u, r)
               /\ Redone(r, u, [u.set EXCEPT !.recalc = FALSE])
  BY <1>2, <1>6, RecalcRest
<1>8. /\ Framed(Kept(w, c, bits), w)
      /\ Kept(w, c, bits).set = [w.set EXCEPT !.recalc = FALSE]
      /\ Kept(w, c, bits).todo = w.todo /\ Kept(w, c, bits).choice = w.profile
      /\ Kept(w, c, bits).switch = w.switch /\ Kept(w, c, bits).unseen = w.unseen
      /\ Kept(w, c, bits).exposure = Learnt(w, c, bits).exposure
      /\ Kept(w, c, bits).wb = Learnt(w, c, bits).wb
  BY KeptIs
<1>9. Below(Kept(w, c, bits), r)
  BY <1>2, <1>7, <1>8 DEF Below, Redone, Framed, Placed
<1> QED
  BY <1>7, <1>9 DEF u

\* d is w after c has stored the temperature t that it found.
Announced(d, w, c, bits, t) ==
    /\ d \in World /\ Framed(d, w)
    /\ [d.set EXCEPT !.recalc = FALSE]
          = [w.set EXCEPT !.temp = t, !.preset = None, !.recalc = FALSE]
    /\ d.todo = IF w.commit > 0 THEN w.todo \union {"wb"} ELSE w.todo
    /\ d.choice = w.profile /\ d.switch = w.switch /\ d.unseen = w.unseen
    /\ Learnt(w, c, bits).exposure \subseteq d.exposure
    /\ w.commit = 0 => w.link \union (IF w.follows THEN {"toolbox"} ELSE {})
                            \subseteq d.wb

\* The temperature is stored, with the preset dropped, in a commit or not.
LEMMA TempAnnounced ==
  ASSUME NEW w \in World, NEW c \in Chains, NEW bits \in SUBSET AllBits,
         w.set.recalc, "wb" \in bits, Converted(w, c) # w.set.temp,
         AbleRead(w, c, bits)
  PROVE  LET u == Converting(w, c, bits, {})
             t == Converted(w, c)
         IN  /\ Typed("temp", t) /\ AbleSet(u, "temp", t)
             /\ Announced(AfterSet(u, "temp", t), w, c, bits, t)
<1> DEFINE u == Converting(w, c, bits, {})
           t == Converted(w, c)
           a == Stored(u, "temp", t)
           p == Stored(a, "preset", None)
           b == AfterAnnounce(p, {"wb"})
           d == AfterAnnounce(b, {"wb"})
           x == Learnt(w, c, bits).exposure
<1>1. /\ u \in World /\ Framed(u, w) /\ u.set = w.set /\ u.todo = w.todo
      /\ u.choice = w.profile /\ u.switch = w.switch /\ u.unseen = w.unseen
      /\ u.exposure = x /\ u.wb = {}
  <2>1. PICK none \in SUBSET Holders : none = {}
    OBVIOUS
  <2>2. LET y == Converting(w, c, bits, none)
        IN  /\ y \in World /\ Framed(y, w) /\ y.set = w.set /\ y.todo = w.todo
            /\ y.choice = w.profile /\ y.switch = w.switch /\ y.unseen = w.unseen
            /\ y.exposure = Learnt(w, c, bits).exposure /\ y.wb = none
    BY ConvertingIs
  <2> QED
    BY <2>1, <2>2
<1> HIDE DEF u
<1>2. t \in Temps /\ Typed("temp", t) /\ Typed("preset", None)
  BY ConvertedType, TypedValues DEF Presets
<1>3. /\ c \in w.link /\ (w.follows => ~w.mute /\ w.link = Chains)
      /\ w.prof[IF w.follows THEN "navigator" ELSE "loupe"] = w.prof[c]
  BY DEF AbleRead, Converts
<1>4. t = Asked(w.prof[c], w.set.warmth)
  BY DEF Converted
<1>5. t # w.set.temp
  OBVIOUS
<1> HIDE DEF t, x
<1>6. StoredAs(a, u, "temp", t)
  BY <1>1, <1>2, StoredThus
<1> HIDE DEF a
<1>7. a \in World
  BY <1>6 DEF StoredAs
<1>8. StoredAs(p, a, "preset", None)
  BY <1>2, <1>7, StoredThus
<1>9. RaisedBy("preset", None) = {"wb"} /\ RaisedBy("temp", t) = {"wb"}
      /\ {"wb"} \in SUBSET AllBits
  BY DEF RaisedBy, AllBits
<1>10. /\ AfterPut(a, "preset", None) = b
       /\ AblePut(a, "preset", None) = AbleAnnounce(p, {"wb"})
  BY <1>9 DEF AfterPut, AblePut
<1>11. ~Same(u, "temp", t)
  BY <1>1, <1>5 DEF Same
<1>12. /\ AfterSet(u, "temp", t) = d
       /\ AbleAnnounce(p, {"wb"}) /\ AbleAnnounce(b, {"wb"}) => AbleSet(u, "temp", t)
  BY <1>10, <1>11 DEF AfterSet, AbleSet, a
<1> HIDE DEF p, b, d
<1>13. /\ p \in World /\ Framed(p, w) /\ p.todo = w.todo /\ p.choice = w.profile
       /\ p.switch = w.switch /\ p.unseen = w.unseen /\ p.exposure = x /\ p.wb = {}
       /\ p.set = [[w.set EXCEPT !["temp"] = t] EXCEPT !["preset"] = None]
  BY <1>1, <1>6, <1>8 DEF StoredAs, Framed, Placed
<1>14. /\ p.set.recalc = w.set.recalc /\ p.set.temp = t
       /\ p.set.warmth = w.set.warmth
       /\ [p.set EXCEPT !.recalc = FALSE]
             = [w.set EXCEPT !.temp = t, !.preset = None, !.recalc = FALSE]
       /\ [[p.set EXCEPT !.recalc = FALSE] EXCEPT !.recalc = FALSE]
             = [w.set EXCEPT !.temp = t, !.preset = None, !.recalc = FALSE]
  <2>1. w.set \in SettingsType
    BY WorldHas
  <2> QED
    BY <1>2, <1>13, <2>1 DEF SettingsType, Presets
<1>15. CASE w.commit > 0
  <2>1. p.commit > 0
    BY <1>13, <1>15 DEF Framed
  <2>2. /\ AbleAnnounce(p, {"wb"}) /\ b \in World /\ Framed(b, p)
        /\ b.set = p.set /\ b.todo = p.todo \union {"wb"} /\ b.choice = p.choice
        /\ b.switch = p.switch /\ b.unseen = p.unseen
        /\ b.exposure = p.exposure /\ b.wb = p.wb
    BY ZenonT(60), <1>9, <1>13, <2>1, Listed DEF b
  <2>3. b.commit > 0
    BY <2>1, <2>2 DEF Framed
  <2>4. /\ AbleAnnounce(b, {"wb"}) /\ d \in World /\ Framed(d, b)
        /\ d.set = b.set /\ d.todo = b.todo \union {"wb"} /\ d.choice = b.choice
        /\ d.switch = b.switch /\ d.unseen = b.unseen
        /\ d.exposure = b.exposure /\ d.wb = b.wb
    BY <1>9, <2>2, <2>3, Listed DEF d
  <2>5. d.todo = w.todo \union {"wb"}
    BY <1>13, <2>2, <2>4
  <2>6. Framed(d, w)
    BY <1>13, <2>2, <2>4, FramedTransitive
  <2>7. Announced(d, w, c, bits, t)
    <3>1. w.commit # 0
      BY <1>15, WorldHas
    <3> QED
      BY <1>13, <1>14, <1>15, <2>2, <2>4, <2>5, <2>6, <3>1 DEF Announced, x
  <2> QED
    BY <1>2, <1>12, <2>2, <2>4, <2>7 DEF u, t
<1>16. CASE w.commit = 0
  <2>1. p.commit = 0 /\ p.link = w.link /\ p.follows = w.follows /\ p.mute = w.mute
        /\ p.prof = w.prof /\ p.profile = w.profile
    BY <1>13, <1>16 DEF Framed, Placed
  <2>2. b = AfterEmit(p, {"wb"})
        /\ (AbleEmit(p, {"wb"}) => AbleAnnounce(p, {"wb"}))
    BY <2>1 DEF b, AfterAnnounce, AbleAnnounce
  <2>3. AbleEmit(p, {"wb"}) /\ Turned(b, p) /\ Passed(b, p, {"wb"})
    <3>1. CASE w.follows
      <4>1. Converted(p, "navigator") = p.set.temp
        BY <1>3, <1>4, <1>14, <2>1, <3>1 DEF Converted
      <4> QED
        BY <1>9, <1>13, <1>14, <2>1, <2>2, <3>1, <4>1, KeptEmit
    <3>2. CASE ~w.follows
      <4>1. Converted(p, "loupe") = p.set.temp
        BY <1>3, <1>4, <1>14, <2>1, <3>2 DEF Converted
      <4>2. "loupe" \in p.link
        BY <1>3, <2>1, WorldHas DEF Links, Chains
      <4> QED
        BY <1>9, <1>13, <1>14, <2>1, <2>2, <3>2, <4>1, <4>2, LoupeEmit
    <3> QED
      BY <3>1, <3>2
  <2>4. b \in World /\ ~b.set.recalc /\ b.commit = 0 /\ b.link = w.link
        /\ b.follows = w.follows /\ b.mute = w.mute /\ b.todo = w.todo
        /\ b.choice = w.profile /\ b.set = [p.set EXCEPT !.recalc = FALSE]
        /\ Framed(b, p) /\ x \subseteq b.exposure
    BY <1>13, <2>1, <2>3, RecalcDone, WorldHas DEF Turned, Framed, Placed
  <2>5. b.switch = w.switch /\ b.unseen = w.unseen
    BY <1>13, <2>3 DEF Passed
  <2>6. d = AfterEmit(b, {"wb"})
        /\ (AbleEmit(b, {"wb"}) => AbleAnnounce(b, {"wb"}))
    BY <2>4 DEF d, AfterAnnounce, AbleAnnounce
  <2>7. /\ AbleEmit(b, {"wb"}) /\ Still(d, b) /\ Passed(d, b, {"wb"})
        /\ Spread(d, b, {"wb"})
    BY <1>9, <2>4, <2>6, QuietEmit
  <2>8. d.switch = w.switch /\ d.unseen = w.unseen
    BY <2>5, <2>7 DEF Passed
  <2>9. w.link \subseteq d.wb /\ (w.follows => "toolbox" \in d.wb)
    BY <1>3, <2>4, <2>7 DEF Spread, Passed, Listening
  <2>10. Framed(d, w)
    BY <1>13, <2>4, <2>7, FramedTransitive DEF Still
  <2>11. [d.set EXCEPT !.recalc = FALSE]
             = [w.set EXCEPT !.temp = t, !.preset = None, !.recalc = FALSE]
    BY <1>14, <2>4, <2>7 DEF Still
  <2>12. /\ d \in World /\ d.todo = w.todo /\ d.choice = w.profile /\ x \subseteq d.exposure
         /\ ~(w.commit > 0)
    BY <1>16, <2>4, <2>7 DEF Still
  <2>13. Announced(d, w, c, bits, t)
    BY <2>8, <2>9, <2>10, <2>11, <2>12 DEF Announced, x
  <2> QED
    BY <1>2, <1>12, <2>2, <2>3, <2>6, <2>7, <2>13 DEF u, t
<1> QED
  BY <1>15, <1>16, WorldHas

LEMMA MovedLeads ==
  ASSUME NEW w \in World, NEW c \in Chains, NEW bits \in SUBSET AllBits,
         w.set.recalc, "wb" \in bits, Converted(w, c) # w.set.temp,
         AbleRead(w, c, bits)
  PROVE  \E r : /\ Leads(AfterRecalc(Converted(w, c)), Converting(w, c, bits, {}), r)
                /\ Below(Moved(w, c, bits), r)
<1> DEFINE u == Converting(w, c, bits, {})
           t == Converted(w, c)
           d == AfterSet(u, "temp", t)
<1>1. Typed("temp", t) /\ AbleSet(u, "temp", t) /\ Announced(d, w, c, bits, t)
  BY TempAnnounced
<1>2. u \in World
  BY ConvertingIs
<1>3. Leads(<<Set("temp", t)>>, u, d)
  BY <1>1, <1>2, LeadSet
<1> HIDE DEF u, t, d
<1>4. d \in World
  BY <1>1 DEF Announced
<1>5. PICK r : /\ Leads(AfterRecalc(t), u, r)
               /\ Redone(r, d, [d.set EXCEPT !.recalc = FALSE])
               /\ Listening(d) => {"toolbox", "navigator"} \subseteq r.wb
  BY <1>3, <1>4, RecalcRest
<1>6. /\ Framed(Moved(w, c, bits), w)
      /\ Moved(w, c, bits).set = [w.set EXCEPT !.temp = t, !.preset = None,
                                               !.recalc = FALSE]
      /\ Moved(w, c, bits).todo
            = (IF w.commit > 0 THEN w.todo \union {"wb"} ELSE w.todo)
      /\ Moved(w, c, bits).choice = w.profile
      /\ Moved(w, c, bits).switch = w.switch /\ Moved(w, c, bits).unseen = w.unseen
      /\ Moved(w, c, bits).exposure = Learnt(w, c, bits).exposure
      /\ Moved(w, c, bits).wb = Informed(w, c)
  BY ZenonT(60), MovedIs DEF t
<1>7. Informed(w, c) \subseteq r.wb
  <2>1. CASE w.commit = 0
    BY <1>1, <1>5, <2>1 DEF Announced, Informed, Redone
  <2>2. CASE w.commit # 0 /\ w.follows
    <3>1. Listening(d)
      BY <1>1, <2>2 DEF Announced, Listening, Framed, Placed, AbleRead, Converts
    <3> QED
      BY <1>5, <2>2, <3>1 DEF Informed
  <2>3. CASE w.commit # 0 /\ ~w.follows
    BY <2>3 DEF Informed
  <2> QED
    BY <2>1, <2>2, <2>3
<1>8. Below(Moved(w, c, bits), r)
  BY <1>1, <1>5, <1>6, <1>7 DEF Below, Announced, Redone, Framed, Placed
<1> QED
  BY <1>5, <1>8 DEF u, t

LEMMA StepRead ==
  ASSUME NEW w, NEW v, Holds(w), Ok(Head(agenda), w, v), At("read"), ReadSettings,
         RestType
  PROVE  Moves(v)
<1>0. PICK c, bits : c = Head(agenda).chain /\ bits = Head(agenda).bits
  OBVIOUS
<1>1. /\ w \in World /\ v \in World /\ c \in Chains /\ bits \in SUBSET AllBits
      /\ AbleRead(w, c, bits) /\ Below(v, AfterRead(w, c, bits))
  BY <1>0, ReadOk DEF At
<1>2. PICK conv, t : /\ conv = ("wb" \in bits /\ settings.recalc)
                     /\ t = IF conv THEN Recalculated(c) ELSE settings.temp
  OBVIOUS
<1>3. /\ chain' = [chain EXCEPT ![c] =
             [profile  |-> chain[c].profile,
              exposure |-> IF "exposure" \in bits THEN settings.exposure
                                                  ELSE chain[c].exposure,
              temp     |-> IF "wb" \in bits THEN t ELSE chain[c].temp,
              warmth   |-> IF "wb" \in bits THEN settings.warmth ELSE chain[c].warmth]]
      /\ choice' = (IF conv THEN profile ELSE choice)
      /\ agenda' = (IF conv THEN AfterRecalc(t) ELSE <<>>) \o Tail(agenda)
      /\ UNCHANGED <<photoVars, settings, commit, todo, tool, mute, follows,
                     linked, ops, want, before, late, unseen>>
  BY <1>0, <1>2 DEF ReadSettings, Continue
<1>4. chain \in [Chains -> [profile : Choices, exposure : Exposures,
                            temp : Temps, warmth : Warmths]]
  BY DEF RestType
<1>5. ASSUME NEW d \in Chains
      PROVE  /\ chain'[d].profile = chain[d].profile
             /\ chain'[d].exposure = IF d = c /\ "exposure" \in bits
                                     THEN settings.exposure ELSE chain[d].exposure
             /\ chain'[d].temp = IF d = c /\ "wb" \in bits THEN t ELSE chain[d].temp
             /\ chain'[d].warmth = IF d = c /\ "wb" \in bits
                                   THEN settings.warmth ELSE chain[d].warmth
  <2>1. CASE d = c
    BY <1>1, <1>3, <1>4, <2>1
  <2>2. CASE d # c
    BY <1>1, <1>3, <1>4, <2>2
  <2> QED
    BY <2>1, <2>2
<1>6. w.prof = [d \in Chains |-> chain'[d].profile]
  BY <1>5 DEF Holds
<1>7. conv = Converts(w, bits)
  BY <1>2 DEF Converts, Holds
<1>8. Recalculated(c) = Converted(w, c)
  BY <1>1 DEF Recalculated, Converted, Asked, Holds
<1>9. "toolbox" \notin Chains /\ c \in Holders
  BY <1>1 DEF Chains, Holders
<1> DEFINE l == Learnt(w, c, bits)
<1>10. /\ l \in World /\ Framed(l, w) /\ l.set = w.set /\ l.todo = w.todo
       /\ l.choice = w.choice /\ l.switch = w.switch /\ l.unseen = w.unseen
       /\ l.exposure = w.exposure \union (IF "exposure" \in bits THEN {c} ELSE {})
       /\ l.wb = w.wb \union (IF "wb" \in bits THEN {c} ELSE {})
  BY <1>1, <1>9, LearntIs
<1> HIDE DEF l
<1>13. /\ kind' = kind /\ profile' = profile /\ opened' = opened /\ settings' = settings
       /\ commit' = commit /\ todo' = todo /\ tool' = tool /\ mute' = mute
       /\ follows' = follows /\ linked' = linked /\ unseen' = unseen
  BY <1>3 DEF photoVars
<1>14. ASSUME NEW u, Framed(u, w), u.set = w.set, u.todo = w.todo, u.choice = choice',
              u.switch = w.switch, u.unseen = w.unseen, u.exposure = l.exposure,
              u.wb \subseteq l.wb, t = settings.temp \/ u.wb = {}
       PROVE  Holds(u)'
  <2>1. /\ w.kind = kind /\ w.set = settings /\ w.todo = todo /\ w.commit = commit
        /\ linked = InOrder(w.link) /\ w.follows = follows /\ w.mute = mute
        /\ w.profile = profile /\ w.switch = tool.switch /\ w.unseen = unseen
        /\ w.opened = opened
        /\ \A d \in Chains : d \in w.exposure => chain[d].exposure = settings.exposure
        /\ \A d \in Chains : d \in w.wb => /\ chain[d].temp = settings.temp
                                         /\ chain[d].warmth = settings.warmth
        /\ "toolbox" \in w.exposure => tool.exposure = settings.exposure
        /\ "toolbox" \in w.wb => tool.temp = settings.temp
    BY DEF Holds
  <2>2. /\ u.kind = w.kind /\ u.link = w.link /\ u.follows = w.follows
        /\ u.mute = w.mute /\ u.prof = w.prof /\ u.profile = w.profile
        /\ u.opened = w.opened /\ u.commit = w.commit
    BY <1>14 DEF Framed, Placed
  <2>3. /\ u.kind = kind' /\ u.set = settings' /\ u.todo = todo' /\ u.commit = commit'
        /\ linked' = InOrder(u.link) /\ u.follows = follows' /\ u.mute = mute'
        /\ u.profile = profile' /\ u.choice = choice' /\ u.switch = tool'.switch
        /\ u.unseen = unseen' /\ u.opened = opened'
    BY <1>13, <1>14, <2>1, <2>2
  <2>4. u.prof = [d \in Chains |-> chain'[d].profile]
    BY <1>6, <2>2
  <2>5. ASSUME NEW d \in Chains, d \in u.exposure
        PROVE  chain'[d].exposure = settings'.exposure
    BY <1>5, <1>10, <1>13, <1>14, <2>1, <2>5
  <2>6. ASSUME NEW d \in Chains, d \in u.wb
        PROVE  chain'[d].temp = settings'.temp /\ chain'[d].warmth = settings'.warmth
    BY <1>5, <1>10, <1>13, <1>14, <2>1, <2>6
  <2>7. /\ "toolbox" \in u.exposure => tool'.exposure = settings'.exposure
        /\ "toolbox" \in u.wb => tool'.temp = settings'.temp
    BY <1>1, <1>9, <1>10, <1>13, <1>14, <2>1
  <2> QED
    BY <2>3, <2>4, <2>5, <2>6, <2>7 DEF Holds
<1>11. CASE ~conv
  <2>1. AfterRead(w, c, bits) = l
    BY <1>7, <1>11 DEF AfterRead, l
  <2>2. Holds(l)'
    <3>1. t = settings.temp
      BY <1>2, <1>11
    <3>2. l.choice = choice'
      BY <1>3, <1>10, <1>11 DEF Holds
    <3> QED
      BY <1>10, <1>14, <3>1, <3>2
  <2>3. agenda' = <<>> \o Tail(agenda)
    BY <1>3, <1>11
  <2> QED
    BY <1>1, <2>1, <2>2, <2>3, MovesTo
<1>12. CASE conv
  <2>1. /\ w.set.recalc /\ "wb" \in bits /\ t = Converted(w, c) /\ choice' = profile
        /\ agenda' = AfterRecalc(t) \o Tail(agenda)
    BY <1>2, <1>3, <1>8, <1>12 DEF Holds
  <2>2. AfterRecalc(t) # <<>>
    BY DEF AfterRecalc
  <2>3. l.exposure \in SUBSET Holders /\ l.wb \in SUBSET Holders /\ {} \in SUBSET Holders
    BY <1>10, WorldHas
  <2>4. ASSUME NEW b \in SUBSET l.wb, t = settings.temp \/ b = {}
        PROVE  Holds(Converting(w, c, bits, b))'
    <3>1. PICK u : u = Converting(w, c, bits, b)
      OBVIOUS
    <3>2. b \in SUBSET Holders
      BY <2>3
    <3>3. /\ Framed(u, w) /\ u.set = w.set /\ u.todo = w.todo
          /\ u.choice = w.profile /\ u.switch = w.switch /\ u.unseen = w.unseen
          /\ u.exposure = l.exposure /\ u.wb = b
      BY <1>1, <3>1, <3>2, ConvertingIs DEF l
    <3>4. u.choice = choice'
      BY <2>1, <3>3 DEF Holds
    <3>6. Holds(u)'
      BY <1>14, <2>4, <3>3, <3>4
    <3> QED
      BY <3>1, <3>6
  <2>5. CASE t = w.set.temp
    <3>1. AfterRead(w, c, bits) = Kept(w, c, bits)
      BY <1>7, <1>12, <2>1, <2>5 DEF AfterRead
    <3>2. PICK r : /\ Leads(AfterRecalc(t), Converting(w, c, bits, l.wb), r)
                   /\ Below(Kept(w, c, bits), r)
      BY <1>1, <2>1, <2>5, KeptLeads DEF l
    <3>3. Holds(Converting(w, c, bits, l.wb))'
      BY <2>4, <2>5 DEF Holds
    <3>4. Below(v, r)
      BY <1>1, <3>1, <3>2, BelowTransitive
    <3> QED
      BY <1>1, <2>1, <2>2, <3>2, <3>3, <3>4, MovesOn
  <2>6. CASE t # w.set.temp
    <3>1. AfterRead(w, c, bits) = Moved(w, c, bits)
      BY <1>7, <1>12, <2>1, <2>6 DEF AfterRead
    <3>2. PICK r : /\ Leads(AfterRecalc(t), Converting(w, c, bits, {}), r)
                   /\ Below(Moved(w, c, bits), r)
      BY <1>1, <2>1, <2>6, MovedLeads
    <3>3. Holds(Converting(w, c, bits, {}))'
      BY <2>4
    <3>4. Below(v, r)
      BY <1>1, <3>1, <3>2, BelowTransitive
    <3> QED
      BY <1>1, <2>1, <2>2, <3>2, <3>3, <3>4, MovesOn
  <2> QED
    BY <2>5, <2>6
<1> QED
  BY <1>11, <1>12

-----------------------------------------------------------------------------
(* Every call keeps the way.                                               *)

LEMMA RunMoves ==
  ASSUME NEW w, NEW v, Holds(w), Ok(Head(agenda), w, v), Run, RestType
  PROVE  Moves(v)
<1>1. CASE At("set") /\ SetProperty
  BY <1>1, StepSet
<1>2. CASE At("announce") /\ Announce
  BY <1>2, StepAnnounce
<1>3. CASE At("emit") /\ EmitChanged
  BY <1>3, StepEmit
<1>4. CASE At("photo") /\ PhotoChanged
  BY <1>4, StepPhoto
<1>5. CASE At("toolbox") /\ ToolboxChanged
  BY <1>5, StepToolbox
<1>6. CASE At("wb_recalculated") /\ WbRecalculated
  BY <1>6, StepWb
<1>7. CASE At("read") /\ ReadSettings
  BY <1>7, StepRead
<1>8. CASE At("start") /\ CommitStart
  BY <1>8, StepStart
<1>9. CASE At("stop") /\ CommitStop
  BY <1>9, StepStop
<1>10. CASE At("stopped") /\ CommitStopped
  BY <1>10, StepStopped
<1>11. CASE At("copy") /\ CopySettings
  BY <1>11, StepCopy
<1>12. CASE At("camera_if_preset") /\ CameraIfPreset
  BY <1>12, StepCameraIf
<1>13. CASE At("auto_if_preset") /\ AutoIfPreset
  BY <1>13, StepAutoIf
<1>14. CASE At("camera") /\ CameraNow
  BY <1>14, StepCamera
<1>15. CASE At("mute") /\ MutePhoto
  BY <1>15, StepMute
<1>16. CASE At("default_preset") /\ DefaultPreset
  BY <1>16, StepDefault
<1>17. CASE At("neutral") /\ NeutralWb
  BY <1>17, StepNeutral
<1>18. CASE At("remember") /\ Remember
  BY <1>18, StepRemember
<1>19. CASE At("profile") /\ SetProfile
  BY <1>19, StepProfile
<1>20. CASE At("connect") /\ Connect
  BY <1>20, StepConnect
<1>21. CASE At("toolbox_set_photo") /\ ToolboxSetPhoto
  BY <1>21, StepSetPhoto
<1> QED
  BY <1>1, <1>2, <1>3, <1>4, <1>5, <1>6, <1>7, <1>8, <1>9, <1>10, <1>11, <1>12, <1>13,
     <1>14, <1>15, <1>16, <1>17, <1>18, <1>19, <1>20, <1>21
     DEF Run

\* What the calls leave to the user.
asked == <<buffer, ops, want, before, late>>

LEMMA RunAsks ==
  ASSUME Run
  PROVE  UNCHANGED asked
<1> USE DEF asked, photoVars, userVars
<1>1. CASE At("set") /\ SetProperty
  BY <1>1 DEF SetProperty
<1>2. CASE At("announce") /\ Announce
  BY <1>2 DEF Announce
<1>3. CASE At("emit") /\ EmitChanged
  BY <1>3 DEF EmitChanged
<1>4. CASE At("photo") /\ PhotoChanged
  BY <1>4 DEF PhotoChanged
<1>5. CASE At("toolbox") /\ ToolboxChanged
  BY <1>5 DEF ToolboxChanged
<1>6. CASE At("wb_recalculated") /\ WbRecalculated
  BY <1>6 DEF WbRecalculated
<1>7. CASE At("read") /\ ReadSettings
  BY <1>7 DEF ReadSettings
<1>8. CASE At("start") /\ CommitStart
  BY <1>8 DEF CommitStart
<1>9. CASE At("stop") /\ CommitStop
  BY <1>9 DEF CommitStop
<1>10. CASE At("stopped") /\ CommitStopped
  BY <1>10 DEF CommitStopped
<1>11. CASE At("copy") /\ CopySettings
  BY <1>11 DEF CopySettings
<1>12. CASE At("camera_if_preset") /\ CameraIfPreset
  BY <1>12 DEF CameraIfPreset
<1>13. CASE At("auto_if_preset") /\ AutoIfPreset
  BY <1>13 DEF AutoIfPreset
<1>14. CASE At("camera") /\ CameraNow
  BY <1>14 DEF CameraNow
<1>15. CASE At("mute") /\ MutePhoto
  BY <1>15 DEF MutePhoto
<1>16. CASE At("default_preset") /\ DefaultPreset
  BY <1>16 DEF DefaultPreset
<1>17. CASE At("neutral") /\ NeutralWb
  BY <1>17 DEF NeutralWb
<1>18. CASE At("remember") /\ Remember
  BY <1>18 DEF Remember
<1>19. CASE At("profile") /\ SetProfile
  BY <1>19 DEF SetProfile
<1>20. CASE At("connect") /\ Connect
  BY <1>20 DEF Connect
<1>21. CASE At("toolbox_set_photo") /\ ToolboxSetPhoto
  BY <1>21 DEF ToolboxSetPhoto
<1> QED
  BY <1>1, <1>2, <1>3, <1>4, <1>5, <1>6, <1>7, <1>8, <1>9, <1>10, <1>11, <1>12, <1>13,
     <1>14, <1>15, <1>16, <1>17, <1>18, <1>19, <1>20, <1>21
     DEF Run

LEMMA RestKept ==
  ASSUME NEW w, NEW v, Holds(w), Ok(Head(agenda), w, v), Run, RestType
  PROVE  RestType'
<1>1. /\ w \in World /\ profile \in Choices /\ settings \in SettingsType
  <2>1. w \in World
    BY DEF Ok
  <2> QED
    BY <2>1, WorldHas DEF Holds
<1>2. settings.exposure \in Exposures /\ settings.warmth \in Warmths
      /\ settings.temp \in Temps /\ settings.switch \in BOOLEAN
  BY <1>1, SettingsHas
<1>3. UNCHANGED asked
  BY RunAsks
<1>4. tool \in [exposure : Exposures, temp : Temps, switch : BOOLEAN]
  BY DEF RestType
<1>5. chain \in [Chains -> [profile : Choices, exposure : Exposures,
                            temp : Temps, warmth : Warmths]]
  BY DEF RestType
<1>6. \A bits : Shown(bits) \in [exposure : Exposures, temp : Temps, switch : BOOLEAN]
  BY <1>2, <1>4 DEF Shown
<1>7. tool' \in [exposure : Exposures, temp : Temps, switch : BOOLEAN]
  <2>1. CASE At("set") /\ SetProperty
    BY <1>4, <1>5, <2>1 DEF SetProperty, signalVars
  <2>2. CASE At("announce") /\ Announce
    BY <1>4, <1>5, <2>2 DEF Announce, signalVars
  <2>3. CASE At("emit") /\ EmitChanged
    BY <1>4, <1>5, <2>3 DEF EmitChanged, signalVars
  <2>4. CASE At("photo") /\ PhotoChanged
    BY <1>4, <1>5, <2>4 DEF PhotoChanged, signalVars
  <2>5. CASE At("toolbox") /\ ToolboxChanged
    BY <1>4, <1>6, <2>5 DEF ToolboxChanged
  <2>6. CASE At("wb_recalculated") /\ WbRecalculated
    BY <1>4, <1>5, <2>6 DEF WbRecalculated, signalVars
  <2>7. CASE At("read") /\ ReadSettings
    BY <1>4, <1>5, <2>7 DEF ReadSettings, signalVars
  <2>8. CASE At("start") /\ CommitStart
    BY <1>4, <1>5, <2>8 DEF CommitStart, signalVars
  <2>9. CASE At("stop") /\ CommitStop
    BY <1>4, <1>5, <2>9 DEF CommitStop, signalVars
  <2>10. CASE At("stopped") /\ CommitStopped
    BY <1>4, <1>5, <2>10 DEF CommitStopped, signalVars
  <2>11. CASE At("copy") /\ CopySettings
    BY <1>4, <1>5, <2>11 DEF CopySettings, signalVars
  <2>12. CASE At("camera_if_preset") /\ CameraIfPreset
    BY <1>4, <1>5, <2>12 DEF CameraIfPreset, signalVars
  <2>13. CASE At("auto_if_preset") /\ AutoIfPreset
    BY <1>4, <1>5, <2>13 DEF AutoIfPreset, signalVars
  <2>14. CASE At("camera") /\ CameraNow
    BY <1>4, <1>5, <2>14 DEF CameraNow, signalVars
  <2>15. CASE At("mute") /\ MutePhoto
    BY <1>4, <1>5, <2>15 DEF MutePhoto, signalVars
  <2>16. CASE At("default_preset") /\ DefaultPreset
    BY <1>4, <1>5, <2>16 DEF DefaultPreset, signalVars
  <2>17. CASE At("neutral") /\ NeutralWb
    BY <1>4, <1>5, <2>17 DEF NeutralWb, signalVars
  <2>18. CASE At("remember") /\ Remember
    BY <1>4, <1>5, <2>18 DEF Remember, signalVars
  <2>19. CASE At("profile") /\ SetProfile
    BY <1>4, <1>5, <2>19 DEF SetProfile, signalVars
  <2>20. CASE At("connect") /\ Connect
    BY <1>4, <1>5, <2>20 DEF Connect, signalVars
  <2>21. CASE At("toolbox_set_photo") /\ ToolboxSetPhoto
    BY <1>6, <2>21 DEF ToolboxSetPhoto
  <2> QED
    BY <2>1, <2>2, <2>3, <2>4, <2>5, <2>6, <2>7, <2>8, <2>9, <2>10, <2>11, <2>12, <2>13,
       <2>14, <2>15, <2>16, <2>17, <2>18, <2>19, <2>20, <2>21
       DEF Run
<1>8. chain' \in [Chains -> [profile : Choices, exposure : Exposures,
                             temp : Temps, warmth : Warmths]]
  <2>1. CASE At("set") /\ SetProperty
    BY <1>4, <1>5, <2>1 DEF SetProperty, signalVars
  <2>2. CASE At("announce") /\ Announce
    BY <1>4, <1>5, <2>2 DEF Announce, signalVars
  <2>3. CASE At("emit") /\ EmitChanged
    BY <1>4, <1>5, <2>3 DEF EmitChanged, signalVars
  <2>4. CASE At("photo") /\ PhotoChanged
    BY <1>4, <1>5, <2>4 DEF PhotoChanged, signalVars
  <2>5. CASE At("toolbox") /\ ToolboxChanged
    BY <1>4, <1>5, <2>5 DEF ToolboxChanged, signalVars
  <2>6. CASE At("wb_recalculated") /\ WbRecalculated
    BY <1>4, <1>5, <2>6 DEF WbRecalculated, signalVars
  <2>7. CASE At("read") /\ ReadSettings
    <3>1. PICK c, bits : c = Head(agenda).chain /\ bits = Head(agenda).bits
      OBVIOUS
    <3>2. c \in Chains
      BY <2>7, <3>1, ReadOk DEF At
    <3>3. Recalculated(c) \in Temps
      <4>1. chain[c].profile \in Choices
        BY <1>5, <3>2
      <4> QED
        BY <1>2, <4>1, TempAssumption DEF Recalculated, Choices
    <3>4. PICK t : t = IF "wb" \in bits /\ settings.recalc THEN Recalculated(c)
                       ELSE settings.temp
      OBVIOUS
    <3>5. t \in Temps
      BY <1>2, <3>3, <3>4
    <3>6. PICK r : r = [profile  |-> chain[c].profile,
                exposure |-> IF "exposure" \in bits THEN settings.exposure
                                                    ELSE chain[c].exposure,
                temp     |-> IF "wb" \in bits THEN t ELSE chain[c].temp,
                warmth   |-> IF "wb" \in bits THEN settings.warmth ELSE chain[c].warmth]
      OBVIOUS
    <3>7. chain' = [chain EXCEPT ![c] = r]
      BY <2>7, <3>1, <3>4, <3>6 DEF ReadSettings
    <3>8. r \in [profile : Choices, exposure : Exposures, temp : Temps, warmth : Warmths]
      BY <1>2, <1>5, <3>2, <3>5, <3>6
    <3> QED
      BY <1>5, <3>7, <3>8
  <2>8. CASE At("start") /\ CommitStart
    BY <1>4, <1>5, <2>8 DEF CommitStart, signalVars
  <2>9. CASE At("stop") /\ CommitStop
    BY <1>4, <1>5, <2>9 DEF CommitStop, signalVars
  <2>10. CASE At("stopped") /\ CommitStopped
    BY <1>4, <1>5, <2>10 DEF CommitStopped, signalVars
  <2>11. CASE At("copy") /\ CopySettings
    BY <1>4, <1>5, <2>11 DEF CopySettings, signalVars
  <2>12. CASE At("camera_if_preset") /\ CameraIfPreset
    BY <1>4, <1>5, <2>12 DEF CameraIfPreset, signalVars
  <2>13. CASE At("auto_if_preset") /\ AutoIfPreset
    BY <1>4, <1>5, <2>13 DEF AutoIfPreset, signalVars
  <2>14. CASE At("camera") /\ CameraNow
    BY <1>4, <1>5, <2>14 DEF CameraNow, signalVars
  <2>15. CASE At("mute") /\ MutePhoto
    BY <1>4, <1>5, <2>15 DEF MutePhoto, signalVars
  <2>16. CASE At("default_preset") /\ DefaultPreset
    BY <1>4, <1>5, <2>16 DEF DefaultPreset, signalVars
  <2>17. CASE At("neutral") /\ NeutralWb
    BY <1>4, <1>5, <2>17 DEF NeutralWb, signalVars
  <2>18. CASE At("remember") /\ Remember
    BY <1>4, <1>5, <2>18 DEF Remember, signalVars
  <2>19. CASE At("profile") /\ SetProfile
    <3>1. PICK c : c = Head(agenda).chain
      OBVIOUS
    <3>2. c \in Chains
      BY <2>19, <3>1, ProfileOk DEF At
    <3>3. PICK r : r = [chain[c] EXCEPT !.profile = profile]
      OBVIOUS
    <3>4. r \in [profile : Choices, exposure : Exposures, temp : Temps, warmth : Warmths]
      BY <1>1, <1>5, <3>2, <3>3
    <3>5. chain' = [chain EXCEPT ![c] = r]
      BY <2>19, <3>1, <3>3 DEF SetProfile
    <3> QED
      BY <1>5, <3>4, <3>5
  <2>20. CASE At("connect") /\ Connect
    BY <1>4, <1>5, <2>20 DEF Connect, signalVars
  <2>21. CASE At("toolbox_set_photo") /\ ToolboxSetPhoto
    BY <1>4, <1>5, <2>21 DEF ToolboxSetPhoto, signalVars
  <2> QED
    BY <2>1, <2>2, <2>3, <2>4, <2>5, <2>6, <2>7, <2>8, <2>9, <2>10, <2>11, <2>12, <2>13,
       <2>14, <2>15, <2>16, <2>17, <2>18, <2>19, <2>20, <2>21
       DEF Run
<1> QED
  BY <1>3, <1>7, <1>8 DEF RestType, asked

IInv ==
    /\ RestType
    /\ \E w, e \in World : Holds(w) /\ Leads(agenda, w, e) /\ Settled(e)

LEMMA SettledStill ==
  ASSUME NEW e, Settled(e), UNCHANGED asked
  PROVE  Settled(e)'
BY DEF asked, Settled

LEMMA RunKeeps ==
  ASSUME IInv, Run
  PROVE  IInv'
<1>1. agenda # <<>>
  BY DEF Run, At
<1>2. PICK w \in World, e \in World : Holds(w) /\ Leads(agenda, w, e) /\ Settled(e)
  BY DEF IInv
<1>3. PICK v \in World : Ok(Head(agenda), w, v) /\ Leads(Tail(agenda), v, e)
  <2>1. PICK s : s = agenda
    OBVIOUS
  <2>2. \E v \in World : Ok(Head(s), w, v) /\ Leads(Tail(s), v, e)
    BY <1>1, <1>2, <2>1, LeadsHead
  <2> QED
    BY <2>1, <2>2
<1>4. RestType' /\ Moves(v) /\ Settled(e)'
  BY <1>2, <1>3, RestKept, RunMoves, RunAsks, SettledStill DEF IInv
<1>5. PICK now \in Seq(Calls), u \in World :
        Holds(u)' /\ Leads(now, u, v) /\ agenda' = now \o Tail(agenda)
  BY <1>4 DEF Moves
<1>6. Leads(agenda', u, e)
  <2>1. PICK s, t : s = Tail(agenda) /\ t = now \o s
    OBVIOUS
  <2>2. Leads(t, u, e)
    BY <1>3, <1>5, <2>1, LeadsOn
  <2> QED
    BY <1>5, <2>1, <2>2
<1> QED
  BY <1>4, <1>5, <1>6 DEF IInv

-----------------------------------------------------------------------------
(* What the contracts come to when everybody is connected.                 *)

\* The settings s once a waiting recalculation has given the temperature t.
Done(s, t) ==
    IF ~s.recalc THEN s
    ELSE IF t = s.temp THEN [s EXCEPT !.recalc = FALSE]
    ELSE [s EXCEPT !.temp = t, !.preset = None, !.recalc = FALSE]

Due(w) == Asked(w.profile, w.set.warmth)

Live(w) ==
    /\ w.follows /\ ~w.mute /\ w.link = Chains
    /\ w.prof["navigator"] = w.profile /\ w.prof["view"] = w.profile

SwitchShown(w) == w.unseen \/ w.switch = w.set.switch

\* r is w after a signal with the bits.
Heard(r, w, bits) ==
    /\ r \in World /\ Framed(r, w)
    /\ r.set = Done(w.set, Due(w))
    /\ r.choice = IF w.set.recalc THEN w.profile ELSE w.choice
    /\ w.exposure = Holders \/ "exposure" \in bits => r.exposure = Holders
    /\ w.wb = Holders \/ "wb" \in bits => r.wb = Holders
    /\ SwitchShown(w) \/ "switch" \in bits => SwitchShown(r)

LEMMA DoneIs ==
  ASSUME NEW s \in SettingsType, NEW t \in Temps
  PROVE  /\ Done(s, t) \in SettingsType /\ ~Done(s, t).recalc
         /\ Done(s, t).exposure = s.exposure /\ Done(s, t).warmth = s.warmth
         /\ Done(s, t).switch = s.switch
         /\ Done(s, t).temp = IF s.recalc THEN t ELSE s.temp
         /\ Done(s, t).preset = IF s.recalc /\ t # s.temp THEN None ELSE s.preset
<1>1. CASE ~s.recalc
  BY <1>1, SettingsHas DEF Done
<1>2. CASE s.recalc /\ t = s.temp
  BY <1>2, RecalcDone DEF Done
<1>3. CASE s.recalc /\ t # s.temp
  BY ZenonT(60), <1>3, TempMoved DEF Done
<1> QED
  BY <1>1, <1>2, <1>3, SettingsHas

LEMMA DueType ==
  ASSUME NEW w \in World
  PROVE  Due(w) \in Temps
BY AskedType, WorldHas, SettingsHas DEF Due

LEMMA HoldersAre ==
  ASSUME NEW x \in SUBSET Holders, Chains \subseteq x, "toolbox" \in x
  PROVE  x = Holders
BY DEF Holders

LEMMA LiveEmit ==
  ASSUME NEW w \in World, NEW bits \in SUBSET AllBits, Live(w),
         w.set.recalc => w.commit = 0 \/ "wb" \in bits \/ Due(w) = w.set.temp
  PROVE  AbleEmit(w, bits) /\ Heard(AfterEmit(w, bits), w, bits)
<1> DEFINE r == AfterEmit(w, bits)
<1>1. /\ Converted(w, "navigator") = Due(w) /\ Listening(w)
      /\ w.link = Chains /\ w.follows /\ ~w.mute /\ w.commit \in 0..2
      /\ w.exposure \in SUBSET Holders /\ w.wb \in SUBSET Holders
  BY WorldHas DEF Live, Converted, Due, Listening
<1>2. CASE ~w.set.recalc
  <2>1. AbleEmit(w, bits) /\ Still(r, w) /\ Passed(r, w, bits) /\ Spread(r, w, bits)
    BY <1>2, QuietEmit
  <2> HIDE DEF r
  <2>2. r.set = Done(w.set, Due(w)) /\ r.choice = w.choice /\ r \in World /\ Framed(r, w)
    BY <1>2, <2>1 DEF Still, Done
  <2>3. /\ w.exposure \subseteq r.exposure /\ w.wb \subseteq r.wb
        /\ r.exposure \in SUBSET Holders /\ r.wb \in SUBSET Holders
    BY <2>1, <2>2, WorldHas DEF Still
  <2>4. /\ w.exposure = Holders \/ "exposure" \in bits => r.exposure = Holders
        /\ w.wb = Holders \/ "wb" \in bits => r.wb = Holders
    <3>1. /\ "exposure" \in bits => Chains \subseteq r.exposure
          /\ "wb" \in bits => Chains \subseteq r.wb
          /\ "toolbox" \in r.exposure /\ "toolbox" \in r.wb
      BY <1>1, <2>1 DEF Passed, Spread
    <3>2. "exposure" \in bits => r.exposure = Holders
      BY <2>3, <3>1, HoldersAre
    <3>3. "wb" \in bits => r.wb = Holders
      BY <2>3, <3>1, HoldersAre
    <3> QED
      BY <2>3, <3>2, <3>3
  <2>5. SwitchShown(w) \/ "switch" \in bits => SwitchShown(r)
    BY <1>1, <2>1 DEF Passed, Still, SwitchShown
  <2> QED
    BY <1>2, <2>1, <2>2, <2>4, <2>5 DEF Heard, r
<1>3. CASE w.set.recalc /\ Due(w) = w.set.temp
  <2>1. AbleEmit(w, bits) /\ Turned(r, w) /\ Passed(r, w, bits) /\ Spread(r, w, bits)
    BY <1>1, <1>3, KeptEmit
  <2> HIDE DEF r
  <2>2. r.set = Done(w.set, Due(w)) /\ r.choice = w.profile /\ r \in World /\ Framed(r, w)
    BY <1>3, <2>1 DEF Turned, Done
  <2>3. /\ w.exposure \subseteq r.exposure /\ w.wb \subseteq r.wb
        /\ r.exposure \in SUBSET Holders /\ r.wb \in SUBSET Holders
    BY <2>1, <2>2, WorldHas DEF Turned
  <2>4. /\ w.exposure = Holders \/ "exposure" \in bits => r.exposure = Holders
        /\ w.wb = Holders \/ "wb" \in bits => r.wb = Holders
    <3>1. /\ "exposure" \in bits => Chains \subseteq r.exposure
          /\ "wb" \in bits => Chains \subseteq r.wb
          /\ "toolbox" \in r.exposure /\ "toolbox" \in r.wb
      BY <1>1, <2>1 DEF Passed, Spread
    <3>2. "exposure" \in bits => r.exposure = Holders
      BY <2>3, <3>1, HoldersAre
    <3>3. "wb" \in bits => r.wb = Holders
      BY <2>3, <3>1, HoldersAre
    <3> QED
      BY <2>3, <3>2, <3>3
  <2>5. r.set.switch = w.set.switch
    BY <2>2, DueType, DoneIs, WorldHas
  <2>6. SwitchShown(w) \/ "switch" \in bits => SwitchShown(r)
    BY <1>1, <2>1, <2>5 DEF Passed, SwitchShown
  <2> QED
    BY <1>3, <2>1, <2>2, <2>4, <2>6 DEF Heard, r
<1>4. CASE w.set.recalc /\ Due(w) # w.set.temp
  <2>1. /\ AbleEmit(w, bits) /\ Shifted(r, w, Due(w)) /\ Passed(r, w, bits)
        /\ Spread(r, w, bits) /\ r.wb = Holders
    BY <1>1, <1>4, MovedEmit
  <2> HIDE DEF r
  <2>2. r.set = Done(w.set, Due(w)) /\ r.choice = w.profile /\ r \in World /\ Framed(r, w)
    BY <1>4, <2>1 DEF Shifted, Done
  <2>3. w.exposure \subseteq r.exposure /\ r.exposure \in SUBSET Holders
    BY <2>1, <2>2, WorldHas DEF Shifted
  <2>4. w.exposure = Holders \/ "exposure" \in bits => r.exposure = Holders
    <3>1. ("exposure" \in bits => Chains \subseteq r.exposure) /\ "toolbox" \in r.exposure
      BY <1>1, <2>1 DEF Passed, Spread
    <3>2. "exposure" \in bits => r.exposure = Holders
      BY <2>3, <3>1, HoldersAre
    <3> QED
      BY <2>3, <3>2
  <2>5. r.set.switch = w.set.switch
    BY <2>2, DueType, DoneIs, WorldHas
  <2>6. SwitchShown(w) \/ "switch" \in bits => SwitchShown(r)
    BY <1>1, <2>1, <2>5 DEF Passed, SwitchShown
  <2> QED
    BY <1>4, <2>1, <2>2, <2>4, <2>6 DEF Heard, r
<1> QED
  BY <1>2, <1>3, <1>4

(* What is set in a commit. *)

\* u is w with the property f put, and its bits noted.
PutAs(u, w, f, x) ==
    /\ u \in World /\ Framed(u, w) /\ u.set = [w.set EXCEPT ![f] = x]
    /\ u.todo = w.todo \union RaisedBy(f, x) /\ u.choice = w.choice
    /\ u.switch = w.switch /\ u.unseen = w.unseen
    /\ u.exposure = IF f = "exposure" THEN {} ELSE w.exposure
    /\ u.wb = IF f \in {"warmth", "temp"} THEN {} ELSE w.wb

\* u is w with a warmth or a temperature set, which drops the preset.
DroppedAs(u, w, f, x) ==
    /\ u \in World /\ Framed(u, w)
    /\ u.set = [w.set EXCEPT ![f] = x, !.preset = None]
    /\ u.todo = w.todo \union {"wb"} /\ u.choice = w.choice
    /\ u.switch = w.switch /\ u.unseen = w.unseen
    /\ u.exposure = w.exposure /\ u.wb = {}

SetAs(u, w, f, x) ==
    /\ Same(w, f, x) => u = w
    /\ ~Same(w, f, x) /\ f \in {"warmth", "temp"} => DroppedAs(u, w, f, x)
    /\ ~Same(w, f, x) /\ f \notin {"warmth", "temp"} => PutAs(u, w, f, x)

LEMMA AnnounceInCommit ==
  ASSUME NEW w \in World, w.commit > 0, NEW bits \in SUBSET AllBits, NEW u,
         u = AfterAnnounce(w, bits)
  PROVE  /\ u \in World /\ Framed(u, w) /\ u.set = w.set /\ u.choice = w.choice
         /\ u.todo = w.todo \union bits /\ u.switch = w.switch /\ u.unseen = w.unseen
         /\ u.exposure = w.exposure /\ u.wb = w.wb
<1>1. u = Known(w, w.set, w.todo \union bits, w.choice, w.exposure, w.wb)
  BY DEF AfterAnnounce
<1>2. w.todo \union bits \in SUBSET AllBits
  BY WorldHas
<1> QED
  BY <1>1, <1>2, WorldHas, KnownIs

LEMMA PutInCommit ==
  ASSUME NEW w \in World, w.commit > 0, NEW f, NEW x, Typed(f, x)
  PROVE  PutAs(AfterPut(w, f, x), w, f, x)
<1>1. PICK s, u, bits : /\ s = Stored(w, f, x) /\ u = AfterPut(w, f, x)
                        /\ bits = RaisedBy(f, x)
  OBVIOUS
<1>2. StoredAs(s, w, f, x) /\ bits \in SUBSET AllBits
  BY <1>1, StoredThus, StoredIs
<1>3. s \in World /\ s.commit > 0 /\ u = AfterAnnounce(s, bits)
  BY <1>1, <1>2 DEF StoredAs, Framed, AfterPut
<1>4. /\ u \in World /\ Framed(u, s) /\ u.set = s.set /\ u.choice = s.choice
      /\ u.todo = s.todo \union bits /\ u.switch = s.switch /\ u.unseen = s.unseen
      /\ u.exposure = s.exposure /\ u.wb = s.wb
  BY <1>2, <1>3, AnnounceInCommit
<1>5. Framed(u, w)
  BY <1>2, <1>4, FramedTransitive DEF StoredAs
<1> QED
  BY <1>1, <1>2, <1>4, <1>5 DEF StoredAs, PutAs

LEMMA SetInCommit ==
  ASSUME NEW w \in World, w.commit > 0, NEW f, NEW x, Typed(f, x)
  PROVE  SetAs(AfterSet(w, f, x), w, f, x)
<1>1. PICK s, a, u : /\ s = Stored(w, f, x) /\ a = AfterPut(s, "preset", None)
                     /\ u = AfterAnnounce(a, {"wb"})
  OBVIOUS
<1>2. StoredAs(s, w, f, x) /\ Typed("preset", None)
  BY <1>1, StoredThus DEF Typed, Presets
<1>3. s \in World /\ s.commit > 0
  BY <1>2 DEF StoredAs, Framed
<1>4. PutAs(a, s, "preset", None) /\ RaisedBy("preset", None) = {"wb"}
  BY <1>1, <1>2, <1>3, PutInCommit DEF RaisedBy
<1>5. a \in World /\ a.commit > 0 /\ {"wb"} \in SUBSET AllBits
  BY <1>3, <1>4 DEF PutAs, Framed, AllBits
<1>6. /\ u \in World /\ Framed(u, a) /\ u.set = a.set /\ u.choice = a.choice
      /\ u.todo = a.todo \union {"wb"} /\ u.switch = a.switch /\ u.unseen = a.unseen
      /\ u.exposure = a.exposure /\ u.wb = a.wb
  BY <1>1, <1>5, AnnounceInCommit
<1>7. Framed(u, w)
  BY <1>2, <1>4, <1>6, FramedTransitive DEF StoredAs, PutAs
<1>8. u.set = [w.set EXCEPT ![f] = x, !.preset = None]
  BY <1>2, <1>4, <1>6 DEF StoredAs, PutAs
<1>9. f \in {"warmth", "temp"} => DroppedAs(u, w, f, x)
  BY <1>2, <1>4, <1>6, <1>7, <1>8 DEF StoredAs, PutAs, DroppedAs
<1> QED
  BY <1>1, <1>9, PutInCommit DEF AfterSet, SetAs

\* u is w with a balance put in a commit of its own, not yet closed.
WbPutAs(u, w, t, p) ==
    /\ u \in World /\ Placed(u, w) /\ u.commit = w.commit + 1
    /\ u.set.exposure = w.set.exposure /\ u.set.warmth = t
    /\ u.set.temp = w.set.temp /\ u.set.preset = p
    /\ u.set.switch = w.set.switch /\ u.set.recalc
    /\ u.choice = w.choice /\ u.switch = w.switch /\ u.unseen = w.unseen
    /\ u.exposure = w.exposure /\ (w.set.warmth = t => u.wb = w.wb)
    /\ "wb" \in u.todo /\ (w.commit > 0 => w.todo \subseteq u.todo)

LEMMA WbPutIs ==
  ASSUME NEW w \in World, w.commit < 2, NEW t \in Warmths, NEW p \in Presets
  PROVE  WbPutAs(WbPut(w, t, p), w, t, p)
<1>1. PICK s, a, b, u : /\ s = Started(w) /\ a = AfterSet(s, "warmth", t)
                        /\ b = AfterPut(a, "preset", p) /\ u = AfterPut(b, "recalc", TRUE)
  OBVIOUS
<1>2. Typed("warmth", t) /\ Typed("preset", p) /\ Typed("recalc", TRUE)
  BY TypedValues
<1>3. /\ s \in World /\ s.commit = w.commit + 1 /\ s.commit > 0
      /\ s.todo = (IF w.commit = 0 THEN {} ELSE w.todo)
      /\ s.set = w.set /\ s.choice = w.choice /\ s.switch = w.switch
      /\ s.unseen = w.unseen /\ s.exposure = w.exposure /\ s.wb = w.wb
  BY <1>1, StartedIs, WorldHas
<1>4. /\ a \in World /\ a.commit > 0
      /\ a.set.exposure = w.set.exposure /\ a.set.warmth = t
      /\ a.set.temp = w.set.temp /\ a.set.switch = w.set.switch
      /\ s.todo \subseteq a.todo /\ a.choice = w.choice /\ a.switch = w.switch
      /\ a.unseen = w.unseen /\ a.exposure = w.exposure
      /\ w.set.warmth = t => a.wb = w.wb
  <2>1. SetAs(a, s, "warmth", t) /\ s.set \in SettingsType
    BY <1>1, <1>2, <1>3, SetInCommit, WorldHas
  <2>2. CASE w.set.warmth = t
    <3>1. a = s
      BY <1>3, <2>1, <2>2 DEF SetAs, Same
    <3> QED
      BY <1>3, <2>2, <3>1
  <2>3. CASE w.set.warmth # t
    <3>1. DroppedAs(a, s, "warmth", t)
      BY <1>3, <2>1, <2>3 DEF SetAs, Same
    <3>2. /\ a.set.exposure = s.set.exposure /\ a.set.warmth = t
          /\ a.set.temp = s.set.temp /\ a.set.switch = s.set.switch
      BY <2>1, <3>1 DEF DroppedAs, SettingsType
    <3> QED
      BY <1>3, <2>3, <3>1, <3>2 DEF DroppedAs, Framed
  <2> QED
    BY <2>2, <2>3
<1>5. /\ b \in World /\ b.commit > 0 /\ b.set = [a.set EXCEPT !.preset = p]
      /\ b.todo = a.todo \union {"wb"} /\ b.choice = a.choice /\ b.switch = a.switch
      /\ b.unseen = a.unseen /\ b.exposure = a.exposure /\ b.wb = a.wb
  <2>1. PutAs(b, a, "preset", p) /\ RaisedBy("preset", p) = {"wb"}
    BY <1>1, <1>2, <1>4, PutInCommit DEF RaisedBy
  <2> QED
    BY <1>4, <2>1 DEF PutAs, Framed
<1>6. /\ u \in World /\ u.set = [b.set EXCEPT !.recalc = TRUE]
      /\ u.todo = b.todo \union {"wb"} /\ u.choice = b.choice /\ u.switch = b.switch
      /\ u.unseen = b.unseen /\ u.exposure = b.exposure /\ u.wb = b.wb
  <2>1. PutAs(u, b, "recalc", TRUE) /\ RaisedBy("recalc", TRUE) = {"wb"}
    BY <1>1, <1>2, <1>5, PutInCommit DEF RaisedBy
  <2> QED
    BY <2>1 DEF PutAs
<1>7. /\ u.set.exposure = w.set.exposure /\ u.set.warmth = t
      /\ u.set.temp = w.set.temp /\ u.set.preset = p
      /\ u.set.switch = w.set.switch /\ u.set.recalc
  <2>1. a.set \in SettingsType
    BY <1>4, WorldHas
  <2> QED
    BY <1>4, <1>5, <1>6, <2>1 DEF SettingsType
<1>8. u = WbPut(w, t, p)
  BY <1>1 DEF WbPut
<1>9. Placed(u, w) /\ u.commit = w.commit + 1
  BY <1>8, WbPutWorld
<1>10. w.commit > 0 => w.todo \subseteq u.todo
  BY <1>3, <1>4, <1>5, <1>6
<1> QED
  BY ZenonT(60), <1>4, <1>5, <1>6, <1>7, <1>8, <1>9, <1>10 DEF WbPutAs

\* ... and with the default temperature put.
TempPutAs(u, w) ==
    /\ u \in World /\ Placed(u, w) /\ u.commit = w.commit + 1
    /\ u.set.exposure = w.set.exposure /\ u.set.warmth = w.set.warmth
    /\ u.set.temp = DefaultTemp /\ u.set.preset = "camera"
    /\ u.set.switch = w.set.switch /\ ~u.set.recalc
    /\ u.choice = w.choice /\ u.switch = w.switch /\ u.unseen = w.unseen
    /\ u.exposure = w.exposure /\ (w.set.temp = DefaultTemp => u.wb = w.wb)
    /\ "wb" \in u.todo /\ (w.commit > 0 => w.todo \subseteq u.todo)

LEMMA TempPutIs ==
  ASSUME NEW w \in World, w.commit < 2
  PROVE  TempPutAs(TempPut(w), w)
<1>1. PICK s, a, b, u : /\ s = Started(w) /\ a = AfterSet(s, "temp", DefaultTemp)
                        /\ b = AfterPut(a, "preset", "camera")
                        /\ u = AfterPut(b, "recalc", FALSE)
  OBVIOUS
<1>2. Typed("temp", DefaultTemp) /\ Typed("preset", "camera") /\ Typed("recalc", FALSE)
  BY TypedValues DEF Presets
<1>3. /\ s \in World /\ s.commit = w.commit + 1 /\ s.commit > 0
      /\ s.todo = (IF w.commit = 0 THEN {} ELSE w.todo)
      /\ s.set = w.set /\ s.choice = w.choice /\ s.switch = w.switch
      /\ s.unseen = w.unseen /\ s.exposure = w.exposure /\ s.wb = w.wb
  BY <1>1, StartedIs, WorldHas
<1>4. /\ a \in World /\ a.commit > 0
      /\ a.set.exposure = w.set.exposure /\ a.set.temp = DefaultTemp
      /\ a.set.warmth = w.set.warmth /\ a.set.switch = w.set.switch
      /\ s.todo \subseteq a.todo /\ a.choice = w.choice /\ a.switch = w.switch
      /\ a.unseen = w.unseen /\ a.exposure = w.exposure
      /\ w.set.temp = DefaultTemp => a.wb = w.wb
  <2>1. SetAs(a, s, "temp", DefaultTemp) /\ s.set \in SettingsType
    BY <1>1, <1>2, <1>3, SetInCommit, WorldHas
  <2>2. CASE w.set.temp = DefaultTemp
    <3>1. a = s
      BY <1>3, <2>1, <2>2 DEF SetAs, Same
    <3> QED
      BY <1>3, <2>2, <3>1
  <2>3. CASE w.set.temp # DefaultTemp
    <3>1. DroppedAs(a, s, "temp", DefaultTemp)
      BY <1>3, <2>1, <2>3 DEF SetAs, Same
    <3>2. /\ a.set.exposure = s.set.exposure /\ a.set.temp = DefaultTemp
          /\ a.set.warmth = s.set.warmth /\ a.set.switch = s.set.switch
      BY <2>1, <3>1 DEF DroppedAs, SettingsType
    <3> QED
      BY <1>3, <2>3, <3>1, <3>2 DEF DroppedAs, Framed
  <2> QED
    BY <2>2, <2>3
<1>5. /\ b \in World /\ b.commit > 0 /\ b.set = [a.set EXCEPT !.preset = "camera"]
      /\ b.todo = a.todo \union {"wb"} /\ b.choice = a.choice /\ b.switch = a.switch
      /\ b.unseen = a.unseen /\ b.exposure = a.exposure /\ b.wb = a.wb
  <2>1. PutAs(b, a, "preset", "camera") /\ RaisedBy("preset", "camera") = {"wb"}
    BY <1>1, <1>2, <1>4, PutInCommit DEF RaisedBy
  <2> QED
    BY <1>4, <2>1 DEF PutAs, Framed
<1>6. /\ u \in World /\ u.set = [b.set EXCEPT !.recalc = FALSE]
      /\ u.todo = b.todo /\ u.choice = b.choice /\ u.switch = b.switch
      /\ u.unseen = b.unseen /\ u.exposure = b.exposure /\ u.wb = b.wb
  <2>1. PutAs(u, b, "recalc", FALSE) /\ RaisedBy("recalc", FALSE) = {}
    BY <1>1, <1>2, <1>5, PutInCommit DEF RaisedBy
  <2> QED
    BY <2>1 DEF PutAs
<1>7. /\ u.set.exposure = w.set.exposure /\ u.set.warmth = w.set.warmth
      /\ u.set.temp = DefaultTemp /\ u.set.preset = "camera"
      /\ u.set.switch = w.set.switch /\ ~u.set.recalc
  <2>1. a.set \in SettingsType
    BY <1>4, WorldHas
  <2> QED
    BY <1>4, <1>5, <1>6, <2>1 DEF SettingsType
<1>8. u = TempPut(w)
  BY <1>1 DEF TempPut
<1>9. Placed(u, w) /\ u.commit = w.commit + 1
  BY <1>8, TempPutWorld
<1>10. w.commit > 0 => w.todo \subseteq u.todo
  BY <1>3, <1>4, <1>5, <1>6
<1> QED
  BY <1>4, <1>5, <1>6, <1>7, <1>8, <1>9, <1>10 DEF TempPutAs

\* What somebody has not heard of is noted in commit_todo.
Covered(w) ==
    /\ Live(w)
    /\ w.exposure = Holders \/ "exposure" \in w.todo
    /\ w.wb = Holders \/ "wb" \in w.todo
    /\ SwitchShown(w) \/ "switch" \in w.todo
    /\ w.set.recalc => Due(w) = w.set.temp \/ "wb" \in w.todo

\* Between operations: a recalculation that waits changes nothing.
Poised(w) == InStep(w) /\ (w.set.recalc => Due(w) = w.set.temp)

LEMMA PoisedLive ==
  ASSUME NEW w, Poised(w)
  PROVE  /\ Live(w) /\ SwitchShown(w) /\ w.commit = 0
         /\ w.exposure = Holders /\ w.wb = Holders
         /\ w.set.recalc => Due(w) = w.set.temp
BY DEF Poised, InStep, Live, SwitchShown

LEMMA SettledPoised ==
  ASSUME NEW w \in World, NEW b, NEW g, NEW l, NEW f, SettledOn(w, b, g, l, f)
  PROVE  Poised(w)
<1>1. InStep(w)
  BY DEF SettledOn
<1>2. CASE w.kind = "jpeg"
  <2>1. Matched(w.set, w.profile) /\ Waiting(w.set, w.profile)
    BY <1>2 DEF SettledOn, EmbeddedSettled
  <2> QED
    BY <1>1, <2>1 DEF Poised, Matched, Waiting, Due, Asked
<1>3. CASE w.kind # "jpeg"
  BY <1>1, <1>3 DEF SettledOn, RawSettled, Poised
<1> QED
  BY <1>2, <1>3

LEMMA CoveredStart ==
  ASSUME NEW w \in World, Poised(w)
  PROVE  Covered(Started(w)) /\ Started(w) \in World /\ Started(w).commit = 1
         /\ Started(w).set = w.set /\ Started(w).choice = w.choice /\ Placed(Started(w), w)
<1>1. PICK u : u = Started(w)
  OBVIOUS
<1>2. w.commit = 0 /\ w.commit < 2
  BY DEF Poised, InStep
<1>3. /\ u \in World /\ u.commit = w.commit + 1 /\ Placed(u, w)
      /\ u.set = w.set /\ u.choice = w.choice /\ u.switch = w.switch
      /\ u.unseen = w.unseen /\ u.exposure = w.exposure /\ u.wb = w.wb
  BY <1>1, <1>2, StartedIs
<1>4. Covered(u)
  <2>1. /\ Live(w) /\ SwitchShown(w) /\ w.exposure = Holders /\ w.wb = Holders
        /\ w.set.recalc => Due(w) = w.set.temp
    BY PoisedLive
  <2> QED
    BY <1>3, <2>1 DEF Covered, Live, Placed, SwitchShown, Due
<1> QED
  BY <1>1, <1>2, <1>3, <1>4

LEMMA CoveredPut ==
  ASSUME NEW w \in World, NEW u, NEW f, NEW x, Typed(f, x), f # "warmth", f # "temp",
         PutAs(u, w, f, x), Covered(w)
  PROVE  Covered(u)
<1>1. /\ u.todo = w.todo \union RaisedBy(f, x) /\ u.switch = w.switch
      /\ u.unseen = w.unseen /\ u.wb = w.wb /\ u.set = [w.set EXCEPT ![f] = x]
      /\ u.exposure = IF f = "exposure" THEN {} ELSE w.exposure
  BY DEF PutAs
<1>2. Live(u) /\ u.profile = w.profile
  BY DEF PutAs, Framed, Placed, Live, Covered
<1>3. u.exposure = Holders \/ "exposure" \in u.todo
  BY <1>1 DEF Covered, RaisedBy
<1>4. u.wb = Holders \/ "wb" \in u.todo
  BY <1>1 DEF Covered
<1>5. SwitchShown(u) \/ "switch" \in u.todo
  <2>1. CASE f = "switch"
    BY <1>1, <2>1 DEF RaisedBy
  <2>2. CASE f # "switch"
    <3>1. u.set.switch = w.set.switch
      BY <1>1, <2>2, WorldHas DEF SettingsType
    <3> QED
      BY <1>1, <3>1 DEF Covered, SwitchShown
  <2> QED
    BY <2>1, <2>2
<1>6. u.set.recalc => Due(u) = u.set.temp \/ "wb" \in u.todo
  <2>1. CASE f = "recalc"
    BY <1>1, <2>1, WorldHas DEF RaisedBy, SettingsType
  <2>2. CASE f # "recalc"
    <3>1. u.set.warmth = w.set.warmth /\ u.set.temp = w.set.temp /\ u.set.recalc = w.set.recalc
      BY <1>1, <2>2, WorldHas DEF SettingsType
    <3> QED
      BY <1>1, <1>2, <3>1 DEF Covered, Due
  <2> QED
    BY <2>1, <2>2
<1> QED
  BY <1>2, <1>3, <1>4, <1>5, <1>6 DEF Covered

LEMMA CoveredSet ==
  ASSUME NEW w \in World, NEW u, NEW f, NEW x, Typed(f, x), SetAs(u, w, f, x), Covered(w)
  PROVE  Covered(u)
<1>1. CASE Same(w, f, x)
  BY <1>1 DEF SetAs
<1>2. CASE ~Same(w, f, x) /\ f \notin {"warmth", "temp"}
  BY <1>2, CoveredPut DEF SetAs
<1>3. CASE ~Same(w, f, x) /\ f \in {"warmth", "temp"}
  <2>1. DroppedAs(u, w, f, x)
    BY <1>3 DEF SetAs
  <2>2. u.set.switch = w.set.switch
    BY <1>3, <2>1, WorldHas DEF DroppedAs, SettingsType
  <2> QED
    BY <2>1, <2>2 DEF DroppedAs, Framed, Placed, Live, Covered, SwitchShown
<1> QED
  BY <1>1, <1>2, <1>3

\* r is u after its commit was closed.
Landed(r, u) ==
    /\ r \in World /\ Placed(r, u) /\ InStep(r)
    /\ r.set = (IF u.todo = {} THEN u.set ELSE Done(u.set, Due(u)))
    /\ r.choice = IF u.todo # {} /\ u.set.recalc THEN u.profile ELSE u.choice

LEMMA LiveStop ==
  ASSUME NEW u \in World, u.commit = 1, Covered(u)
  PROVE  AbleStop(u) /\ Landed(AfterStop(u), u)
<1>1. PICK e, r : e = Stopping(u) /\ r = AfterStop(u)
  OBVIOUS
<1>2. u.todo \in SUBSET AllBits
  BY WorldHas
<1>3. /\ AbleStop(u) /\ e \in World /\ Framed(e, u)
      /\ e.set = (IF u.todo = {} THEN u.set ELSE Done(u.set, Due(u)))
      /\ e.choice = (IF u.todo # {} /\ u.set.recalc THEN u.profile ELSE u.choice)
      /\ e.exposure = Holders /\ e.wb = Holders /\ SwitchShown(e)
  <2>1. CASE u.todo = {}
    BY <1>1, <2>1 DEF AbleStop, Stopping, Covered, Framed, Placed
  <2>2. CASE u.todo # {}
    <3>1. AbleEmit(u, u.todo) /\ Heard(AfterEmit(u, u.todo), u, u.todo)
      BY <1>2, LiveEmit DEF Covered
    <3> QED
      BY <1>1, <2>2, <3>1 DEF AbleStop, Stopping, Covered, Heard
  <2> QED
    BY <2>1, <2>2
<1>4. r = Stopped(e) /\ e.commit = 1
  BY <1>1, <1>3 DEF AfterStop, Framed
<1>5. /\ r \in World /\ r.commit = 0 /\ Placed(r, e) /\ r.set = e.set
      /\ r.choice = e.choice /\ r.switch = e.switch /\ r.unseen = e.unseen
      /\ r.exposure = e.exposure /\ r.wb = e.wb
  BY <1>3, <1>4, StoppedIs
<1>6. Placed(r, u)
  BY <1>3, <1>5, PlacedTransitive DEF Framed
<1>7. InStep(r)
  BY <1>3, <1>5, <1>6 DEF InStep, Covered, Live, Placed, SwitchShown
<1> QED
  BY <1>1, <1>3, <1>5, <1>6, <1>7 DEF Landed

(* A balance chosen between operations. *)

Rebalanced(r, w, t, p) ==
    /\ r \in World /\ Placed(r, w) /\ InStep(r) /\ r.choice = w.profile
    /\ r.set.exposure = w.set.exposure /\ r.set.warmth = t
    /\ r.set.switch = w.set.switch /\ ~r.set.recalc
    /\ r.set.temp = Asked(w.profile, t)
    /\ r.set.preset = IF Asked(w.profile, t) = w.set.temp THEN p ELSE None

Neutralised(r, w) ==
    /\ r \in World /\ Placed(r, w) /\ InStep(r) /\ r.choice = w.choice
    /\ r.set.exposure = w.set.exposure /\ r.set.warmth = w.set.warmth
    /\ r.set.switch = w.set.switch /\ ~r.set.recalc
    /\ r.set.temp = DefaultTemp /\ r.set.preset = "camera"

FromCameraAs(r, w) ==
    /\ w.kind = "raw" => Rebalanced(r, w, "camera", "camera")
    /\ w.kind # "raw" /\ w.profile = None => Neutralised(r, w)
    /\ w.kind # "raw" /\ w.profile # None => r = w

LEMMA InStepLive ==
  ASSUME NEW w, InStep(w)
  PROVE  /\ Live(w) /\ SwitchShown(w) /\ w.commit = 0
         /\ w.exposure = Holders /\ w.wb = Holders
BY DEF InStep, Live, SwitchShown

LEMMA LiveSetWb ==
  ASSUME NEW w \in World, InStep(w), NEW t \in Warmths, NEW p \in Presets
  PROVE  AbleSetWb(w, t, p) /\ Rebalanced(AfterSetWb(w, t, p), w, t, p)
<1>1. PICK u, r : u = WbPut(w, t, p) /\ r = AfterSetWb(w, t, p)
  OBVIOUS
<1>2. /\ Live(w) /\ SwitchShown(w) /\ w.commit = 0 /\ w.commit < 2
      /\ w.exposure = Holders
  BY InStepLive
<1>3. WbPutAs(u, w, t, p)
  BY <1>1, <1>2, WbPutIs
<1>4. /\ u \in World /\ u.commit = 1 /\ Placed(u, w) /\ u.todo # {}
      /\ u.profile = w.profile /\ Due(u) = Asked(w.profile, t)
  BY <1>2, <1>3 DEF WbPutAs, Placed, Due
<1>5. Covered(u)
  BY <1>2, <1>3, <1>4 DEF WbPutAs, Covered, Live, Placed, SwitchShown
<1>6. AbleStop(u) /\ Landed(r, u)
  BY <1>1, <1>4, <1>5, LiveStop DEF AfterSetWb
<1>7. r.set = Done(u.set, Asked(w.profile, t)) /\ r.choice = w.profile
  BY <1>3, <1>4, <1>6 DEF Landed, WbPutAs
<1>8. Asked(w.profile, t) \in Temps /\ u.set \in SettingsType
  BY <1>4, AskedType, WorldHas
<1>9. /\ ~r.set.recalc /\ r.set.exposure = u.set.exposure /\ r.set.warmth = u.set.warmth
      /\ r.set.switch = u.set.switch
      /\ r.set.temp = (IF u.set.recalc THEN Asked(w.profile, t) ELSE u.set.temp)
      /\ r.set.preset = (IF u.set.recalc /\ Asked(w.profile, t) # u.set.temp THEN None
                         ELSE u.set.preset)
  BY <1>7, <1>8, DoneIs
<1>10. Placed(r, w)
  BY <1>4, <1>6, PlacedTransitive DEF Landed
<1>11. Rebalanced(r, w, t, p)
  BY <1>3, <1>6, <1>7, <1>9, <1>10 DEF Landed, WbPutAs, Rebalanced
<1> QED
  BY <1>1, <1>2, <1>6, <1>11 DEF AbleSetWb

LEMMA LiveTempPut ==
  ASSUME NEW w \in World, InStep(w)
  PROVE  AbleStop(TempPut(w)) /\ Neutralised(AfterStop(TempPut(w)), w)
<1>1. PICK u, r : u = TempPut(w) /\ r = AfterStop(u)
  OBVIOUS
<1>2. /\ Live(w) /\ SwitchShown(w) /\ w.commit = 0 /\ w.commit < 2
      /\ w.exposure = Holders
  BY InStepLive
<1>3. TempPutAs(u, w)
  BY <1>1, <1>2, TempPutIs
<1>4. u \in World /\ u.commit = 1 /\ Placed(u, w)
  BY <1>2, <1>3 DEF TempPutAs
<1>5. Covered(u)
  BY <1>2, <1>3, <1>4 DEF TempPutAs, Covered, Live, Placed, SwitchShown
<1>6. AbleStop(u) /\ Landed(r, u)
  BY <1>1, <1>4, <1>5, LiveStop
<1>7. r.set = u.set /\ r.choice = w.choice
  BY <1>3, <1>6 DEF Landed, TempPutAs, Done
<1>8. Placed(r, w)
  BY <1>4, <1>6, PlacedTransitive DEF Landed
<1> QED
  BY <1>1, <1>3, <1>6, <1>7, <1>8 DEF Landed, TempPutAs, Neutralised

LEMMA LiveCamera ==
  ASSUME NEW w \in World, InStep(w)
  PROVE  /\ AbleCamera(w) /\ FromCameraAs(AfterCamera(w), w)
         /\ AfterCamera(w) \in World /\ InStep(AfterCamera(w)) /\ Placed(AfterCamera(w), w)
<1>0. "camera" \in Warmths /\ "camera" \in Presets /\ w.commit < 2
  BY DEF Warmths, Presets, InStep
<1>1. CASE w.kind = "raw"
  <2>1. AbleSetWb(w, "camera", "camera")
        /\ Rebalanced(AfterSetWb(w, "camera", "camera"), w, "camera", "camera")
    BY <1>0, LiveSetWb
  <2> QED
    BY <1>1, <2>1 DEF AbleCamera, AfterCamera, FromCameraAs, Rebalanced
<1>2. CASE w.kind # "raw" /\ w.profile = None
  <2>1. AbleStop(TempPut(w)) /\ Neutralised(AfterStop(TempPut(w)), w)
    BY LiveTempPut
  <2> QED
    BY <1>0, <1>2, <2>1 DEF AbleCamera, AfterCamera, FromCameraAs, Neutralised
<1>3. CASE w.kind # "raw" /\ w.profile # None
  BY <1>3 DEF AbleCamera, AfterCamera, FromCameraAs, Placed
<1> QED
  BY <1>1, <1>2, <1>3

-----------------------------------------------------------------------------
(* The operations, world by world.                                         *)

\* What no operation on the settings changes of where one may end.
Based(w, b) ==
    /\ w.kind = "jpeg" =>
          /\ w.profile # None => b.profile = w.profile
          /\ Matched(b.settings, b.profile) /\ Waiting(b.settings, b.profile)
          /\ w.opened.recalc /\ w.opened.warmth = "neutral" /\ w.opened.preset = "camera"
    /\ w.kind # "jpeg" =>
          /\ w.profile # None /\ b.profile # None /\ ~b.settings.recalc
          /\ w.opened.recalc => /\ w.kind = "raw" /\ w.opened.warmth = "camera"
                                /\ w.opened.preset = "camera"

LEMMA SettledBased ==
  ASSUME NEW w, NEW b, NEW g, NEW l, NEW f, SettledOn(w, b, g, l, f)
  PROVE  Based(w, b)
<1>1. CASE w.kind = "jpeg"
  BY <1>1 DEF SettledOn, EmbeddedSettled, Based
<1>2. CASE w.kind # "jpeg"
  BY <1>2 DEF SettledOn, RawSettled, Based
<1> QED
  BY <1>1, <1>2

LEMMA EndsOn ==
  ASSUME NEW w, NEW b, Based(w, b),
         NEW e \in World, InStep(e), Placed(e, w), NEW h, NEW k,
         e.set.exposure = h.exposure, k \/ e.set.temp = h.temp,
         w.kind = "jpeg" => Matched(e.set, w.profile) /\ Waiting(e.set, w.profile),
         w.kind # "jpeg" => ~e.set.recalc /\ PresetKept(e)
  PROVE  SettledOn(e, b, h, k, None)
<1>1. e.kind = w.kind /\ e.profile = w.profile /\ e.opened = w.opened
  BY DEF Placed
<1>2. AsBefore(e, None)
  BY DEF AsBefore
<1>3. e.kind = "jpeg" => EmbeddedSettled(e, b)
  BY <1>1 DEF Based, EmbeddedSettled
<1>4. e.kind # "jpeg" => RawSettled(e, b)
  BY <1>1 DEF Based, RawSettled
<1> QED
  BY <1>2, <1>3, <1>4 DEF SettledOn

LEMMA Ends ==
  ASSUME NEW w \in World, NEW b, NEW g, NEW l, NEW f, SettledOn(w, b, g, l, f),
         NEW e \in World, InStep(e), Placed(e, w), NEW h, NEW k,
         e.set.exposure = h.exposure, k \/ e.set.temp = h.temp,
         w.kind = "jpeg" => Matched(e.set, w.profile) /\ Waiting(e.set, w.profile),
         w.kind # "jpeg" => ~e.set.recalc /\ PresetKept(e)
  PROVE  SettledOn(e, b, h, k, None)
BY SettledBased, EndsOn

LEMMA LivePut ==
  ASSUME NEW u \in World, Live(u), u.commit = 0, NEW f, NEW x, Typed(f, x),
         RaisedBy(f, x) # {}
  PROVE  /\ AblePut(u, f, x)
         /\ StoredAs(Stored(u, f, x), u, f, x)
         /\ Heard(AfterPut(u, f, x), Stored(u, f, x), RaisedBy(f, x))
<1>1. PICK s, r, bits : /\ s = Stored(u, f, x) /\ r = AfterPut(u, f, x)
                        /\ bits = RaisedBy(f, x)
  OBVIOUS
<1>2. StoredAs(s, u, f, x) /\ bits \in SUBSET AllBits
  BY <1>1, StoredThus, StoredIs
<1>3. s \in World /\ Live(s) /\ s.commit = 0
  BY <1>2 DEF StoredAs, Framed, Placed, Live
<1>4. AbleEmit(s, bits) /\ Heard(AfterEmit(s, bits), s, bits)
  BY <1>2, <1>3, LiveEmit
<1>5. AblePut(u, f, x) /\ r = AfterEmit(s, bits)
  BY <1>1, <1>3, <1>4 DEF AblePut, AfterPut, AbleAnnounce, AfterAnnounce
<1> QED
  BY <1>1, <1>2, <1>4, <1>5

\* u is w, with the toolbox ahead of it.
Ahead(u, w) ==
    /\ u \in World /\ Framed(u, w) /\ u.set = w.set /\ u.choice = w.choice
    /\ u.switch = w.switch /\ u.unseen = w.unseen

LEMMA ExposureEnds ==
  ASSUME NEW w \in World, NEW b, NEW g, NEW l, NEW f, SettledOn(w, b, g, l, f),
         NEW x \in Exposures, x # w.set.exposure, NEW u, Ahead(u, w), u.wb = w.wb,
         NEW h, h.exposure = x, h.temp = g.temp, NEW k, l => k
  PROVE  \E e \in World : /\ Leads(<<Set("exposure", x)>>, u, e)
                          /\ SettledOn(e, b, h, k, None)
<1>1. PICK s, e : s = Stored(u, "exposure", x) /\ e = AfterPut(u, "exposure", x)
  OBVIOUS
<1>2. /\ Poised(w) /\ Live(w) /\ SwitchShown(w) /\ w.commit = 0 /\ w.wb = Holders
      /\ w.set.recalc => Due(w) = w.set.temp
  BY SettledPoised, PoisedLive
<1>3. Live(u) /\ u.commit = 0 /\ u \in World /\ Typed("exposure", x)
  BY <1>2, TypedValues DEF Ahead, Live, Framed, Placed
<1>4. RaisedBy("exposure", x) = {"exposure"}
  BY DEF RaisedBy
<1>5. AblePut(u, "exposure", x) /\ StoredAs(s, u, "exposure", x) /\ Heard(e, s, {"exposure"})
  BY <1>1, <1>3, <1>4, LivePut
<1>6. /\ s \in World /\ s.set \in SettingsType /\ s.set.exposure = x
      /\ s.set.warmth = w.set.warmth /\ s.set.temp = w.set.temp
      /\ s.set.preset = w.set.preset /\ s.set.switch = w.set.switch
      /\ s.set.recalc = w.set.recalc
      /\ s.wb = Holders /\ Placed(s, w) /\ s.commit = 0 /\ s.choice = w.choice
      /\ s.profile = w.profile /\ s.switch = w.switch /\ s.unseen = w.unseen
  <2>1. s \in World /\ s.set = [w.set EXCEPT !.exposure = x]
    BY <1>5 DEF StoredAs, Ahead
  <2>2. s.wb = Holders
    BY <1>2, <1>5 DEF StoredAs
  <2>3. Placed(s, w) /\ s.commit = 0 /\ s.profile = w.profile
    BY <1>2, <1>5 DEF StoredAs, Ahead, Framed, Placed
  <2> QED
    BY <1>5, <2>1, <2>2, <2>3, WorldHas DEF SettingsType, StoredAs, Ahead
<1>7. Due(s) = Due(w) /\ Due(s) \in Temps
  BY <1>6, DueType DEF Due
<1>8. /\ e \in World /\ Framed(e, s) /\ e.set = Done(s.set, Due(s))
      /\ e.choice = (IF w.set.recalc THEN w.profile ELSE w.choice)
      /\ e.exposure = Holders /\ e.wb = Holders /\ SwitchShown(e)
  <2>1. SwitchShown(s)
    BY <1>2, <1>6 DEF SwitchShown
  <2> QED
    BY <1>5, <1>6, <2>1 DEF Heard
<1>9. /\ ~e.set.recalc /\ e.set.exposure = x /\ e.set.warmth = w.set.warmth
      /\ e.set.temp = w.set.temp /\ e.set.preset = w.set.preset
  <2>1. /\ ~Done(s.set, Due(s)).recalc
        /\ Done(s.set, Due(s)).exposure = s.set.exposure
        /\ Done(s.set, Due(s)).warmth = s.set.warmth
        /\ Done(s.set, Due(s)).temp = (IF s.set.recalc THEN Due(s) ELSE s.set.temp)
        /\ Done(s.set, Due(s)).preset
              = (IF s.set.recalc /\ Due(s) # s.set.temp THEN None ELSE s.set.preset)
    BY <1>6, <1>7, DoneIs
  <2> QED
    BY <1>2, <1>6, <1>7, <1>8, <2>1
<1>10. Placed(e, w) /\ e.commit = 0
  BY <1>6, <1>8 DEF Framed, Placed
<1>11. InStep(e)
  BY <1>2, <1>8, <1>10 DEF InStep, Live, Placed, SwitchShown
<1>12. w.kind = "jpeg" => Matched(e.set, w.profile) /\ Waiting(e.set, w.profile)
  BY <1>9 DEF SettledOn, EmbeddedSettled, Matched, Waiting
<1>13. w.kind # "jpeg" => ~e.set.recalc /\ PresetKept(e)
  BY <1>8, <1>9, <1>10 DEF SettledOn, RawSettled, PresetKept, Placed
<1>14. k \/ e.set.temp = h.temp
  BY <1>9 DEF SettledOn
<1>15. SettledOn(e, b, h, k, None)
  BY <1>8, <1>9, <1>10, <1>11, <1>12, <1>13, <1>14, Ends
<1>16. AbleSet(u, "exposure", x) /\ e = AfterSet(u, "exposure", x)
  BY <1>1, <1>5 DEF AbleSet, AfterSet, Same, Ahead
<1>17. Leads(<<Set("exposure", x)>>, u, e)
  BY <1>3, <1>16, LeadSet
<1> QED
  BY <1>8, <1>15, <1>17

LEMMA NonePreset ==
  None # "camera" /\ None # "auto"
BY NoneAssumption DEF Warmths

LEMMA TempEnds ==
  ASSUME NEW w \in World, NEW b, NEW g, NEW l, NEW f, SettledOn(w, b, g, l, f),
         NEW x \in Temps, x # w.set.temp,
         NEW u, Ahead(u, w), u.exposure = w.exposure,
         NEW h, h.temp = x, h.exposure = g.exposure, NEW k, l => k, w.set.recalc => k
  PROVE  \E e \in World : /\ Leads(<<Set("temp", x)>>, u, e)
                          /\ SettledOn(e, b, h, k, None)
<1>0. None # "camera" /\ None # "auto"
  BY NonePreset
<1>1. PICK s, n, a, e :
        /\ s = Stored(u, "temp", x) /\ n = Stored(s, "preset", None)
        /\ a = AfterPut(s, "preset", None) /\ e = AfterAnnounce(a, {"wb"})
  OBVIOUS
<1>2. /\ Poised(w) /\ Live(w) /\ SwitchShown(w) /\ w.commit = 0 /\ w.exposure = Holders
      /\ w.set.recalc => Due(w) = w.set.temp
  BY SettledPoised, PoisedLive
<1>3. /\ u \in World /\ Live(u) /\ u.commit = 0 /\ Typed("temp", x)
      /\ Typed("preset", None)
  BY <1>2, TypedValues DEF Ahead, Live, Framed, Placed, Presets
<1>4. StoredAs(s, u, "temp", x)
  BY <1>1, <1>3, StoredThus
<1>5. s \in World /\ Live(s) /\ s.commit = 0 /\ RaisedBy("preset", None) = {"wb"}
  BY <1>3, <1>4 DEF StoredAs, Framed, Placed, Live, RaisedBy
<1>6. /\ AblePut(s, "preset", None) /\ StoredAs(n, s, "preset", None)
      /\ Heard(a, n, {"wb"})
  <2>1. RaisedBy("preset", None) # {}
    BY <1>5
  <2> QED
    BY <1>1, <1>3, <1>5, <2>1, LivePut
<1>7. /\ n \in World /\ n.set \in SettingsType /\ n.set.exposure = w.set.exposure
      /\ n.set.warmth = w.set.warmth /\ n.set.temp = x /\ n.set.preset = None
      /\ n.set.switch = w.set.switch /\ n.set.recalc = w.set.recalc
      /\ n.exposure = Holders /\ Placed(n, w) /\ n.commit = 0
      /\ n.switch = w.switch /\ n.unseen = w.unseen
  <2>1. /\ n \in World /\ s.set = [w.set EXCEPT !.temp = x]
        /\ n.set = [s.set EXCEPT !.preset = None]
    BY <1>4, <1>6 DEF StoredAs, Ahead
  <2>2. n.exposure = Holders
    BY <1>2, <1>4, <1>6 DEF StoredAs
  <2>3. Placed(n, w) /\ n.commit = 0
    BY <1>2, <1>4, <1>6 DEF StoredAs, Ahead, Framed, Placed
  <2>4. n.switch = w.switch /\ n.unseen = w.unseen
    BY <1>4, <1>6 DEF StoredAs, Ahead
  <2> QED
    BY <2>1, <2>2, <2>3, <2>4, WorldHas DEF SettingsType
<1>8. Due(n) \in Temps
  BY <1>7, DueType
<1>9. /\ a \in World /\ Framed(a, n) /\ a.set = Done(n.set, Due(n))
      /\ a.exposure = Holders /\ a.wb = Holders /\ SwitchShown(a)
  <2>1. SwitchShown(n)
    BY <1>2, <1>7 DEF SwitchShown
  <2> QED
    BY <1>6, <1>7, <2>1 DEF Heard
<1>10. /\ ~a.set.recalc /\ a.set.exposure = w.set.exposure
       /\ a.set.temp = (IF w.set.recalc THEN Due(n) ELSE x) /\ a.set.preset = None
       /\ a.set.warmth = w.set.warmth
  <2>1. /\ ~Done(n.set, Due(n)).recalc
        /\ Done(n.set, Due(n)).exposure = n.set.exposure
        /\ Done(n.set, Due(n)).warmth = n.set.warmth
        /\ Done(n.set, Due(n)).temp = (IF n.set.recalc THEN Due(n) ELSE n.set.temp)
        /\ Done(n.set, Due(n)).preset
              = (IF n.set.recalc /\ Due(n) # n.set.temp THEN None ELSE n.set.preset)
    BY <1>7, <1>8, DoneIs
  <2> QED
    BY <1>7, <1>9, <2>1
<1>11. Placed(a, w) /\ Live(a) /\ a.commit = 0
  BY <1>2, <1>7, <1>9 DEF Framed, Placed, Live
<1>12. /\ {"wb"} \in SUBSET AllBits /\ {"wb"} # {}
  BY DEF AllBits
<1>13. AbleEmit(a, {"wb"}) /\ Heard(AfterEmit(a, {"wb"}), a, {"wb"})
  BY <1>9, <1>10, <1>11, <1>12, LiveEmit
<1>14. AbleAnnounce(a, {"wb"}) /\ e = AfterEmit(a, {"wb"})
  BY <1>1, <1>11, <1>12, <1>13 DEF AbleAnnounce, AfterAnnounce
<1>15. /\ e \in World /\ Framed(e, a) /\ e.set = a.set
       /\ e.exposure = Holders /\ e.wb = Holders /\ SwitchShown(e)
  BY <1>9, <1>10, <1>13, <1>14 DEF Heard, Done
<1>16. Placed(e, w) /\ e.commit = 0
  BY <1>11, <1>15 DEF Framed, Placed
<1>17. InStep(e)
  BY <1>2, <1>15, <1>16 DEF InStep, Live, Placed, SwitchShown
<1>18. w.kind = "jpeg" => Matched(e.set, w.profile) /\ Waiting(e.set, w.profile)
  BY <1>0, <1>10, <1>15 DEF Matched, Waiting
<1>19. w.kind # "jpeg" => ~e.set.recalc /\ PresetKept(e)
  BY <1>0, <1>10, <1>15 DEF PresetKept
<1>20. /\ e.set.exposure = h.exposure
       /\ k \/ e.set.temp = h.temp
  BY <1>10, <1>15 DEF SettledOn
<1>21. SettledOn(e, b, h, k, None)
  BY <1>15, <1>16, <1>17, <1>18, <1>19, <1>20, Ends
<1>22. AbleSet(u, "temp", x) /\ e = AfterSet(u, "temp", x)
  BY <1>1, <1>6, <1>14 DEF AbleSet, AfterSet, Same, Ahead
<1>23. Leads(<<Set("temp", x)>>, u, e)
  BY <1>3, <1>22, LeadSet
<1> QED
  BY <1>15, <1>21, <1>23

\* The calls of bw_enable_toggled() and its like.
Toggling(x) == <<Mute(TRUE), Set("switch", x), Mute(FALSE)>>

LEMMA SwitchEnds ==
  ASSUME NEW w \in World, NEW b, NEW g, NEW l, NEW f, SettledOn(w, b, g, l, f),
         NEW u \in World, Framed(u, w), u.set = w.set, u.choice = w.choice,
         NEW x, u.switch = x, u.exposure = w.exposure, u.wb = w.wb,
         NEW k, l => k
  PROVE  \E e \in World : Leads(Toggling(x), u, e) /\ SettledOn(e, b, g, k, None)
<1>0. x \in BOOLEAN
  BY WorldHas
<1>1. PICK m, s, a, e : /\ m = Muting(u, TRUE) /\ s = Stored(m, "switch", x)
                        /\ a = AfterSet(m, "switch", x) /\ e = Muting(a, FALSE)
  OBVIOUS
<1>2. /\ Poised(w) /\ Live(w) /\ w.commit = 0 /\ w.exposure = Holders
      /\ w.wb = Holders
      /\ w.set.recalc => Due(w) = w.set.temp
  BY SettledPoised, PoisedLive
<1>3. /\ m \in World /\ m.mute = TRUE /\ m.kind = w.kind /\ m.set = w.set
      /\ m.commit = 0 /\ m.exposure = Holders /\ m.wb = Holders /\ m.link = Chains
      /\ m.follows = w.follows /\ m.prof = w.prof /\ m.profile = w.profile /\ m.choice = w.choice
      /\ m.switch = x /\ m.opened = w.opened
  <2>1. /\ Muting(u, TRUE) \in World /\ Muting(u, TRUE).mute = TRUE
        /\ Muting(u, TRUE).kind = u.kind /\ Muting(u, TRUE).set = u.set
        /\ Muting(u, TRUE).commit = u.commit
        /\ Muting(u, TRUE).exposure = u.exposure /\ Muting(u, TRUE).wb = u.wb
        /\ Muting(u, TRUE).link = u.link /\ Muting(u, TRUE).follows = u.follows
        /\ Muting(u, TRUE).prof = u.prof /\ Muting(u, TRUE).profile = u.profile
        /\ Muting(u, TRUE).choice = u.choice /\ Muting(u, TRUE).switch = u.switch
        /\ Muting(u, TRUE).opened = u.opened
    BY MutingIs
  <2> QED
    BY <1>1, <1>2, <2>1 DEF Live, Framed, Placed
<1>4. Typed("switch", x) /\ m.set \in SettingsType /\ RaisedBy("switch", x) = {"switch"}
  BY <1>3, TypedValues, WorldHas DEF RaisedBy
<1>5. /\ AbleSet(m, "switch", x)
      /\ a \in World /\ Framed(a, m) /\ a.exposure = Holders /\ a.wb = Holders
      /\ a.switch = x /\ a.set.switch = x /\ a.set.exposure = w.set.exposure
      /\ a.set.warmth = w.set.warmth /\ a.set.temp = w.set.temp
      /\ a.set.preset = w.set.preset /\ (a.set.recalc => w.set.recalc)
      /\ a.choice = w.choice \/ w.set.recalc
  <2>1. CASE Same(m, "switch", x)
    BY <1>1, <1>3, <2>1 DEF AbleSet, AfterSet, Framed, Placed, Same
  <2>2. CASE ~Same(m, "switch", x)
    <3>1. StoredAs(s, m, "switch", x)
      BY <1>1, <1>3, <1>4, StoredThus
    <3>2. /\ s \in World /\ s.commit = 0 /\ s.follows /\ s.mute /\ s.link = Chains
          /\ s.prof = w.prof /\ s.profile = w.profile /\ s.exposure = Holders
          /\ s.wb = Holders /\ s.choice = w.choice /\ s.switch = x
      BY <1>2, <1>3, <3>1 DEF StoredAs, Framed, Placed, Live
    <3>3. /\ s.set.switch = x /\ s.set.exposure = w.set.exposure
          /\ s.set.warmth = w.set.warmth /\ s.set.temp = w.set.temp
          /\ s.set.preset = w.set.preset /\ s.set.recalc = w.set.recalc
      BY <1>3, <1>4, <3>1 DEF StoredAs, SettingsType
    <3>4. PICK r, bits : r = AfterEmit(s, bits) /\ bits = {"switch"}
      OBVIOUS
    <3>5. bits \in SUBSET AllBits /\ ~Listening(s)
      BY <3>2, <3>4 DEF AllBits, Listening
    <3>6. /\ AbleEmit(s, bits) /\ r \in World /\ Framed(r, s)
          /\ s.exposure \subseteq r.exposure /\ s.wb \subseteq r.wb
          /\ r.switch = x
          /\ r.set.switch = x /\ r.set.exposure = w.set.exposure
          /\ r.set.warmth = w.set.warmth /\ r.set.temp = w.set.temp
          /\ r.set.preset = w.set.preset /\ (r.set.recalc => w.set.recalc)
          /\ r.choice = w.choice \/ w.set.recalc
      <4>1. CASE ~w.set.recalc
        <5>1. AbleEmit(s, bits) /\ Still(r, s) /\ Passed(r, s, bits)
          BY <3>2, <3>3, <3>4, <3>5, <4>1, QuietEmit
        <5> QED
          BY <3>2, <3>3, <3>5, <4>1, <5>1 DEF Still, Passed
      <4>2. CASE w.set.recalc
        <5>1. Converted(s, "navigator") = s.set.temp
          BY <1>2, <3>2, <3>3, <4>2 DEF Converted, Due, Live
        <5>2. AbleEmit(s, bits) /\ Turned(r, s) /\ Passed(r, s, bits)
          BY <3>2, <3>3, <3>4, <3>5, <4>2, <5>1, KeptEmit
        <5>3. s.set \in SettingsType
          BY <3>2, WorldHas
        <5> QED
          BY <3>2, <3>3, <3>5, <4>2, <5>2, <5>3, RecalcDone DEF Turned, Passed
      <4> QED
        BY <4>1, <4>2
    <3>7. AblePut(m, "switch", x) /\ a = r
      <4>1. a = AfterPut(m, "switch", x)
        BY <1>1, <2>2 DEF AfterSet
      <4>2. bits # {} /\ bits = RaisedBy("switch", x)
        BY <1>4, <3>4
      <4>3. AfterAnnounce(s, bits) = r /\ AbleAnnounce(s, bits)
        BY <3>2, <3>4, <3>6, <4>2 DEF AbleAnnounce, AfterAnnounce
      <4> QED
        BY <1>1, <4>1, <4>2, <4>3 DEF AblePut, AfterPut
    <3>8. r.exposure = Holders /\ r.wb = Holders
      BY <3>2, <3>6, WorldHas
    <3>9. Framed(r, m)
      BY <3>1, <3>6, FramedTransitive DEF StoredAs
    <3> QED
      BY <2>2, <3>6, <3>7, <3>8, <3>9 DEF AbleSet
  <2> QED
    BY <2>1, <2>2
<1>6. /\ e \in World /\ e.mute = FALSE /\ e.kind = w.kind /\ e.set = a.set
      /\ e.commit = 0 /\ e.exposure = Holders /\ e.wb = Holders /\ e.link = Chains
      /\ e.follows = w.follows /\ e.prof = w.prof /\ e.profile = w.profile /\ e.choice = a.choice
      /\ e.switch = x /\ e.opened = w.opened
  <2>1. /\ Muting(a, FALSE) \in World /\ Muting(a, FALSE).mute = FALSE
        /\ Muting(a, FALSE).kind = a.kind /\ Muting(a, FALSE).set = a.set
        /\ Muting(a, FALSE).commit = a.commit
        /\ Muting(a, FALSE).exposure = a.exposure /\ Muting(a, FALSE).wb = a.wb
        /\ Muting(a, FALSE).link = a.link /\ Muting(a, FALSE).follows = a.follows
        /\ Muting(a, FALSE).prof = a.prof /\ Muting(a, FALSE).profile = a.profile
        /\ Muting(a, FALSE).choice = a.choice /\ Muting(a, FALSE).switch = a.switch
        /\ Muting(a, FALSE).opened = a.opened
    BY <1>5, MutingIs
  <2>2. /\ a.kind = m.kind /\ a.link = m.link /\ a.follows = m.follows
        /\ a.prof = m.prof /\ a.profile = m.profile /\ a.opened = m.opened
        /\ a.commit = m.commit
    BY <1>5 DEF Framed, Placed
  <2>3. e.follows = w.follows /\ e.mute = FALSE
    BY <1>1, <1>3, <2>1, <2>2
  <2> QED
    <3>1. a.switch = x /\ a.exposure = Holders /\ a.wb = Holders
      BY <1>5
    <3>2. e.switch = x
      BY <1>1, <2>1, <3>1
    <3>3. /\ e \in World /\ e.kind = w.kind /\ e.set = a.set
          /\ e.commit = 0 /\ e.exposure = Holders /\ e.wb = Holders /\ e.link = Chains
          /\ e.prof = w.prof /\ e.profile = w.profile /\ e.choice = a.choice
          /\ e.opened = w.opened
      <4>1. /\ m.kind = w.kind /\ m.commit = 0 /\ m.link = Chains /\ m.prof = w.prof
            /\ m.profile = w.profile /\ m.opened = w.opened
        BY <1>3
      <4>2. /\ e \in World /\ e.kind = a.kind /\ e.set = a.set /\ e.commit = a.commit
            /\ e.exposure = a.exposure /\ e.wb = a.wb /\ e.link = a.link
            /\ e.prof = a.prof /\ e.profile = a.profile /\ e.choice = a.choice
            /\ e.opened = a.opened
        BY <1>1, <2>1
      <4> QED
        BY <2>2, <3>1, <4>1, <4>2
    <3> QED
      BY <2>3, <3>2, <3>3
<1>7. InStep(e) /\ Placed(e, w)
  <2>1. w.mute = FALSE
    BY <1>2, WorldHas DEF Live
  <2> QED
    BY <1>2, <1>5, <1>6, <2>1 DEF InStep, Placed, Live
<1>8. w.kind = "jpeg" => Matched(e.set, w.profile) /\ Waiting(e.set, w.profile)
  BY <1>5, <1>6 DEF SettledOn, EmbeddedSettled, Matched, Waiting
<1>9. w.kind # "jpeg" => ~e.set.recalc /\ PresetKept(e)
  BY <1>5, <1>6 DEF SettledOn, RawSettled, PresetKept
<1>10. e.set.exposure = g.exposure
  BY <1>5, <1>6 DEF SettledOn
<1>11. k \/ e.set.temp = g.temp
  BY <1>5, <1>6 DEF SettledOn
<1>12. SettledOn(e, b, g, k, None)
  BY <1>6, <1>7, <1>8, <1>9, <1>10, <1>11, Ends
<1>13. Leads(<<Mute(TRUE)>>, u, m) /\ Leads(<<Mute(FALSE)>>, a, e)
  BY <1>1, <1>5, LeadMute
<1>14. Leads(<<Set("switch", x)>>, m, a)
  BY <1>1, <1>3, <1>4, <1>5, LeadSet
<1>15. Leads(<<Mute(TRUE), Set("switch", x), Mute(FALSE)>>, u, e)
  BY <1>13, <1>14, ThreeInTurn
<1> QED
  BY <1>6, <1>12, <1>15 DEF Toggling

LEMMA BalanceSettles ==
  ASSUME NEW w, NEW b, Based(w, b),
         NEW v \in World, InStep(v), Placed(v, w),
         NEW t \in Warmths, t # "neutral", NEW p \in Presets, p = None \/ p = t,
         NEW h, h.exposure = v.set.exposure, h.temp = Asked(w.profile, t), NEW k
  PROVE  /\ AbleSetWb(v, t, p) /\ AfterSetWb(v, t, p) \in World
         /\ ~AfterSetWb(v, t, p).set.recalc
         /\ SettledOn(AfterSetWb(v, t, p), b, h, k, None)
<1>0. None # "camera" /\ None # "auto"
  BY NonePreset
<1>1. PICK e : e = AfterSetWb(v, t, p)
  OBVIOUS
<1>2. v.profile = w.profile
  BY DEF Placed
<1>3. AbleSetWb(v, t, p) /\ Rebalanced(e, v, t, p)
  BY <1>1, LiveSetWb
<1>4. /\ e \in World /\ Placed(e, w) /\ InStep(e) /\ e.choice = w.profile
      /\ e.set.exposure = h.exposure /\ e.set.warmth = t /\ ~e.set.recalc
      /\ e.set.temp = Asked(w.profile, t)
      /\ e.set.preset = None \/ e.set.preset = p
  BY <1>2, <1>3, PlacedTransitive DEF Rebalanced
<1>5. w.kind = "jpeg" => Matched(e.set, w.profile) /\ Waiting(e.set, w.profile)
  BY <1>4 DEF Matched, Waiting
<1>6. PresetKept(e)
  BY <1>0, <1>4 DEF PresetKept, Asked
<1>7. SettledOn(e, b, h, k, None)
  BY <1>4, <1>5, <1>6, EndsOn
<1> QED
  BY <1>1, <1>3, <1>4, <1>7

LEMMA BalanceEnds ==
  ASSUME NEW w \in World, NEW b, NEW g, NEW l, NEW f, SettledOn(w, b, g, l, f),
         NEW t \in Warmths, t # "neutral", NEW p \in Presets, p = None \/ p = t,
         NEW h, h.exposure = g.exposure, h.temp = Asked(w.profile, t), NEW k
  PROVE  \E e \in World : /\ Leads(SetWb(t, p), w, e) /\ ~e.set.recalc
                          /\ SettledOn(e, b, h, k, None)
<1>1. InStep(w) /\ Placed(w, w) /\ h.exposure = w.set.exposure /\ Based(w, b)
  BY SettledBased DEF SettledOn, Placed
<1>2. PICK e : e = AfterSetWb(w, t, p)
  OBVIOUS
<1>3. /\ AbleSetWb(w, t, p) /\ e \in World /\ ~e.set.recalc
      /\ SettledOn(e, b, h, k, None)
  BY <1>1, <1>2, BalanceSettles
<1>4. Leads(SetWb(t, p), w, e)
  BY <1>2, <1>3, LeadSetWb
<1> QED
  BY <1>3, <1>4

\* The photo is told of what everybody knows.
LEMMA PhotoEnds ==
  ASSUME NEW w \in World, InStep(w), ~w.set.recalc, NEW bits \in SUBSET AllBits,
         bits = {"wb"}
  PROVE  Leads(<<Tell("photo", bits)>>, w, w)
<1>1. PICK r : r = AfterPhoto(w, bits)
  OBVIOUS
<1>2. AblePhoto(w, bits) /\ Still(r, w) /\ Passed(r, w, bits)
  BY <1>1, QuietPhoto
<1>3. Leads(<<Tell("photo", bits)>>, w, r)
  BY <1>1, <1>2, LeadPhoto
<1>4. r.switch = w.switch /\ r.unseen = w.unseen
  BY <1>2 DEF Passed
<1>5. Below(w, r)
  BY <1>2, <1>4 DEF Still, Framed, Placed, Below
<1> QED
  BY <1>3, <1>5, LeadsBelow

\* AskedCamera() of a file of the kind n.
CameraTemp(n, p, t) ==
    CASE n = "raw"              -> Asked(p, "camera")
      [] n # "raw" /\ p = None -> DefaultTemp
      [] OTHER                  -> t

\* The settings s of w, which may be left as they are.
Sound(w, v) ==
    /\ w.kind = "jpeg" => Matched(v.set, w.profile) /\ Waiting(v.set, w.profile)
    /\ w.kind # "jpeg" => ~v.set.recalc /\ PresetKept(v)

LEMMA CameraSettles ==
  ASSUME NEW w, NEW b, Based(w, b),
         NEW v \in World, InStep(v), Placed(v, w), NEW h, NEW k, NEW t,
         v.set.exposure = h.exposure, h.temp = CameraTemp(w.kind, w.profile, t),
         w.kind # "raw" /\ w.profile # None => Sound(w, v) /\ (k \/ v.set.temp = t)
  PROVE  /\ AbleCamera(v) /\ AfterCamera(v) \in World
         /\ SettledOn(AfterCamera(v), b, h, k, None)
<1>0. None # "camera" /\ None # "auto"
  BY NonePreset
<1>1. PICK e : e = AfterCamera(v)
  OBVIOUS
<1>2. /\ AbleCamera(v) /\ FromCameraAs(e, v) /\ e \in World /\ InStep(e) /\ Placed(e, v)
  BY <1>1, LiveCamera
<1>3. Placed(e, w) /\ v.kind = w.kind /\ v.profile = w.profile
  BY <1>2, PlacedTransitive DEF Placed
<1>4. CASE w.kind = "raw"
  <2>1. Rebalanced(e, v, "camera", "camera")
    BY <1>2, <1>3, <1>4 DEF FromCameraAs
  <2>2. /\ e.set.exposure = h.exposure /\ e.set.temp = h.temp
        /\ ~e.set.recalc /\ e.choice = w.profile
        /\ e.set.preset = None \/ e.set.preset = "camera"
        /\ e.set.temp = Asked(w.profile, "camera")
    BY <1>3, <1>4, <2>1 DEF Rebalanced, CameraTemp
  <2>3. PresetKept(e)
    BY <1>0, <2>2 DEF PresetKept, Asked
  <2> QED
    BY <1>1, <1>2, <1>3, <1>4, <2>2, <2>3, EndsOn
<1>5. CASE w.kind # "raw" /\ w.profile = None
  <2>1. Neutralised(e, v)
    BY <1>2, <1>3, <1>5 DEF FromCameraAs
  <2>2. /\ e.set.exposure = h.exposure /\ e.set.temp = h.temp
        /\ ~e.set.recalc
    BY <1>5, <2>1 DEF Neutralised, CameraTemp
  <2>3. Matched(e.set, w.profile) /\ Waiting(e.set, w.profile)
    BY <1>5, <2>2 DEF Matched, Waiting
  <2>4. w.kind = "jpeg"
    BY <1>5 DEF Based
  <2> QED
    BY <1>1, <1>2, <1>3, <2>2, <2>3, <2>4, EndsOn
<1>6. CASE w.kind # "raw" /\ w.profile # None
  <2>1. e = v /\ h.temp = t
    BY <1>2, <1>3, <1>6 DEF FromCameraAs, CameraTemp
  <2>2. /\ k \/ e.set.temp = h.temp
        /\ e.set.exposure = h.exposure
    BY <1>6, <2>1
  <2>3. /\ w.kind = "jpeg" => Matched(e.set, w.profile) /\ Waiting(e.set, w.profile)
        /\ w.kind # "jpeg" => ~e.set.recalc /\ PresetKept(e)
    BY <1>6, <2>1 DEF Sound
  <2> QED
    BY <1>1, <1>2, <1>3, <2>2, <2>3, EndsOn
<1> QED
  BY <1>4, <1>5, <1>6

LEMMA SettledSound ==
  ASSUME NEW w, NEW b, NEW g, NEW l, NEW f, SettledOn(w, b, g, l, f)
  PROVE  Sound(w, w)
BY DEF SettledOn, EmbeddedSettled, RawSettled, Sound

LEMMA CameraEnds ==
  ASSUME NEW w \in World, NEW b, NEW g, NEW l, NEW f, SettledOn(w, b, g, l, f),
         NEW h, h.exposure = g.exposure, h.temp = CameraTemp(w.kind, w.profile, g.temp),
         NEW k, l => k
  PROVE  \E e \in World : /\ Leads(<<Call("camera")>>, w, e)
                          /\ SettledOn(e, b, h, k, None)
<1>1. PICK e : e = AfterCamera(w)
  OBVIOUS
<1>2. /\ InStep(w) /\ Placed(w, w) /\ w.set.exposure = h.exposure
      /\ l \/ w.set.temp = g.temp
  BY DEF SettledOn, Placed
<1>3. AbleCamera(w) /\ e \in World /\ SettledOn(e, b, h, k, None)
  BY <1>1, <1>2, SettledBased, SettledSound, CameraSettles
<1> QED
  BY <1>1, <1>3, LeadCamera

(* What is set in a commit within another. *)

\* r is u after the inner commit was closed.
Unnested(r, u) ==
    /\ r \in World /\ Covered(r) /\ r.commit = 1 /\ Placed(r, u)
    /\ r.set = u.set /\ r.choice = u.choice /\ r.todo = u.todo

LEMMA NestedStop ==
  ASSUME NEW u \in World, u.commit = 2, Covered(u)
  PROVE  AbleStop(u) /\ Unnested(AfterStop(u), u)
<1>1. PICK r : r = Stopped(u)
  OBVIOUS
<1>2. AbleStop(u)
  BY DEF AbleStop
<1>3. AfterStop(u) = r
  BY <1>1 DEF AfterStop, Stopping
<1>4. /\ r \in World /\ r.commit = 1 /\ Placed(r, u)
      /\ r.set = u.set /\ r.choice = u.choice /\ r.todo = u.todo
      /\ r.switch = u.switch /\ r.unseen = u.unseen
      /\ r.exposure = u.exposure /\ r.wb = u.wb
  BY <1>1, StoppedIs
<1>5. Live(r) /\ (SwitchShown(u) => SwitchShown(r)) /\ Due(r) = Due(u)
  BY <1>4 DEF Covered, Live, SwitchShown, Due, Placed
<1>6. Covered(r)
  BY <1>4, <1>5 DEF Covered
<1> QED
  BY <1>2, <1>3, <1>4, <1>6 DEF Unnested

\* r is w with a balance, or the default temperature, put in the outer commit.
NestedAs(r, w) ==
    /\ r \in World /\ Covered(r) /\ r.commit = 1 /\ Placed(r, w)
    /\ r.choice = w.choice /\ w.todo \subseteq r.todo
    /\ r.set.exposure = w.set.exposure
    /\ w.kind = "raw" =>
          r.set.warmth = "camera" /\ r.set.preset = "camera" /\ r.set.recalc
    /\ w.kind # "raw" /\ w.profile = None =>
          r.set.temp = DefaultTemp /\ r.set.preset = "camera" /\ ~r.set.recalc
    /\ w.kind # "raw" /\ w.profile # None => r = w

LEMMA NestedCamera ==
  ASSUME NEW w \in World, w.commit = 1, Covered(w)
  PROVE  AbleCamera(w) /\ NestedAs(AfterCamera(w), w)
<1>1. PICK r : r = AfterCamera(w)
  OBVIOUS
<1>2. CASE w.kind = "raw"
  <2>1. PICK u : u = WbPut(w, "camera", "camera")
    OBVIOUS
  <2>2. "camera" \in Warmths /\ "camera" \in Presets
    BY DEF Warmths, Presets
  <2>3. WbPutAs(u, w, "camera", "camera")
    BY <2>1, <2>2, WbPutIs
  <2>4. /\ u \in World /\ Placed(u, w) /\ u.commit = 2
        /\ u.set.exposure = w.set.exposure /\ u.set.warmth = "camera"
        /\ u.set.preset = "camera" /\ u.set.switch = w.set.switch /\ u.set.recalc
        /\ u.choice = w.choice /\ u.switch = w.switch /\ u.unseen = w.unseen
        /\ u.exposure = w.exposure /\ "wb" \in u.todo /\ w.todo \subseteq u.todo
    BY <2>3 DEF WbPutAs
  <2>5. Live(u) /\ (SwitchShown(w) => SwitchShown(u))
    BY <2>4 DEF Covered, Live, SwitchShown, Placed
  <2>6. Covered(u)
    BY <2>4, <2>5 DEF Covered
  <2>7. AbleStop(u) /\ Unnested(AfterStop(u), u)
    BY <2>4, <2>6, NestedStop
  <2>8. AbleCamera(w) /\ r = AfterStop(u)
    BY <1>1, <1>2, <2>1, <2>7 DEF AbleCamera, AbleSetWb, AfterCamera, AfterSetWb
  <2>9. NestedAs(r, w)
    BY <1>2, <2>4, <2>7, <2>8, PlacedTransitive DEF NestedAs, Unnested
  <2> QED
    BY <1>1, <2>8, <2>9
<1>3. CASE w.kind # "raw" /\ w.profile = None
  <2>1. PICK u : u = TempPut(w)
    OBVIOUS
  <2>3. TempPutAs(u, w)
    BY <2>1, TempPutIs
  <2>4. /\ u \in World /\ Placed(u, w) /\ u.commit = 2
        /\ u.set.exposure = w.set.exposure /\ u.set.temp = DefaultTemp
        /\ u.set.preset = "camera" /\ u.set.switch = w.set.switch /\ ~u.set.recalc
        /\ u.choice = w.choice /\ u.switch = w.switch /\ u.unseen = w.unseen
        /\ u.exposure = w.exposure /\ "wb" \in u.todo /\ w.todo \subseteq u.todo
    BY <2>3 DEF TempPutAs
  <2>5. Live(u) /\ (SwitchShown(w) => SwitchShown(u))
    BY <2>4 DEF Covered, Live, SwitchShown, Placed
  <2>6. Covered(u)
    BY <2>4, <2>5 DEF Covered
  <2>7. AbleStop(u) /\ Unnested(AfterStop(u), u)
    BY <2>4, <2>6, NestedStop
  <2>8. AbleCamera(w) /\ r = AfterStop(u)
    BY <1>1, <1>3, <2>1, <2>7 DEF AbleCamera, AfterCamera
  <2>9. NestedAs(r, w)
    BY <1>3, <2>4, <2>7, <2>8, PlacedTransitive DEF NestedAs, Unnested
  <2> QED
    BY <1>1, <2>8, <2>9
<1>4. CASE w.kind # "raw" /\ w.profile # None
  <2>1. AbleCamera(w) /\ r = w
    BY <1>1, <1>4 DEF AbleCamera, AfterCamera
  <2> QED
    BY <1>1, <1>4, <2>1 DEF NestedAs, Placed
<1> QED
  BY <1>2, <1>3, <1>4

\* u is w with the defaults put, in the inner commit.
ResetAs(u, w) ==
    /\ u \in World /\ Covered(u) /\ u.commit = 2 /\ Placed(u, w)
    /\ u.choice = w.choice
    /\ u.set.exposure = Defaults.exposure /\ u.set.warmth = Defaults.warmth
    /\ u.set.temp = DefaultTemp /\ u.set.recalc = w.set.recalc
    /\ \/ u.set.preset = None
       \/ u.set.preset = w.set.preset /\ w.set.temp = DefaultTemp

\* u is w with the property f set to x, in the inner commit.
InnerSet(u, w, f, x) ==
    /\ u \in World /\ Covered(u) /\ u.commit = 2 /\ Placed(u, w)
    /\ u.choice = w.choice
    /\ u.set.exposure = IF f = "exposure" THEN x ELSE w.set.exposure
    /\ u.set.warmth = IF f = "warmth" THEN x ELSE w.set.warmth
    /\ u.set.temp = IF f = "temp" THEN x ELSE w.set.temp
    /\ u.set.recalc = w.set.recalc
    /\ \/ u.set.preset = None
       \/ u.set.preset = w.set.preset /\ (f = "temp" => w.set.temp = x)

LEMMA NestedSet ==
  ASSUME NEW w \in World, w.commit = 2, Covered(w), NEW f, NEW x, Typed(f, x),
         f \in {"exposure", "warmth", "temp", "switch"}
  PROVE  AbleSet(w, f, x) /\ InnerSet(AfterSet(w, f, x), w, f, x)
<1>1. PICK u : u = AfterSet(w, f, x)
  OBVIOUS
<1>2. AbleSet(w, f, x) /\ SetAs(u, w, f, x)
  BY <1>1, AbleInCommit, SetInCommit
<1>3. Covered(u)
  BY <1>2, CoveredSet
<1>4. w.set \in SettingsType
  BY WorldHas
<1>5. InnerSet(u, w, f, x)
  <2>1. CASE Same(w, f, x)
    BY <1>2, <1>3, <2>1 DEF SetAs, InnerSet, Placed, Same
  <2>2. CASE ~Same(w, f, x) /\ f \in {"warmth", "temp"}
    <3>1. DroppedAs(u, w, f, x)
      BY <1>2, <2>2 DEF SetAs
    <3>2. /\ u \in World /\ Placed(u, w) /\ u.commit = 2 /\ u.choice = w.choice
          /\ u.set = [w.set EXCEPT ![f] = x, !.preset = None]
      BY <3>1 DEF DroppedAs, Framed
    <3>3. /\ u.set.exposure = IF f = "exposure" THEN x ELSE w.set.exposure
          /\ u.set.warmth = IF f = "warmth" THEN x ELSE w.set.warmth
          /\ u.set.temp = IF f = "temp" THEN x ELSE w.set.temp
          /\ u.set.recalc = w.set.recalc /\ u.set.preset = None
      BY <1>4, <2>2, <3>2 DEF SettingsType
    <3> QED
      BY <1>3, <3>2, <3>3 DEF InnerSet
  <2>3. CASE ~Same(w, f, x) /\ f \notin {"warmth", "temp"}
    <3>1. PutAs(u, w, f, x)
      BY <1>2, <2>3 DEF SetAs
    <3>2. /\ u \in World /\ Placed(u, w) /\ u.commit = 2 /\ u.choice = w.choice
          /\ u.set = [w.set EXCEPT ![f] = x]
      BY <3>1 DEF PutAs, Framed
    <3>3. /\ u.set.exposure = IF f = "exposure" THEN x ELSE w.set.exposure
          /\ u.set.warmth = w.set.warmth /\ u.set.temp = w.set.temp
          /\ u.set.recalc = w.set.recalc /\ u.set.preset = w.set.preset
      BY <1>4, <2>3, <3>2 DEF SettingsType
    <3> QED
      BY <1>3, <2>3, <3>2, <3>3 DEF InnerSet
  <2> QED
    BY <2>1, <2>2, <2>3
<1> QED
  BY <1>1, <1>2, <1>5

LEMMA ResetPut ==
  ASSUME NEW w \in World, Poised(w)
  PROVE  \E a, b, c, d, e, s \in World :
            /\ Leads(<<Call("start")>>, w, a) /\ Leads(<<Call("start")>>, a, b)
            /\ Leads(<<Set("exposure", Defaults.exposure)>>, b, c)
            /\ Leads(<<Set("warmth", Defaults.warmth)>>, c, d)
            /\ Leads(<<Set("temp", Defaults.temp)>>, d, e)
            /\ Leads(<<Set("switch", Defaults.switch)>>, e, s)
            /\ ResetAs(s, w)
<1>1. PICK a : a = Started(w)
  OBVIOUS
<1>2. /\ a \in World /\ Covered(a) /\ a.commit = 1 /\ Placed(a, w)
      /\ a.set = w.set /\ a.choice = w.choice /\ a.commit < 2 /\ w.commit < 2
  <2>1. /\ a \in World /\ Covered(a) /\ a.commit = 1 /\ Placed(a, w)
        /\ a.set = w.set /\ a.choice = w.choice
    BY <1>1, CoveredStart
  <2> QED
    BY <2>1 DEF Poised, InStep
<1>3. PICK b : b = Started(a)
  OBVIOUS
<1>4. /\ b \in World /\ b.commit = 2 /\ b.todo = a.todo /\ Placed(b, a)
      /\ b.set = a.set /\ b.choice = a.choice /\ b.switch = a.switch
      /\ b.unseen = a.unseen /\ b.exposure = a.exposure /\ b.wb = a.wb
  BY <1>2, <1>3, StartedIs
<1>5. Live(b) /\ (SwitchShown(a) => SwitchShown(b)) /\ Due(b) = Due(a)
  BY <1>2, <1>4 DEF Covered, Live, SwitchShown, Due, Placed
<1>6. Covered(b) /\ Placed(b, w)
  BY <1>2, <1>4, <1>5, PlacedTransitive DEF Covered
<1>7. /\ Typed("exposure", Defaults.exposure) /\ Typed("warmth", Defaults.warmth)
      /\ Typed("temp", Defaults.temp) /\ Typed("switch", Defaults.switch)
      /\ Defaults.temp = DefaultTemp
  BY TempAssumption DEF Typed, Defaults, Exposures, Warmths
<1>8. PICK x, y, z, o : /\ x = Defaults.exposure /\ y = Defaults.warmth
                        /\ z = Defaults.temp /\ o = Defaults.switch
  OBVIOUS
<1>9. PICK c : c = AfterSet(b, "exposure", x)
  OBVIOUS
<1>10. AbleSet(b, "exposure", x) /\ InnerSet(c, b, "exposure", x)
  BY <1>4, <1>6, <1>7, <1>8, <1>9, NestedSet
<1>11. c \in World /\ Covered(c) /\ c.commit = 2
  BY <1>10 DEF InnerSet
<1>12. PICK d : d = AfterSet(c, "warmth", y)
  OBVIOUS
<1>13. AbleSet(c, "warmth", y) /\ InnerSet(d, c, "warmth", y)
  BY <1>7, <1>8, <1>11, <1>12, NestedSet
<1>14. d \in World /\ Covered(d) /\ d.commit = 2
  BY <1>13 DEF InnerSet
<1>15. PICK e : e = AfterSet(d, "temp", z)
  OBVIOUS
<1>16. AbleSet(d, "temp", z) /\ InnerSet(e, d, "temp", z)
  BY <1>7, <1>8, <1>14, <1>15, NestedSet
<1>17. e \in World /\ Covered(e) /\ e.commit = 2
  BY <1>16 DEF InnerSet
<1>18. PICK s : s = AfterSet(e, "switch", o)
  OBVIOUS
<1>19. AbleSet(e, "switch", o) /\ InnerSet(s, e, "switch", o)
  BY <1>7, <1>8, <1>17, <1>18, NestedSet
<1>20. /\ Leads(<<Call("start")>>, w, a) /\ Leads(<<Call("start")>>, a, b)
       /\ Leads(<<Set("exposure", x)>>, b, c) /\ Leads(<<Set("warmth", y)>>, c, d)
       /\ Leads(<<Set("temp", z)>>, d, e) /\ Leads(<<Set("switch", o)>>, e, s)
  <2>1. Leads(<<Call("start")>>, w, a) /\ Leads(<<Call("start")>>, a, b)
    BY <1>1, <1>2, <1>3, LeadStart
  <2>2. Leads(<<Set("exposure", x)>>, b, c) /\ Leads(<<Set("warmth", y)>>, c, d)
    BY <1>4, <1>7, <1>8, <1>9, <1>10, <1>11, <1>12, <1>13, LeadSet
  <2>3. Leads(<<Set("temp", z)>>, d, e) /\ Leads(<<Set("switch", o)>>, e, s)
    BY <1>7, <1>8, <1>14, <1>15, <1>16, <1>17, <1>18, <1>19, LeadSet
  <2> QED
    BY <2>1, <2>2, <2>3
<1>21. s \in World /\ Covered(s) /\ s.commit = 2 /\ s.choice = w.choice
  BY <1>2, <1>4, <1>10, <1>13, <1>16, <1>19 DEF InnerSet
<1>22. Placed(s, w)
  BY <1>6, <1>10, <1>13, <1>16, <1>19 DEF InnerSet, Placed
<1>23. /\ s.set.exposure = x /\ s.set.warmth = y /\ s.set.temp = z
       /\ s.set.recalc = w.set.recalc
  BY <1>2, <1>4, <1>10, <1>13, <1>16, <1>19 DEF InnerSet
<1>24. \/ s.set.preset = None
       \/ s.set.preset = w.set.preset /\ w.set.temp = z
  BY <1>2, <1>4, <1>10, <1>13, <1>16, <1>19 DEF InnerSet
<1>25. ResetAs(s, w)
  BY <1>7, <1>8, <1>21, <1>22, <1>23, <1>24 DEF ResetAs
<1> QED
  BY <1>2, <1>4, <1>8, <1>11, <1>14, <1>17, <1>20, <1>21, <1>25

LEMMA LeadsSix ==
  ASSUME NEW a, NEW b, NEW c, NEW d, NEW e, NEW f, NEW u, NEW v, NEW w,
         Leads(<<a>>, u, v), Leads(<<b, c, d, e, f>>, v, w),
         b \in Calls, c \in Calls, d \in Calls, e \in Calls, f \in Calls
  PROVE  Leads(<<a, b, c, d, e, f>>, u, w)
<1>1. a \in Calls
  BY OneCall
<1> DEFINE s == <<a, b, c, d, e, f>>
<1>2. s \in Seq(Calls) /\ s # <<>> /\ Head(s) = a /\ Tail(s) = <<b, c, d, e, f>>
  BY <1>1
<1> HIDE DEF s
<1>3. Leads(<<Head(s)>>, u, v) /\ Leads(Tail(s), v, w)
  BY <1>2
<1>4. Leads(s, u, w)
  BY <1>2, <1>3, LeadsFirst
<1> QED
  BY <1>4 DEF s

LEMMA LeadsSeven ==
  ASSUME NEW a, NEW b, NEW c, NEW d, NEW e, NEW f, NEW g, NEW u, NEW v, NEW w,
         Leads(<<a>>, u, v), Leads(<<b, c, d, e, f, g>>, v, w),
         b \in Calls, c \in Calls, d \in Calls, e \in Calls, f \in Calls, g \in Calls
  PROVE  Leads(<<a, b, c, d, e, f, g>>, u, w)
<1>1. a \in Calls
  BY OneCall
<1> DEFINE s == <<a, b, c, d, e, f, g>>
<1>2. s \in Seq(Calls) /\ s # <<>> /\ Head(s) = a /\ Tail(s) = <<b, c, d, e, f, g>>
  BY <1>1
<1> HIDE DEF s
<1>3. Leads(<<Head(s)>>, u, v) /\ Leads(Tail(s), v, w)
  BY <1>2
<1>4. Leads(s, u, w)
  BY <1>2, <1>3, LeadsFirst
<1> QED
  BY <1>4 DEF s

LEMMA ResetEnds ==
  ASSUME NEW w \in World, NEW b, NEW g, NEW l, NEW f, SettledOn(w, b, g, l, f),
         NEW h, h.exposure = Defaults.exposure,
         h.temp = CameraTemp(w.kind, w.profile, DefaultTemp),
         NEW k, l => k, w.set.recalc => k
  PROVE  \E e \in World :
            /\ Leads(<<Call("start")>> \o Reset \o <<Call("camera"), Call("stop")>>, w, e)
            /\ SettledOn(e, b, h, k, None)
<1>0. None # "camera" /\ None # "auto"
  BY NonePreset
<1>1. Poised(w)
  BY SettledPoised
<1>2. PICK a, x, c, d, y, s \in World :
         /\ Leads(<<Call("start")>>, w, a) /\ Leads(<<Call("start")>>, a, x)
         /\ Leads(<<Set("exposure", Defaults.exposure)>>, x, c)
         /\ Leads(<<Set("warmth", Defaults.warmth)>>, c, d)
         /\ Leads(<<Set("temp", Defaults.temp)>>, d, y)
         /\ Leads(<<Set("switch", Defaults.switch)>>, y, s)
         /\ ResetAs(s, w)
  BY <1>1, ResetPut
<1>3. PICK bits, t, n, q, r :
         /\ bits = {"curve"} /\ t = AfterAnnounce(s, bits) /\ n = AfterStop(t)
         /\ q = AfterCamera(n) /\ r = AfterStop(q)
  OBVIOUS
<1>4. /\ Covered(s) /\ s.commit = 2 /\ s.commit > 0 /\ Placed(s, w)
      /\ bits \in SUBSET AllBits
  BY <1>2, <1>3 DEF ResetAs, AllBits
<1>5. /\ t \in World /\ Framed(t, s) /\ t.set = s.set /\ t.choice = s.choice
      /\ t.todo = s.todo \union bits /\ t.switch = s.switch /\ t.unseen = s.unseen
      /\ t.exposure = s.exposure /\ t.wb = s.wb
  BY <1>3, <1>4, AnnounceInCommit
<1>6. Covered(t) /\ t.commit = 2 /\ Placed(t, w)
  <2>1. Live(t) /\ (SwitchShown(s) => SwitchShown(t)) /\ Due(t) = Due(s)
    BY <1>4, <1>5 DEF Covered, Live, SwitchShown, Due, Framed, Placed
  <2>2. Covered(t)
    BY <1>4, <1>5, <2>1 DEF Covered
  <2> QED
    BY <1>4, <1>5, <2>2 DEF Framed, Placed
<1>7. AbleStop(t) /\ Unnested(n, t)
  BY <1>3, <1>5, <1>6, NestedStop
<1>8. /\ n \in World /\ Covered(n) /\ n.commit = 1 /\ Placed(n, t)
      /\ n.set = s.set /\ n.choice = s.choice /\ n.todo = t.todo
  BY <1>5, <1>7 DEF Unnested
<1>9. AbleCamera(n) /\ NestedAs(q, n)
  BY <1>3, <1>8, NestedCamera
<1>10. q \in World /\ Covered(q) /\ q.commit = 1 /\ Placed(q, n) /\ q.todo # {}
  BY <1>3, <1>5, <1>8, <1>9 DEF NestedAs
<1>11. AbleStop(q) /\ Landed(r, q)
  BY <1>3, <1>10, LiveStop
<1>12. /\ r \in World /\ Placed(r, q) /\ InStep(r) /\ r.set = Done(q.set, Due(q))
       /\ r.choice = IF q.set.recalc THEN q.profile ELSE q.choice
  BY <1>10, <1>11 DEF Landed
<1>13. Placed(r, w) /\ Placed(n, w) /\ Placed(q, w)
  BY <1>6, <1>8, <1>10, <1>12, PlacedTransitive
<1>14. n.kind = w.kind /\ n.profile = w.profile /\ q.profile = w.profile
  BY <1>13 DEF Placed
<1>15. PICK m : m = Due(q)
  OBVIOUS
<1>16. m \in Temps /\ q.set \in SettingsType /\ m = Asked(w.profile, q.set.warmth)
  BY <1>10, <1>14, <1>15, DueType, WorldHas DEF Due
<1>17. /\ ~r.set.recalc /\ r.set.exposure = q.set.exposure
       /\ r.set.warmth = q.set.warmth
       /\ r.set.temp = (IF q.set.recalc THEN m ELSE q.set.temp)
       /\ r.set.preset = (IF q.set.recalc /\ m # q.set.temp THEN None ELSE q.set.preset)
  <2>1. /\ ~Done(q.set, m).recalc /\ Done(q.set, m).exposure = q.set.exposure
        /\ Done(q.set, m).warmth = q.set.warmth
        /\ Done(q.set, m).temp = (IF q.set.recalc THEN m ELSE q.set.temp)
        /\ Done(q.set, m).preset
             = (IF q.set.recalc /\ m # q.set.temp THEN None ELSE q.set.preset)
    BY <1>16, DoneIs
  <2> QED
    BY <1>12, <1>15, <2>1
<1>18. /\ s.set.exposure = Defaults.exposure /\ s.set.warmth = Defaults.warmth
       /\ s.set.temp = DefaultTemp /\ s.set.recalc = w.set.recalc
       /\ s.choice = w.choice
       /\ \/ s.set.preset = None
          \/ s.set.preset = w.set.preset /\ w.set.temp = DefaultTemp
  BY <1>2 DEF ResetAs
<1>19. r.set.exposure = h.exposure
  BY <1>8, <1>9, <1>17, <1>18 DEF NestedAs
<1>20. /\ k \/ r.set.temp = h.temp
       /\ w.kind = "jpeg" => Matched(r.set, w.profile) /\ Waiting(r.set, w.profile)
       /\ w.kind # "jpeg" => ~r.set.recalc /\ PresetKept(r)
  <2>1. CASE w.kind = "raw"
    <3>1. q.set.warmth = "camera" /\ q.set.preset = "camera" /\ q.set.recalc
      BY <1>9, <1>14, <2>1 DEF NestedAs
    <3>2. r.set.temp = Asked(w.profile, "camera")
      BY <1>16, <1>17, <3>1
    <3>3. r.set.temp = h.temp
      BY <2>1, <3>2 DEF CameraTemp
    <3>4. r.choice = w.profile /\ (r.set.preset = None \/ r.set.preset = "camera")
      BY <1>12, <1>14, <1>17, <3>1
    <3>5. PresetKept(r)
      BY <1>0, <3>2, <3>4 DEF PresetKept, Asked
    <3> QED
      BY <1>17, <2>1, <3>3, <3>5
  <2>2. CASE w.kind # "raw" /\ w.profile = None
    <3>1. w.kind = "jpeg"
      BY <2>2 DEF SettledOn, RawSettled
    <3>2. q.set.temp = DefaultTemp /\ ~q.set.recalc
      BY <1>9, <1>14, <2>2 DEF NestedAs
    <3>3. r.set.temp = h.temp
      BY <1>17, <2>2, <3>2 DEF CameraTemp
    <3>4. Matched(r.set, w.profile) /\ Waiting(r.set, w.profile)
      BY <1>17, <2>2 DEF Matched, Waiting
    <3> QED
      BY <3>1, <3>3, <3>4
  <2>3. CASE w.kind # "raw" /\ w.profile # None
    <3>1. q = n
      BY <1>9, <1>14, <2>3 DEF NestedAs
    <3>2. q.set = s.set /\ q.choice = w.choice
      BY <1>8, <1>18, <3>1
    <3>3. h.temp = DefaultTemp
      BY <2>3 DEF CameraTemp
    <3>4. k \/ r.set.temp = h.temp
      BY <1>17, <1>18, <3>2, <3>3
    <3>5. w.kind = "jpeg" => Matched(r.set, w.profile) /\ Waiting(r.set, w.profile)
      BY <1>17, <1>18, <3>2 DEF Matched, Waiting, Defaults
    <3>6. ASSUME w.kind # "jpeg"
          PROVE  PresetKept(r)
      <4>1. ~w.set.recalc /\ PresetKept(w)
        BY <3>6 DEF SettledOn, RawSettled
      <4>2. /\ r.choice = w.choice /\ r.kind = w.kind /\ r.set.temp = DefaultTemp
            /\ r.set.preset = None \/ (r.set.preset = w.set.preset /\ w.set.temp = DefaultTemp)
        BY <1>12, <1>13, <1>17, <1>18, <3>2, <4>1 DEF Placed
      <4> QED
        BY <1>0, <4>1, <4>2 DEF PresetKept
    <3> QED
      BY <1>17, <3>4, <3>5, <3>6
  <2> QED
    BY <2>1, <2>2, <2>3
<1>21. SettledOn(r, b, h, k, None)
  BY <1>12, <1>13, <1>19, <1>20, Ends
<1>22. /\ Leads(<<Tell("announce", bits)>>, s, t) /\ Leads(<<Call("stop")>>, t, n)
       /\ Leads(<<Call("camera")>>, n, q) /\ Leads(<<Call("stop")>>, q, r)
  <2>1. s.commit # 0
    BY <1>4
  <2>2. AbleAnnounce(s, bits)
    BY <2>1 DEF AbleAnnounce
  <2> QED
    BY <1>3, <1>4, <1>5, <1>7, <1>8, <1>9, <1>10, <1>11, <2>2,
       LeadAnnounce, LeadStop, LeadCamera
<1>23. Leads(Reset, a, n)
  <2>1. PICK i1, i2, i3, i4, i5, i6, i7 :
           /\ i1 = Call("start") /\ i2 = Set("exposure", Defaults.exposure)
           /\ i3 = Set("warmth", Defaults.warmth) /\ i4 = Set("temp", Defaults.temp)
           /\ i5 = Set("switch", Defaults.switch) /\ i6 = Tell("announce", bits)
           /\ i7 = Call("stop")
    OBVIOUS
  <2>2. /\ Leads(<<i1>>, a, x) /\ Leads(<<i2>>, x, c) /\ Leads(<<i3>>, c, d)
        /\ Leads(<<i4>>, d, y) /\ Leads(<<i5>>, y, s) /\ Leads(<<i6>>, s, t)
        /\ Leads(<<i7>>, t, n)
    BY <1>2, <1>22, <2>1
  <2>3. /\ i2 \in Calls /\ i3 \in Calls /\ i4 \in Calls /\ i5 \in Calls
        /\ i6 \in Calls /\ i7 \in Calls
    BY <2>2, OneCall
  <2>4. Leads(<<i3, i4, i5, i6, i7>>, c, n)
    BY <2>2, FiveInTurn
  <2>5. Leads(<<i2, i3, i4, i5, i6, i7>>, x, n)
    BY <2>2, <2>3, <2>4, LeadsSix
  <2>6. Leads(<<i1, i2, i3, i4, i5, i6, i7>>, a, n)
    BY <2>2, <2>3, <2>5, LeadsSeven
  <2> QED
    BY <1>3, <2>1, <2>6 DEF Reset
<1>24. Leads(<<Call("camera"), Call("stop")>>, n, r)
  BY <1>22, LeadsTwo
<1>25. Leads(<<Call("start")>> \o Reset, w, n)
  BY <1>2, <1>23, LeadsOn
<1>26. Leads((<<Call("start")>> \o Reset) \o <<Call("camera"), Call("stop")>>, w, r)
  BY <1>24, <1>25, LeadsOn
<1> QED
  BY <1>12, <1>21, <1>26

(* Settings copied between operations. *)

\* r is w with the settings new: those that nobody was told of differ in the
\* switch and in recalc alone.
CopiedAs(r, w, new) ==
    /\ r \in World /\ Placed(r, w) /\ InStep(r)
    /\ \/ /\ r.set = new /\ r.choice = w.choice
          /\ new.warmth = w.set.warmth /\ new.temp = w.set.temp
          /\ new.preset = w.set.preset
       \/ /\ r.set = Done(new, Asked(w.profile, new.warmth))
          /\ r.choice = IF new.recalc THEN w.profile ELSE w.choice

LEMMA LiveCopy ==
  ASSUME NEW w \in World, InStep(w), NEW from \in SettingsType,
         NEW bits \in SUBSET AllBits
  PROVE  /\ AbleCopy(w, from, bits)
         /\ CopiedAs(AfterCopy(w, from, bits), w, CopiedOver(w.set, from, bits))
<1>1. PICK new, o, bs, r :
         /\ new = CopiedOver(w.set, from, bits) /\ o = Overwritten(w, new)
         /\ bs = BitsOf(w.set, new) /\ r = AfterCopy(w, from, bits)
  OBVIOUS
<1>2. /\ Live(w) /\ SwitchShown(w) /\ w.commit = 0 /\ w.exposure = Holders
      /\ w.wb = Holders /\ w.follows
  BY InStepLive DEF Live
<1>3. new \in SettingsType /\ bs \in SUBSET AllBits
  BY <1>1, CopiedType, CopyWorld, WorldHas
<1>4. /\ o \in World /\ Framed(o, w) /\ o.set = new /\ o.todo = w.todo
      /\ o.choice = w.choice /\ o.switch = w.switch
      /\ o.exposure = (IF new.exposure # w.set.exposure THEN {} ELSE w.exposure)
      /\ o.wb = (IF WbDiffers(w.set, new) THEN {} ELSE w.wb)
      /\ o.unseen = (w.unseen \/ (w.follows /\ new.switch # w.set.switch))
  BY <1>1, <1>3, OverwrittenIs
<1>5. Live(o) /\ o.commit = 0 /\ Placed(o, w) /\ o.profile = w.profile
  BY <1>2, <1>4 DEF Live, Framed, Placed
<1>6. SwitchShown(o)
  BY <1>2, <1>4 DEF SwitchShown
<1>7. /\ o.exposure = Holders \/ "exposure" \in bs
      /\ o.wb = Holders \/ "wb" \in bs
  BY <1>1, <1>2, <1>4 DEF BitsOf
<1>8. CASE bs = {}
  <2>1. AbleCopy(w, from, bits) /\ r = o
    BY <1>1, <1>8 DEF AbleCopy, AfterCopy
  <2>2. InStep(r)
    BY <1>5, <1>6, <1>7, <1>8, <2>1 DEF InStep, Live, SwitchShown
  <2>3. ~WbDiffers(w.set, new)
    BY <1>1, <1>8 DEF BitsOf
  <2>4. new.warmth = w.set.warmth /\ new.temp = w.set.temp /\ new.preset = w.set.preset
    BY <2>3 DEF WbDiffers
  <2> QED
    BY <1>1, <1>4, <1>5, <2>1, <2>2, <2>4 DEF CopiedAs
<1>9. CASE bs # {}
  <2>1. AbleEmit(o, bs) /\ Heard(AfterEmit(o, bs), o, bs)
    BY <1>3, <1>4, <1>5, LiveEmit
  <2>2. AbleCopy(w, from, bits) /\ r = AfterEmit(o, bs)
    BY <1>1, <1>9, <2>1 DEF AbleCopy, AfterCopy
  <2>3. /\ r \in World /\ Framed(r, o) /\ r.set = Done(o.set, Due(o))
        /\ r.choice = IF o.set.recalc THEN o.profile ELSE o.choice
        /\ r.exposure = Holders /\ r.wb = Holders /\ SwitchShown(r)
    BY <1>6, <1>7, <2>1, <2>2 DEF Heard
  <2>4. Placed(r, w) /\ r.commit = 0 /\ Live(r)
    BY <1>5, <2>3, PlacedTransitive DEF Framed, Placed, Live
  <2>5. InStep(r)
    BY <2>3, <2>4 DEF InStep, Live, SwitchShown
  <2>6. Due(o) = Asked(w.profile, new.warmth)
    BY <1>4, <1>5 DEF Due
  <2> QED
    BY <1>1, <1>4, <1>5, <2>2, <2>3, <2>4, <2>5, <2>6 DEF CopiedAs
<1> QED
  BY <1>8, <1>9

LEMMA CameraIfSettles ==
  ASSUME NEW w, NEW b, Based(w, b),
         NEW v \in World, InStep(v), Placed(v, w), NEW h, NEW k, NEW t,
         v.set.exposure = h.exposure,
         v.set.preset = "camera" =>
            /\ h.temp = CameraTemp(w.kind, w.profile, t)
            /\ w.kind # "raw" /\ w.profile # None =>
                   Sound(w, v) /\ (k \/ v.set.temp = t),
         v.set.preset # "camera" => Sound(w, v) /\ (k \/ v.set.temp = h.temp)
  PROVE  /\ AbleCameraIf(v) /\ CameraIf(v) \in World
         /\ SettledOn(CameraIf(v), b, h, k, None)
<1>1. CASE v.set.preset = "camera"
  <2>1. /\ AbleCamera(v) /\ AfterCamera(v) \in World
        /\ SettledOn(AfterCamera(v), b, h, k, None)
    BY <1>1, CameraSettles
  <2> QED
    BY <1>1, <2>1 DEF AbleCameraIf, CameraIf
<1>2. CASE v.set.preset # "camera"
  <2>1. /\ w.kind = "jpeg" => Matched(v.set, w.profile) /\ Waiting(v.set, w.profile)
        /\ w.kind # "jpeg" => ~v.set.recalc /\ PresetKept(v)
    BY <1>2 DEF Sound
  <2>2. k \/ v.set.temp = h.temp
    BY <1>2
  <2>3. SettledOn(v, b, h, k, None)
    BY <2>1, <2>2, EndsOn
  <2> QED
    BY <1>2, <2>3 DEF AbleCameraIf, CameraIf
<1> QED
  BY <1>1, <1>2

\* w with nothing known of the profile of the last conversion.
Unconverted(w) == Known(w, w.set, w.todo, None, w.exposure, w.wb)

LEMMA UnconvertedIs ==
  ASSUME NEW w \in World
  PROVE  /\ Unconverted(w) \in World /\ Framed(Unconverted(w), w)
         /\ Unconverted(w).set = w.set /\ Unconverted(w).todo = w.todo
         /\ Unconverted(w).choice = None
         /\ Unconverted(w).switch = w.switch /\ Unconverted(w).unseen = w.unseen
         /\ Unconverted(w).exposure = w.exposure /\ Unconverted(w).wb = w.wb
<1>1. w.set \in SettingsType /\ w.todo \in SUBSET AllBits /\ None \in Choices
  BY WorldHas DEF Choices
<1>2. w.exposure \in SUBSET Holders /\ w.wb \in SUBSET Holders
  BY WorldHas
<1> QED
  BY <1>1, <1>2, KnownIs DEF Unconverted

LEMMA CopiedAll ==
  ASSUME NEW s \in SettingsType, NEW from \in SettingsType
  PROVE  CopiedOver(s, from, AllBits) = from
BY DEF CopiedOver, AllBits, SettingsType

LEMMA RevertEnds ==
  ASSUME NEW w \in World, NEW b, NEW g, NEW l, NEW f, SettledOn(w, b, g, l, f),
         NEW t, t = IF w.opened.recalc THEN Asked(w.profile, w.opened.warmth)
                                       ELSE w.opened.temp,
         NEW h, h.exposure = w.opened.exposure,
         h.temp = IF w.opened.preset = "camera" THEN CameraTemp(w.kind, w.profile, t) ELSE t,
         NEW k
  PROVE  \E e \in World :
            /\ Leads(<<CopyOf(w.opened, AllBits), Call("camera_if_preset")>>,
                     Unconverted(w), e)
            /\ SettledOn(e, b, h, k, None)
<1>0. None # "camera" /\ None # "auto"
  BY NonePreset
<1>1. PICK u, o, r, e : /\ u = Unconverted(w) /\ o = w.opened
                        /\ r = AfterCopy(u, o, AllBits) /\ e = CameraIf(r)
  OBVIOUS
<1>2. /\ u \in World /\ Placed(u, w) /\ InStep(u) /\ u.set = w.set /\ u.choice = None
      /\ u.profile = w.profile
  BY <1>1, UnconvertedIs DEF Framed, Placed, SettledOn, InStep
<1>3. o \in SettingsType /\ w.set \in SettingsType
  BY <1>1, WorldHas
<1>4. AbleCopy(u, o, AllBits) /\ CopiedAs(r, u, o)
  BY <1>1, <1>2, <1>3, LiveCopy, CopiedAll
<1>5. /\ r \in World /\ InStep(r) /\ Placed(r, w)
      /\ \/ /\ r.set = o /\ r.choice = None
            /\ o.warmth = w.set.warmth /\ o.temp = w.set.temp
            /\ o.preset = w.set.preset
         \/ /\ r.set = Done(o, Asked(w.profile, o.warmth))
            /\ r.choice = None \/ o.recalc
  BY <1>2, <1>4, PlacedTransitive DEF CopiedAs
<1>6. PICK d : d = Asked(w.profile, o.warmth)
  OBVIOUS
<1>7. /\ ~Done(o, d).recalc /\ Done(o, d).exposure = o.exposure
      /\ Done(o, d).warmth = o.warmth
      /\ Done(o, d).temp = (IF o.recalc THEN d ELSE o.temp)
      /\ Done(o, d).preset = (IF o.recalc /\ d # o.temp THEN None ELSE o.preset)
  <2>1. d \in Temps
    BY <1>3, <1>6, AskedType, WorldHas, SettingsHas
  <2> QED
    BY <1>3, <2>1, DoneIs
<1>8. r.set.exposure = h.exposure
  BY <1>1, <1>5, <1>6, <1>7
<1> DEFINE Fit == r.set.preset = "camera" =>
                     /\ h.temp = CameraTemp(w.kind, w.profile, t)
                     /\ w.kind # "raw" /\ w.profile # None =>
                            Sound(w, r) /\ r.set.temp = t
           Left == r.set.preset # "camera" => Sound(w, r) /\ r.set.temp = h.temp
<1>9. ASSUME w.kind = "jpeg"
      PROVE  Fit /\ Left
  <2>1. o.recalc /\ o.warmth = "neutral" /\ o.preset = "camera"
    BY <1>1, <1>9 DEF SettledOn, EmbeddedSettled
  <2>2. t = d /\ h.temp = CameraTemp(w.kind, w.profile, t)
    BY <1>1, <1>6, <2>1
  <2>3. w.profile # None => d = TempOf[w.profile]["neutral"]
    BY <1>6, <2>1 DEF Asked
  <2>4. Matched(w.set, w.profile)
    BY <1>9 DEF SettledOn, EmbeddedSettled
  <2>5. CASE /\ r.set = o /\ o.warmth = w.set.warmth /\ o.temp = w.set.temp
             /\ o.preset = w.set.preset
    <3>1. w.profile # None => r.set.temp = t
      BY <2>1, <2>2, <2>3, <2>4, <2>5 DEF Matched
    <3>2. w.profile # None => Sound(w, r)
      BY <1>9, <2>1, <2>2, <2>3, <2>5, <3>1 DEF Sound, Matched, Waiting
    <3> QED
      BY <2>1, <2>2, <2>5, <3>1, <3>2
  <2>6. CASE r.set = Done(o, d)
    <3>1. ~r.set.recalc /\ r.set.temp = t /\ r.set.warmth = "neutral"
      BY <1>7, <2>1, <2>2, <2>6
    <3>2. Sound(w, r)
      BY <1>9, <2>2, <2>3, <3>1 DEF Sound, Matched, Waiting
    <3>3. r.set.temp = h.temp
      BY <1>6, <1>9, <2>2, <3>1 DEF CameraTemp, Asked
    <3> QED
      BY <2>2, <3>1, <3>2, <3>3
  <2> QED
    BY <1>5, <1>6, <2>5, <2>6
<1>10. ASSUME w.kind # "jpeg" /\ ~o.recalc
       PROVE  Fit /\ Left
  <2>1. t = o.temp /\ r.set = o /\ r.choice = None
    BY <1>1, <1>5, <1>10 DEF Done
  <2>2. Sound(w, r)
    BY <1>10, <2>1 DEF Sound, PresetKept
  <2> QED
    BY <1>1, <2>1, <2>2
<1>11. ASSUME w.kind # "jpeg" /\ o.recalc
       PROVE  Fit /\ Left
  <2>1. w.kind = "raw" /\ o.warmth = "camera" /\ o.preset = "camera"
    BY <1>1, <1>11 DEF SettledOn, RawSettled
  <2>2. t = d /\ h.temp = CameraTemp(w.kind, w.profile, t)
    BY <1>1, <1>6, <1>11, <2>1
  <2>3. h.temp = d
    BY <1>6, <2>1, <2>2 DEF CameraTemp
  <2>4. CASE r.set = o
    BY <2>1, <2>2, <2>4
  <2>5. CASE r.set = Done(o, d)
    <3>1. ~r.set.recalc /\ r.set.temp = d
      BY <1>7, <1>11, <2>5
    <3>2. r.set.preset = "camera" \/ r.set.preset = None
      BY <1>7, <2>1, <2>5
    <3>3. r.set.preset # "camera" => Sound(w, r)
      BY <1>0, <1>11, <3>1, <3>2 DEF Sound, PresetKept
    <3> QED
      BY <2>1, <2>2, <2>3, <3>1, <3>3
  <2> QED
    BY <1>5, <1>6, <2>4, <2>5
<1>12. Fit /\ Left
  BY <1>9, <1>10, <1>11
<1>13. AbleCameraIf(r) /\ e \in World /\ SettledOn(e, b, h, k, None)
  BY <1>1, <1>5, <1>8, <1>12, SettledBased, CameraIfSettles
<1>14. /\ Leads(<<CopyOf(o, AllBits)>>, u, r)
       /\ Leads(<<Call("camera_if_preset")>>, r, e)
  BY <1>1, <1>2, <1>3, <1>4, <1>5, <1>13, LeadCopy, LeadCameraIf
<1>15. Leads(<<CopyOf(o, AllBits), Call("camera_if_preset")>>, u, e)
  BY <1>14, LeadsTwo
<1> QED
  BY <1>1, <1>13, <1>15

(* A profile chosen. *)

Chosen(w, p) == [w EXCEPT !.profile = p]

LEMMA ChosenIs ==
  ASSUME NEW w \in World, NEW p \in Choices
  PROVE  /\ Chosen(w, p) \in World
         /\ Chosen(w, p).profile = p
         /\ Chosen(w, p).kind = w.kind /\ Chosen(w, p).set = w.set
         /\ Chosen(w, p).todo = w.todo /\ Chosen(w, p).commit = w.commit
         /\ Chosen(w, p).exposure = w.exposure /\ Chosen(w, p).wb = w.wb
         /\ Chosen(w, p).link = w.link /\ Chosen(w, p).follows = w.follows
         /\ Chosen(w, p).mute = w.mute /\ Chosen(w, p).prof = w.prof
         /\ Chosen(w, p).choice = w.choice /\ Chosen(w, p).switch = w.switch
         /\ Chosen(w, p).unseen = w.unseen /\ Chosen(w, p).opened = w.opened
BY DEF Chosen, World

\* r is w once c has the profile and has read the settings with it.
FedAs(r, w, c) ==
    /\ r \in World /\ r.kind = w.kind /\ r.link = w.link /\ r.commit = w.commit
    /\ r.follows = w.follows /\ r.mute = w.mute
    /\ r.profile = w.profile /\ r.opened = w.opened
    /\ r.prof = [w.prof EXCEPT ![c] = w.profile]
    /\ r.exposure = Holders /\ r.wb = Holders
    /\ r.switch = w.switch /\ r.unseen = w.unseen
    /\ r.set = (IF w.set.recalc THEN [w.set EXCEPT !.recalc = FALSE] ELSE w.set)
    /\ r.choice = IF w.set.recalc THEN w.profile ELSE w.choice

LEMMA Feeding ==
  ASSUME NEW w \in World, w.exposure = Holders, w.wb = Holders, NEW c \in Chains,
         w.set.recalc => Due(w) = w.set.temp
  PROVE  \E v, r \in World : /\ Leads(<<OnChain("profile", c)>>, w, v)
                             /\ Leads(<<Read(c, AllBits)>>, v, r)
                             /\ FedAs(r, w, c)
<1>1. PICK v, bits, r : /\ v = Profiled(w, c) /\ bits = AllBits /\ r = AfterRead(v, c, bits)
  OBVIOUS
<1>2. /\ v \in World /\ v.prof = [w.prof EXCEPT ![c] = w.profile]
      /\ v.kind = w.kind /\ v.set = w.set /\ v.todo = w.todo /\ v.commit = w.commit
      /\ v.exposure = w.exposure /\ v.wb = w.wb /\ v.link = w.link
      /\ v.follows = w.follows /\ v.mute = w.mute /\ v.profile = w.profile
      /\ v.choice = w.choice /\ v.switch = w.switch /\ v.unseen = w.unseen
      /\ v.opened = w.opened
  BY <1>1, ProfiledIs
<1>3. bits \in SUBSET AllBits /\ "wb" \in bits
  BY <1>1 DEF AllBits
<1>4. v.prof[c] = w.profile
  BY <1>2, WorldHas
<1>5. AbleRead(v, c, bits) /\ FedAs(r, w, c)
  <2>1. CASE ~w.set.recalc
    <3>1. /\ AbleRead(v, c, bits) /\ Still(r, v)
          /\ r.switch = v.switch /\ r.unseen = v.unseen
      BY <1>1, <1>2, <1>3, <2>1, QuietRead
    <3>2. /\ r \in World /\ Framed(r, v) /\ r.set = v.set /\ r.choice = v.choice
          /\ r.exposure = Holders /\ r.wb = Holders
      BY <1>2, <3>1, WorldHas DEF Still
    <3>3. FedAs(r, w, c)
      BY <1>2, <2>1, <3>1, <3>2 DEF FedAs, Framed, Placed
    <3> QED
      BY <3>1, <3>3
  <2>2. CASE w.set.recalc
    <3>1. Converted(v, c) = v.set.temp
      BY <1>2, <1>4, <2>2 DEF Converted, Due
    <3>2. /\ AbleRead(v, c, bits) /\ Turned(r, v)
          /\ r.switch = v.switch /\ r.unseen = v.unseen
      BY <1>1, <1>2, <1>3, <2>2, <3>1, KeptRead
    <3>3. /\ r \in World /\ Framed(r, v) /\ r.set = [v.set EXCEPT !.recalc = FALSE]
          /\ r.choice = v.profile /\ r.exposure = Holders /\ r.wb = Holders
      BY <1>2, <3>2, WorldHas DEF Turned
    <3>4. FedAs(r, w, c)
      BY <1>2, <2>2, <3>2, <3>3 DEF FedAs, Framed, Placed
    <3> QED
      BY <3>2, <3>4
  <2> QED
    BY <2>1, <2>2
<1>6. r \in World
  BY <1>5 DEF FedAs
<1>7. Leads(<<OnChain("profile", c)>>, w, v) /\ Leads(<<Read(c, bits)>>, v, r)
  BY <1>1, <1>2, <1>3, <1>5, LeadProfile, LeadRead
<1> QED
  BY <1>1, <1>2, <1>5, <1>6, <1>7

\* r is w with the profile p, which all but the loupe have.
HandedAs(r, w, p) ==
    /\ r \in World /\ InStep(r) /\ r.kind = w.kind /\ r.profile = p
    /\ r.opened = w.opened
    /\ r.set = (IF w.set.recalc THEN [w.set EXCEPT !.recalc = FALSE] ELSE w.set)
    /\ r.choice = IF w.set.recalc THEN p ELSE w.choice

LEMMA Handing ==
  ASSUME NEW w \in World, InStep(w), NEW p \in Choices,
         w.set.recalc => p = w.profile /\ Due(w) = w.set.temp
  PROVE  \E r \in World : Leads(Handed(p), Chosen(w, p), r) /\ HandedAs(r, w, p)
<1>1. PICK v : v = Chosen(w, p)
  OBVIOUS
<1>2. /\ v \in World /\ v.profile = p /\ v.kind = w.kind /\ v.set = w.set
      /\ v.commit = w.commit /\ v.exposure = w.exposure /\ v.wb = w.wb
      /\ v.link = w.link /\ v.follows = w.follows /\ v.mute = w.mute /\ v.prof = w.prof
      /\ v.choice = w.choice /\ v.switch = w.switch
      /\ v.unseen = w.unseen /\ v.opened = w.opened
  BY <1>1, ChosenIs
<1>3. /\ w.exposure = Holders /\ w.wb = Holders
      /\ "view" \in Chains /\ "navigator" \in Chains
  BY DEF InStep, Chains
<1>4. v.set.recalc => Due(v) = v.set.temp
  BY <1>2 DEF Due
<1>5. PICK c, d \in World : /\ Leads(<<OnChain("profile", "view")>>, v, c)
                            /\ Leads(<<Read("view", AllBits)>>, c, d)
                            /\ FedAs(d, v, "view")
  BY <1>2, <1>3, <1>4, Feeding
<1>6. /\ d.exposure = Holders /\ d.wb = Holders /\ d.profile = p
      /\ d.set = (IF w.set.recalc THEN [w.set EXCEPT !.recalc = FALSE] ELSE w.set)
      /\ d.choice = (IF w.set.recalc THEN p ELSE w.choice)
  BY <1>2, <1>5 DEF FedAs
<1>7. /\ ~d.set.recalc /\ d.set.switch = w.set.switch
  BY <1>6, WorldHas DEF SettingsType
<1>8. PICK x, r \in World : /\ Leads(<<OnChain("profile", "navigator")>>, d, x)
                            /\ Leads(<<Read("navigator", AllBits)>>, x, r)
                            /\ FedAs(r, d, "navigator")
  BY <1>3, <1>6, <1>7, Feeding
<1>9. r.set = d.set /\ r.choice = d.choice
  BY <1>7, <1>8 DEF FedAs
<1>10. r.prof["navigator"] = p /\ r.prof["view"] = p
  <2>1. /\ d.prof = [w.prof EXCEPT !["view"] = p]
        /\ r.prof = [d.prof EXCEPT !["navigator"] = p]
    BY <1>2, <1>5, <1>6, <1>8 DEF FedAs
  <2>2. w.prof \in [Chains -> Choices]
    BY WorldHas
  <2> QED
    BY <1>3, <2>1, <2>2
<1>11. /\ r.commit = 0 /\ r.link = Chains /\ r.kind = w.kind /\ r.profile = p
       /\ r.opened = w.opened /\ r.exposure = Holders /\ r.wb = Holders
       /\ r.switch = w.switch
  BY <1>2, <1>5, <1>6, <1>8 DEF FedAs, InStep
<1>12. ~r.mute
  BY <1>2, <1>5, <1>8 DEF FedAs, InStep
<1>13. r.follows
  BY <1>2, <1>5, <1>8 DEF FedAs, InStep
<1>14. r.unseen \/ r.switch = r.set.switch
  BY <1>2, <1>5, <1>7, <1>8, <1>9, <1>11 DEF FedAs, InStep
<1>15. InStep(r)
  BY <1>10, <1>11, <1>12, <1>13, <1>14 DEF InStep
<1>16. HandedAs(r, w, p)
  BY <1>6, <1>9, <1>11, <1>15 DEF HandedAs
<1>17. PICK i1, i2, i3, i4 :
          /\ i1 = OnChain("profile", "view") /\ i2 = Read("view", AllBits)
          /\ i3 = OnChain("profile", "navigator") /\ i4 = Read("navigator", AllBits)
  OBVIOUS
<1>18. /\ Leads(<<i1>>, v, c) /\ Leads(<<i2>>, c, d) /\ Leads(<<i3>>, d, x)
       /\ Leads(<<i4>>, x, r)
  BY <1>5, <1>8, <1>17
<1>19. i2 \in Calls /\ i3 \in Calls /\ i4 \in Calls
  BY <1>18, OneCall
<1>20. Leads(<<i2, i3, i4>>, c, r)
  BY <1>18, ThreeInTurn
<1>21. Leads(<<i1, i2, i3, i4>>, v, r)
  BY <1>18, <1>19, <1>20, LeadsFour
<1> QED
  BY <1>1, <1>16, <1>17, <1>21 DEF Handed

LEMMA ProfileEnds ==
  ASSUME NEW w \in World, NEW b, NEW g, NEW l, NEW f, SettledOn(w, b, g, l, f),
         w.kind # "jpeg", NEW p \in Profiles, NEW k, l => k
  PROVE  \E e \in World : /\ Leads(Handed(p), Chosen(w, p), e)
                          /\ SettledOn(e, b, g, k, None)
<1>1. p \in Choices /\ p # None
  BY NoneAssumption DEF Choices
<1>2. InStep(w) /\ ~w.set.recalc /\ RawSettled(w, b)
  BY DEF SettledOn, RawSettled
<1>3. PICK e \in World : Leads(Handed(p), Chosen(w, p), e) /\ HandedAs(e, w, p)
  BY <1>1, <1>2, Handing
<1>4. /\ InStep(e) /\ e.kind = w.kind /\ e.profile = p /\ e.opened = w.opened
      /\ e.set = w.set /\ e.choice = w.choice
  BY <1>2, <1>3 DEF HandedAs
<1>5. AsBefore(e, None)
  BY DEF AsBefore
<1>6. RawSettled(e, b)
  BY <1>1, <1>2, <1>4 DEF RawSettled, PresetKept
<1>7. SettledOn(e, b, g, k, None)
  BY <1>4, <1>5, <1>6 DEF SettledOn
<1> QED
  BY <1>3, <1>7

LEMMA LoupeEnds ==
  ASSUME NEW w \in World, NEW b, NEW g, NEW l, NEW f, SettledOn(w, b, g, l, f),
         NEW k, l => k
  PROVE  \E e \in World :
            /\ Leads(<<OnChain("profile", "loupe"), Read("loupe", AllBits)>>, w, e)
            /\ SettledOn(e, b, g, k, None)
<1>1. /\ Poised(w) /\ w.exposure = Holders /\ w.wb = Holders
      /\ w.set.recalc => Due(w) = w.set.temp
  BY SettledPoised, PoisedLive
<1>2. "loupe" \in Chains /\ "view" \in Chains /\ "navigator" \in Chains
  BY DEF Chains
<1>3. PICK v, e \in World : /\ Leads(<<OnChain("profile", "loupe")>>, w, v)
                            /\ Leads(<<Read("loupe", AllBits)>>, v, e)
                            /\ FedAs(e, w, "loupe")
  BY <1>1, <1>2, Feeding
<1>4. Leads(<<OnChain("profile", "loupe"), Read("loupe", AllBits)>>, w, e)
  BY <1>3, LeadsTwo
<1>5. /\ e.set.exposure = w.set.exposure /\ e.set.warmth = w.set.warmth
      /\ e.set.temp = w.set.temp /\ e.set.preset = w.set.preset
      /\ e.set.switch = w.set.switch /\ ~e.set.recalc
  BY <1>3, WorldHas DEF FedAs, SettingsType
<1>6. e.prof["navigator"] = w.prof["navigator"] /\ e.prof["view"] = w.prof["view"]
  <2>1. e.prof = [w.prof EXCEPT !["loupe"] = w.profile] /\ w.prof \in [Chains -> Choices]
    BY <1>3, WorldHas DEF FedAs
  <2> QED
    BY <1>2, <2>1
<1>7. /\ e.kind = w.kind /\ e.profile = w.profile /\ e.opened = w.opened
      /\ e.link = w.link /\ e.commit = w.commit
      /\ e.exposure = Holders /\ e.wb = Holders /\ e.switch = w.switch
  BY <1>3 DEF FedAs
<1>8. ~e.mute /\ e.follows
  BY <1>3 DEF FedAs, SettledOn, InStep
<1>9. e.unseen \/ e.switch = e.set.switch
  BY <1>3, <1>5, <1>7 DEF FedAs, SettledOn, InStep
<1>10. InStep(e)
  BY <1>6, <1>7, <1>8, <1>9 DEF SettledOn, InStep
<1>11. AsBefore(e, None)
  BY DEF AsBefore
<1>12. e.kind = "jpeg" => EmbeddedSettled(e, b)
  BY <1>5, <1>7 DEF SettledOn, EmbeddedSettled, Matched, Waiting
<1>13. ASSUME e.kind # "jpeg"
       PROVE  RawSettled(e, b)
  <2>1. RawSettled(w, b) /\ ~w.set.recalc
    BY <1>7, <1>13 DEF SettledOn, RawSettled
  <2>2. e.choice = w.choice
    BY <1>3, <2>1 DEF FedAs
  <2> QED
    BY <1>5, <1>7, <2>1, <2>2 DEF RawSettled, PresetKept
<1>14. e.set.exposure = g.exposure /\ (k \/ e.set.temp = g.temp)
  BY <1>5 DEF SettledOn
<1>15. SettledOn(e, b, g, k, None)
  BY <1>10, <1>11, <1>12, <1>13, <1>14 DEF SettledOn
<1> QED
  BY <1>3, <1>4, <1>15

LEMMA BufferEnds ==
  ASSUME NEW w \in World, NEW b, NEW g, NEW l, NEW f, SettledOn(w, b, g, l, f),
         NEW c, c.settings = w.set, c.profile = w.profile, NEW k, l => k
  PROVE  SettledOn(w, c, g, k, None)
<1>1. AsBefore(w, None)
  BY DEF AsBefore
<1>2. w.kind = "jpeg" => EmbeddedSettled(w, c)
  BY DEF SettledOn, EmbeddedSettled
<1>3. w.kind # "jpeg" => RawSettled(w, c)
  BY DEF SettledOn, RawSettled
<1> QED
  BY <1>1, <1>2, <1>3 DEF SettledOn

(* What is pasted. *)

\* AskedPreset() of a file of the kind n.
PresetTemp(n, p, preset, t) ==
    CASE preset = "camera" -> CameraTemp(n, p, t)
      [] preset = "auto"   -> Asked(p, "auto")
      [] OTHER             -> t

LEMMA PresetsSettle ==
  ASSUME NEW w, NEW b, Based(w, b), NEW r \in World, InStep(r), Placed(r, w),
         NEW h, NEW k, NEW q, NEW t, r.set.exposure = h.exposure,
         h.temp = PresetTemp(w.kind, w.profile, q, t),
         r.set.preset = "camera" =>
            /\ q = "camera"
            /\ w.kind # "raw" /\ w.profile # None =>
                   Sound(w, r) /\ (k \/ r.set.temp = t),
         r.set.preset = "auto" => q = "auto",
         r.set.preset \notin {"camera", "auto"} =>
            Sound(w, r) /\ (k \/ r.set.temp = h.temp)
  PROVE  \E e \in World :
            /\ Leads(<<Call("camera_if_preset"), Call("auto_if_preset")>>, r, e)
            /\ SettledOn(e, b, h, k, None)
<1>0. None # "camera" /\ None # "auto"
  BY NonePreset
<1>1. PICK c, e : c = CameraIf(r) /\ e = AutoIf(c)
  OBVIOUS
<1>2. SUFFICES /\ AbleCameraIf(r) /\ c \in World /\ AbleAutoIf(c) /\ e \in World
               /\ SettledOn(e, b, h, k, None)
  <2>1. /\ Leads(<<Call("camera_if_preset")>>, r, c)
        /\ Leads(<<Call("auto_if_preset")>>, c, e)
    BY <1>1, <1>2, LeadCameraIf, LeadAutoIf
  <2> QED
    BY <1>2, <2>1, LeadsTwo
<1>3. CASE r.set.preset = "camera"
  <2>1. h.temp = CameraTemp(w.kind, w.profile, t)
    BY <1>3 DEF PresetTemp
  <2>2. AbleCameraIf(r) /\ c \in World /\ SettledOn(c, b, h, k, None)
    BY <1>1, <1>3, <2>1, CameraIfSettles
  <2>3. c = AfterCamera(r)
    BY <1>1, <1>3 DEF CameraIf
  <2>4. FromCameraAs(c, r)
    BY <2>3, LiveCamera
  <2>5. c.set.preset = "camera" \/ c.set.preset = None
    BY <1>3, <2>4 DEF FromCameraAs, Rebalanced, Neutralised
  <2>6. AbleAutoIf(c) /\ e = c
    BY <1>0, <1>1, <2>5 DEF AbleAutoIf, AutoIf
  <2> QED
    BY <2>2, <2>6
<1>4. CASE r.set.preset = "auto"
  <2>1. h.temp = Asked(w.profile, "auto") /\ h.exposure = r.set.exposure
    BY <1>4 DEF PresetTemp
  <2>2. AbleCameraIf(r) /\ c = r
    BY <1>1, <1>4 DEF AbleCameraIf, CameraIf
  <2>3. "auto" \in Warmths /\ "auto" \in Presets /\ "auto" # "neutral"
    BY DEF Warmths, Presets
  <2>4. e = AfterSetWb(r, "auto", "auto")
    BY <1>1, <1>4, <2>2 DEF AutoIf
  <2>5. AbleSetWb(r, "auto", "auto") /\ e \in World /\ SettledOn(e, b, h, k, None)
    BY <2>1, <2>3, <2>4, BalanceSettles
  <2>6. AbleAutoIf(c)
    BY <2>2, <2>5 DEF AbleAutoIf
  <2> QED
    BY <2>2, <2>5, <2>6
<1>5. CASE r.set.preset \notin {"camera", "auto"}
  <2>1. AbleCameraIf(r) /\ c = r /\ AbleAutoIf(c) /\ e = r
    BY <1>1, <1>5 DEF AbleCameraIf, CameraIf, AbleAutoIf, AutoIf
  <2>2. /\ w.kind = "jpeg" => Matched(r.set, w.profile) /\ Waiting(r.set, w.profile)
        /\ w.kind # "jpeg" => ~r.set.recalc /\ PresetKept(r)
        /\ k \/ r.set.temp = h.temp
    BY <1>5 DEF Sound
  <2>3. SettledOn(r, b, h, k, None)
    BY <2>2, EndsOn
  <2> QED
    BY <2>1, <2>3
<1> QED
  BY <1>3, <1>4, <1>5

\* new is s with the balance of from.
WbFrom(new, s, from, bits) ==
    /\ new \in SettingsType /\ new.warmth = from.warmth /\ new.temp = from.temp
    /\ new.preset = from.preset /\ new.recalc = from.recalc
    /\ new.exposure = IF "exposure" \in bits THEN from.exposure ELSE s.exposure

LEMMA CopiedWb ==
  ASSUME NEW s \in SettingsType, NEW from \in SettingsType, NEW bits \in SUBSET AllBits,
         "wb" \in bits
  PROVE  WbFrom(CopiedOver(s, from, bits), s, from, bits)
BY CopiedType DEF CopiedOver, WbFrom

\* The balance s pasted over v, whose profile is that of the buffer or none.
LEMMA WbSettles ==
  ASSUME NEW v \in World, NEW b, Based(v, b), InStep(v), b.settings \in SettingsType,
         NEW bits \in SUBSET AllBits, "wb" \in bits, NEW h, NEW k,
         h.exposure = IF "exposure" \in bits THEN b.settings.exposure ELSE v.set.exposure,
         h.temp = PresetTemp(v.kind, v.profile, b.settings.preset, b.settings.temp)
  PROVE  \E r, e \in World :
            /\ Leads(<<CopyOf(b.settings, bits)>>, v, r)
            /\ Leads(<<Call("camera_if_preset"), Call("auto_if_preset")>>, r, e)
            /\ SettledOn(e, b, h, k, None)
<1>0. None # "camera" /\ None # "auto"
  BY NonePreset
<1>1. PICK s, p, new, r, d :
         /\ s = b.settings /\ p = v.profile /\ new = CopiedOver(v.set, s, bits)
         /\ r = AfterCopy(v, s, bits) /\ d = Asked(p, s.warmth)
  OBVIOUS
<1>2. s \in SettingsType /\ p \in Choices /\ v.set \in SettingsType
  BY <1>1, WorldHas
<1>3. /\ new \in SettingsType /\ new.warmth = s.warmth /\ new.temp = s.temp
      /\ new.preset = s.preset /\ new.recalc = s.recalc
      /\ new.exposure = h.exposure
  <2>1. WbFrom(new, v.set, s, bits)
    BY <1>1, <1>2, CopiedWb
  <2> QED
    BY <1>1, <2>1 DEF WbFrom
<1>4. AbleCopy(v, s, bits) /\ CopiedAs(r, v, new)
  BY <1>1, <1>2, LiveCopy
<1>5. /\ r \in World /\ InStep(r) /\ Placed(r, v)
      /\ \/ r.set = new /\ (~s.recalc => r.choice = v.choice)
         \/ r.set = Done(new, d) /\ (~s.recalc => r.choice = v.choice)
  BY <1>1, <1>3, <1>4 DEF CopiedAs
<1>6. d \in Temps
  BY <1>1, <1>2, AskedType, SettingsHas
<1>7. /\ Done(new, d).exposure = h.exposure /\ Done(new, d).warmth = s.warmth
      /\ Done(new, d).temp = (IF s.recalc THEN d ELSE s.temp)
      /\ Done(new, d).preset = (IF s.recalc /\ d # s.temp THEN None ELSE s.preset)
      /\ ~Done(new, d).recalc
  BY <1>3, <1>6, DoneIs
<1>8. r.set.exposure = h.exposure
  BY <1>3, <1>5, <1>7
<1>9. p # None /\ v.kind = "jpeg" => b.profile = p
  BY <1>1 DEF Based
<1>10. ASSUME ~s.recalc
       PROVE  /\ ~r.set.recalc /\ r.set.warmth = s.warmth
              /\ r.set.temp = s.temp /\ r.set.preset = s.preset
  BY <1>3, <1>5, <1>7, <1>10
<1> DEFINE Camera == r.set.preset = "camera" =>
                        /\ s.preset = "camera"
                        /\ v.kind # "raw" /\ v.profile # None =>
                               Sound(v, r) /\ r.set.temp = s.temp
           KeptAuto == r.set.preset = "auto" => s.preset = "auto"
           Neither == r.set.preset \notin {"camera", "auto"} =>
                        Sound(v, r) /\ r.set.temp = h.temp
<1>11. ASSUME v.kind # "jpeg"
       PROVE  Camera /\ KeptAuto /\ Neither
  <2>1. ~s.recalc
    BY <1>1, <1>11 DEF Based
  <2>3. r.set.preset \notin {"camera", "auto"} => Sound(v, r)
    BY <1>10, <1>11, <2>1 DEF Sound, PresetKept
  <2>4. r.kind = v.kind
    BY <1>5 DEF Placed
  <2>5. v.kind # "raw" /\ r.set.preset = "camera" => Sound(v, r)
    BY <1>10, <1>11, <2>1, <2>4 DEF Sound, PresetKept
  <2>6. r.set.preset \notin {"camera", "auto"} => h.temp = s.temp
    BY <1>1, <1>10, <2>1 DEF PresetTemp
  <2> QED
    BY <1>10, <2>1, <2>3, <2>5, <2>6
<1>12. ASSUME v.kind = "jpeg", ~s.recalc
       PROVE  Camera /\ KeptAuto /\ Neither
  <2>1. Matched(s, b.profile)
    BY <1>1, <1>12 DEF Based
  <2>2. Matched(r.set, p)
    BY <1>9, <1>10, <1>12, <2>1 DEF Matched
  <2>3. Sound(v, r)
    BY <1>1, <1>10, <1>12, <2>2 DEF Sound, Waiting
  <2>4. r.set.preset \notin {"camera", "auto"} => h.temp = s.temp
    BY <1>1, <1>10, <1>12 DEF PresetTemp
  <2> QED
    BY <1>10, <1>12, <2>3, <2>4
<1>13. ASSUME v.kind = "jpeg", s.recalc
       PROVE  Camera /\ KeptAuto /\ Neither
  <2>1. Matched(s, b.profile) /\ Waiting(s, b.profile)
    BY <1>1, <1>13 DEF Based
  <2>2. s.warmth = "neutral" /\ s.preset = "camera" /\ b.profile # None
    BY <1>13, <2>1 DEF Waiting
  <2>3. s.temp = TempOf[b.profile]["neutral"]
    BY <2>1, <2>2 DEF Matched
  <2>4. CASE p # None
    <3>1. d = s.temp
      BY <1>1, <1>9, <1>13, <2>2, <2>3, <2>4 DEF Asked
    <3>2. r.set.warmth = "neutral" /\ r.set.temp = s.temp /\ r.set.preset = "camera"
      BY <1>3, <1>5, <1>7, <2>2, <3>1
    <3>3. Matched(r.set, p) /\ Waiting(r.set, p)
      BY <1>9, <1>13, <2>3, <2>4, <3>2 DEF Matched, Waiting
    <3>4. Sound(v, r)
      BY <1>1, <1>13, <3>3 DEF Sound
    <3> QED
      BY <2>2, <3>2, <3>4
  <2>5. CASE p = None
    <3>1. d = DefaultTemp /\ h.temp = DefaultTemp
      BY <1>1, <1>13, <2>2, <2>5 DEF Asked, PresetTemp, CameraTemp
    <3>2. r.set.preset = "camera" \/ (r.set.preset = None /\ r.set.temp = d /\ ~r.set.recalc)
      BY <1>3, <1>5, <1>7, <1>13, <2>2
    <3>3. r.set.preset = None => Sound(v, r)
      BY <1>0, <1>1, <1>13, <2>5, <3>2 DEF Sound, Matched, Waiting
    <3> QED
      BY <1>0, <1>1, <2>2, <2>5, <3>1, <3>2, <3>3
  <2> QED
    BY <2>4, <2>5
<1>14. Camera /\ KeptAuto /\ Neither
  BY <1>11, <1>12, <1>13
<1>15. h.temp = PresetTemp(v.kind, v.profile, s.preset, s.temp)
  BY <1>1
<1>16. PICK q, t : q = s.preset /\ t = s.temp
  OBVIOUS
<1>17. PICK e \in World :
          /\ Leads(<<Call("camera_if_preset"), Call("auto_if_preset")>>, r, e)
          /\ SettledOn(e, b, h, k, None)
  BY <1>5, <1>8, <1>14, <1>15, <1>16, PresetsSettle
<1>18. Leads(<<CopyOf(s, bits)>>, v, r)
  BY <1>1, <1>2, <1>4, LeadCopy
<1> QED
  BY <1>1, <1>5, <1>17, <1>18

LEMMA ChosenSame ==
  ASSUME NEW w \in World
  PROVE  Chosen(w, w.profile) = w
BY DEF Chosen, World

LEMMA CopiedExposure ==
  ASSUME NEW s \in SettingsType, NEW from \in SettingsType, NEW new,
         new = CopiedOver(s, from, {"exposure"})
  PROVE  /\ new \in SettingsType /\ new.exposure = from.exposure
         /\ new.warmth = s.warmth /\ new.temp = s.temp /\ new.preset = s.preset
         /\ new.recalc = s.recalc
BY CopiedType DEF CopiedOver

LEMMA ExposurePasteEnds ==
  ASSUME NEW w \in World, NEW b, NEW g, NEW l, NEW f, SettledOn(w, b, g, l, f),
         b.settings \in SettingsType, NEW h, h.exposure = b.settings.exposure,
         h.temp = g.temp, NEW k, l => k
  PROVE  \E e \in World : /\ Leads(<<CopyOf(b.settings, {"exposure"})>>, w, e)
                          /\ SettledOn(e, b, h, k, None)
<1>1. PICK s, bits, new, r, d :
         /\ s = b.settings /\ bits = {"exposure"} /\ new = CopiedOver(w.set, s, bits)
         /\ r = AfterCopy(w, s, bits) /\ d = Asked(w.profile, w.set.warmth)
  OBVIOUS
<1>2. /\ s \in SettingsType /\ bits \in SUBSET AllBits /\ w.set \in SettingsType
      /\ InStep(w) /\ Based(w, b) /\ Sound(w, w)
  BY <1>1, WorldHas, SettledBased, SettledSound DEF AllBits, SettledOn
<1>3. /\ new \in SettingsType /\ new.exposure = s.exposure
      /\ new.warmth = w.set.warmth /\ new.temp = w.set.temp
      /\ new.preset = w.set.preset /\ new.recalc = w.set.recalc
  <2>1. new = CopiedOver(w.set, s, {"exposure"})
    BY <1>1
  <2> QED
    BY <1>2, <2>1, CopiedExposure
<1>4. AbleCopy(w, s, bits) /\ CopiedAs(r, w, new)
  BY <1>1, <1>2, LiveCopy
<1>5. /\ r \in World /\ InStep(r) /\ Placed(r, w)
      /\ r.set = new \/ r.set = Done(new, d)
      /\ ~w.set.recalc => r.choice = w.choice
  BY <1>1, <1>3, <1>4 DEF CopiedAs
<1>6. d = Due(w) /\ d \in Temps
  BY <1>1, DueType DEF Due
<1>7. w.set.recalc => d = w.set.temp
  BY <1>6, SettledPoised, PoisedLive
<1>8. /\ Done(new, d).exposure = s.exposure /\ Done(new, d).warmth = w.set.warmth
      /\ Done(new, d).temp = w.set.temp /\ Done(new, d).preset = w.set.preset
      /\ ~Done(new, d).recalc
  <2>1. /\ Done(new, d).exposure = new.exposure /\ Done(new, d).warmth = new.warmth
        /\ Done(new, d).temp = (IF new.recalc THEN d ELSE new.temp)
        /\ Done(new, d).preset = (IF new.recalc /\ d # new.temp THEN None ELSE new.preset)
        /\ ~Done(new, d).recalc
    BY <1>3, <1>6, DoneIs
  <2> QED
    BY <1>3, <1>7, <2>1
<1>9. /\ r.set.exposure = s.exposure /\ r.set.warmth = w.set.warmth
      /\ r.set.temp = w.set.temp /\ r.set.preset = w.set.preset
      /\ r.set.recalc => w.set.recalc
  BY <1>3, <1>5, <1>8
<1>10. w.kind = "jpeg" => Matched(r.set, w.profile) /\ Waiting(r.set, w.profile)
  BY <1>2, <1>9 DEF Sound, Matched, Waiting
<1>11. w.kind # "jpeg" => ~r.set.recalc /\ PresetKept(r)
  BY <1>2, <1>5, <1>9 DEF Sound, PresetKept, Placed
<1>12. r.set.exposure = h.exposure /\ (k \/ r.set.temp = h.temp)
  BY <1>1, <1>9 DEF SettledOn
<1>13. SettledOn(r, b, h, k, None)
  BY <1>2, <1>5, <1>10, <1>11, <1>12, EndsOn
<1> QED
  BY <1>1, <1>2, <1>4, <1>5, <1>13, LeadCopy

LEMMA WbPasteEnds ==
  ASSUME NEW w \in World, NEW b, NEW g, NEW l, NEW f, SettledOn(w, b, g, l, f),
         b.settings \in SettingsType, NEW bits \in SUBSET AllBits, "wb" \in bits,
         NEW h, NEW k,
         h.exposure = IF "exposure" \in bits THEN b.settings.exposure ELSE g.exposure,
         h.temp = PresetTemp(w.kind, w.profile, b.settings.preset, b.settings.temp)
  PROVE  \E e \in World :
            /\ Leads(<<CopyOf(b.settings, bits)>>
                     \o <<Call("camera_if_preset"), Call("auto_if_preset")>>, w, e)
            /\ SettledOn(e, b, h, k, None)
<1>1. Based(w, b) /\ InStep(w) /\ w.set.exposure = g.exposure
  BY SettledBased DEF SettledOn
<1>2. h.exposure = IF "exposure" \in bits THEN b.settings.exposure ELSE w.set.exposure
  BY <1>1
<1>3. PICK r, e \in World :
         /\ Leads(<<CopyOf(b.settings, bits)>>, w, r)
         /\ Leads(<<Call("camera_if_preset"), Call("auto_if_preset")>>, r, e)
         /\ SettledOn(e, b, h, k, None)
  BY <1>1, <1>2, WbSettles
<1> QED
  BY <1>3, LeadsOn

LEMMA AllPasteEnds ==
  ASSUME NEW w \in World, NEW b, NEW g, NEW l, NEW f, SettledOn(w, b, g, l, f),
         b.settings \in SettingsType, NEW p \in Choices, p = b.profile, p # None,
         NEW bits \in SUBSET AllBits, bits = Ticked, NEW h, NEW k,
         h.exposure = b.settings.exposure,
         h.temp = PresetTemp(w.kind, p, b.settings.preset, b.settings.temp)
  PROVE  \E e \in World :
            /\ Leads(Handed(p) \o <<CopyOf(b.settings, bits)>>
                     \o <<Call("camera_if_preset"), Call("auto_if_preset")>>,
                     Chosen(w, p), e)
            /\ SettledOn(e, b, h, k, None)
<1>1. /\ Based(w, b) /\ InStep(w) /\ w.set.exposure = g.exposure
      /\ "wb" \in bits /\ "exposure" \in bits
  BY SettledBased DEF SettledOn, Ticked, AllBits
<1>2. w.set.recalc => p = w.profile /\ Due(w) = w.set.temp
  <2>1. w.set.recalc => Due(w) = w.set.temp
    BY SettledPoised, PoisedLive
  <2>2. ASSUME w.set.recalc
        PROVE  w.kind = "jpeg" /\ w.profile # None
    BY <2>2 DEF SettledOn, EmbeddedSettled, RawSettled, Waiting
  <2>3. w.set.recalc => p = w.profile
    BY <1>1, <2>2 DEF Based
  <2> QED
    BY <2>1, <2>3
<1>3. PICK v \in World : Leads(Handed(p), Chosen(w, p), v) /\ HandedAs(v, w, p)
  BY <1>1, <1>2, Handing
<1>4. InStep(v) /\ v.kind = w.kind /\ v.profile = p /\ v.opened = w.opened
  BY <1>3 DEF HandedAs
<1>5. Based(v, b)
  BY <1>1, <1>4 DEF Based
<1>6. /\ h.exposure = (IF "exposure" \in bits THEN b.settings.exposure ELSE v.set.exposure)
      /\ h.temp = PresetTemp(v.kind, v.profile, b.settings.preset, b.settings.temp)
  BY <1>1, <1>4
<1>7. PICK r, e \in World :
         /\ Leads(<<CopyOf(b.settings, bits)>>, v, r)
         /\ Leads(<<Call("camera_if_preset"), Call("auto_if_preset")>>, r, e)
         /\ SettledOn(e, b, h, k, None)
  BY <1>1, <1>4, <1>5, <1>6, WbSettles
<1>8. Leads(Handed(p) \o <<CopyOf(b.settings, bits)>>, Chosen(w, p), r)
  BY <1>3, <1>7, LeadsOn
<1> QED
  BY <1>7, <1>8, LeadsOn

-----------------------------------------------------------------------------
(* A photo is opened: what is set before anybody listens.                  *)

Deaf(w) == ~w.follows /\ ~w.mute /\ w.commit = 0 /\ w.link = {}

LEMMA DeafStop ==
  ASSUME NEW w \in World, Deaf(w), NEW u \in World, Placed(u, w), u.commit = 1
  PROVE  AbleStop(u) /\ AfterStop(u) = Stopped(u)
<1>1. ~u.follows /\ u.link = {} /\ u.todo \in SUBSET AllBits /\ u.commit > 0
  BY WorldHas DEF Deaf, Placed
<1>2. AbleEmit(u, u.todo) /\ AfterEmit(u, u.todo) = u
  BY <1>1, NobodyHears
<1> QED
  BY <1>1, <1>2 DEF AbleStop, AfterStop, Stopping

\* r is w with a balance that waits to be converted.
WbWaits(r, w, t, p) ==
    /\ r \in World /\ Placed(r, w) /\ Deaf(r) /\ r.choice = w.choice
    /\ r.set.exposure = w.set.exposure /\ r.set.warmth = t
    /\ r.set.temp = w.set.temp /\ r.set.preset = p
    /\ r.set.switch = w.set.switch /\ r.set.recalc

LEMMA DeafSetWb ==
  ASSUME NEW w \in World, Deaf(w), NEW t \in Warmths, NEW p \in Presets
  PROVE  AbleSetWb(w, t, p) /\ WbWaits(AfterSetWb(w, t, p), w, t, p)
<1>1. PICK u, r : u = WbPut(w, t, p) /\ r = AfterStop(u)
  OBVIOUS
<1>2. w.commit = 0 /\ w.commit < 2
  BY DEF Deaf
<1>3. WbPutAs(u, w, t, p)
  BY <1>1, <1>2, WbPutIs
<1>4. u \in World /\ u.commit = 1 /\ u.commit > 0 /\ Placed(u, w)
  BY <1>2, <1>3 DEF WbPutAs
<1>5. AbleStop(u) /\ r = Stopped(u)
  BY <1>1, <1>4, DeafStop
<1>6. /\ r \in World /\ r.commit = 0 /\ Placed(r, u) /\ r.set = u.set
      /\ r.choice = u.choice
  BY <1>4, <1>5, StoppedIs
<1>7. Placed(r, w)
  BY <1>4, <1>6, PlacedTransitive
<1>8. Deaf(r)
  BY <1>6, <1>7 DEF Deaf, Placed
<1>9. WbWaits(r, w, t, p)
  BY <1>3, <1>6, <1>7, <1>8 DEF WbPutAs, WbWaits
<1> QED
  BY <1>1, <1>2, <1>5, <1>9 DEF AbleSetWb, AfterSetWb

\* r is w with the default temperature.
TempDefault(r, w) ==
    /\ r \in World /\ Placed(r, w) /\ Deaf(r) /\ r.choice = w.choice
    /\ r.set.exposure = w.set.exposure /\ r.set.warmth = w.set.warmth
    /\ r.set.temp = DefaultTemp /\ r.set.preset = "camera"
    /\ r.set.switch = w.set.switch /\ ~r.set.recalc

LEMMA DeafTempPut ==
  ASSUME NEW w \in World, Deaf(w)
  PROVE  AbleStop(TempPut(w)) /\ TempDefault(AfterStop(TempPut(w)), w)
<1>1. PICK u, r : u = TempPut(w) /\ r = AfterStop(u)
  OBVIOUS
<1>2. w.commit = 0 /\ w.commit < 2
  BY DEF Deaf
<1>3. TempPutAs(u, w)
  BY <1>1, <1>2, TempPutIs
<1>4. u \in World /\ u.commit = 1 /\ u.commit > 0 /\ Placed(u, w)
  BY <1>2, <1>3 DEF TempPutAs
<1>5. AbleStop(u) /\ r = Stopped(u)
  BY <1>1, <1>4, DeafStop
<1>6. /\ r \in World /\ r.commit = 0 /\ Placed(r, u) /\ r.set = u.set
      /\ r.choice = u.choice
  BY <1>4, <1>5, StoppedIs
<1>7. Placed(r, w)
  BY <1>4, <1>6, PlacedTransitive
<1>8. Deaf(r)
  BY <1>6, <1>7 DEF Deaf, Placed
<1>9. TempDefault(r, w)
  BY <1>3, <1>6, <1>7, <1>8 DEF TempPutAs, TempDefault
<1> QED
  BY <1>1, <1>5, <1>9

\* r is w after camera_if_preset.
CameraWaits(r, w) ==
    /\ r \in World /\ Placed(r, w) /\ Deaf(r) /\ r.choice = w.choice
    /\ r.set.exposure = w.set.exposure /\ r.set.switch = w.set.switch
    /\ r.set.preset = w.set.preset
    /\ w.set.preset = "camera" /\ w.kind = "raw" =>
          r.set.warmth = "camera" /\ r.set.temp = w.set.temp /\ r.set.recalc
    /\ w.set.preset = "camera" /\ w.kind # "raw" /\ w.profile = None =>
          r.set.warmth = w.set.warmth /\ r.set.temp = DefaultTemp /\ ~r.set.recalc
    /\ w.set.preset # "camera" \/ (w.kind # "raw" /\ w.profile # None) =>
          r.set = w.set

LEMMA DeafCameraIf ==
  ASSUME NEW w \in World, Deaf(w)
  PROVE  AbleCameraIf(w) /\ CameraWaits(CameraIf(w), w)
<1>1. PICK r : r = CameraIf(w)
  OBVIOUS
<1>2. CASE w.set.preset # "camera"
  <2>1. r = w /\ AbleCameraIf(w)
    BY <1>1, <1>2 DEF CameraIf, AbleCameraIf
  <2>2. CameraWaits(w, w)
    BY <1>2 DEF CameraWaits, Placed
  <2> QED
    BY <1>1, <2>1, <2>2
<1>3. CASE w.set.preset = "camera" /\ w.kind = "raw"
  <2>1. AbleSetWb(w, "camera", "camera")
        /\ WbWaits(AfterSetWb(w, "camera", "camera"), w, "camera", "camera")
    BY DeafSetWb DEF Warmths, Presets
  <2>2. r = AfterSetWb(w, "camera", "camera") /\ AbleCameraIf(w)
    BY <1>1, <1>3, <2>1 DEF CameraIf, AbleCameraIf, AbleCamera, AfterCamera
  <2>3. WbWaits(r, w, "camera", "camera")
    BY <2>1, <2>2
  <2>4. CameraWaits(r, w)
    BY <1>3, <2>3 DEF WbWaits, CameraWaits
  <2> QED
    BY <1>1, <2>2, <2>4
<1>4. CASE w.set.preset = "camera" /\ w.kind # "raw" /\ w.profile = None
  <2>1. AbleStop(TempPut(w)) /\ TempDefault(AfterStop(TempPut(w)), w) /\ w.commit < 2
    BY DeafTempPut DEF Deaf
  <2>2. r = AfterStop(TempPut(w)) /\ AbleCameraIf(w)
    BY <1>1, <1>4, <2>1 DEF CameraIf, AbleCameraIf, AbleCamera, AfterCamera
  <2>3. TempDefault(r, w)
    BY <2>1, <2>2
  <2>4. CameraWaits(r, w)
    BY <1>4, <2>3 DEF TempDefault, CameraWaits
  <2> QED
    BY <1>1, <2>2, <2>4
<1>5. CASE w.set.preset = "camera" /\ w.kind # "raw" /\ w.profile # None
  <2>1. r = w /\ AbleCameraIf(w)
    BY <1>1, <1>5 DEF CameraIf, AbleCameraIf, AbleCamera, AfterCamera
  <2>2. CameraWaits(w, w)
    BY <1>5 DEF CameraWaits, Placed
  <2> QED
    BY <1>1, <2>1, <2>2
<1> QED
  BY <1>2, <1>3, <1>4, <1>5

\* The settings are there: those of the sidecar s, or the defaults.
Primed(x, s) ==
    /\ x \in World /\ Deaf(x)
    /\ x.set.exposure = s.exposure /\ x.set.switch = s.switch
    /\ x.kind = "jpeg" => x.set.warmth = "zero"
    /\ x.kind # "jpeg" =>
          x.profile # None /\ x.set.temp = s.temp /\ x.set.preset = s.preset
    /\ x.set.recalc => /\ x.kind = "raw" /\ x.set.warmth = "camera"
                       /\ x.set.preset = "camera"

\* What rs->opened_settings may be.
OpenedWell(x) ==
    /\ x.kind = "jpeg" => /\ x.opened.recalc /\ x.opened.warmth = "neutral"
                          /\ x.opened.preset = "camera"
    /\ x.kind # "jpeg" /\ x.opened.recalc =>
          x.kind = "raw" /\ x.opened.warmth = "camera" /\ x.opened.preset = "camera"

\* ... and what waits to be converted, by the first filter connected.
Loaded(x, s) ==
    /\ x \in World /\ Deaf(x) /\ OpenedWell(x)
    /\ x.set.exposure = s.exposure /\ x.set.switch = s.switch
    /\ x.kind = "jpeg" => x.profile = None /\ x.set.preset = "camera"
    /\ x.kind # "jpeg" =>
          /\ x.profile # None /\ x.set.temp = s.temp /\ x.set.preset = s.preset
          /\ x.set.preset = "auto" => x.set.warmth = "auto" /\ x.set.recalc
          /\ x.set.recalc => \/ x.set.preset = "auto"
                             \/ x.kind = "raw" /\ x.set.preset = "camera"

\* y is the world of the same file as x, once its profile is known.
SameFile(y, x) ==
    y.kind = x.kind /\ y.profile = IF x.kind = "jpeg" THEN None ELSE x.profile

LEMMA Loading ==
  ASSUME NEW x, NEW s, Primed(x, s)
  PROVE  \E y \in World :
            /\ Leads(<<Call("neutral"), Call("remember"), Call("auto_if_preset")>>, x, y)
            /\ Loaded(y, s) /\ SameFile(y, x) /\ y.choice = x.choice
<1>1. PICK a, b, c : a = AfterNeutral(x) /\ b = Remembered(a) /\ c = AutoIf(b)
  OBVIOUS
<1>2. x \in World /\ Deaf(x)
  BY DEF Primed
<1>3. PICK u : u = Unprofiled(x)
  OBVIOUS
<1>4. /\ u \in World /\ Deaf(u) /\ u.kind = x.kind /\ u.set = x.set
      /\ u.choice = x.choice /\ SameFile(u, x)
  BY <1>2, <1>3, UnprofiledIs DEF Deaf, SameFile
<1>5. /\ AbleNeutral(x) /\ a \in World /\ Deaf(a) /\ SameFile(a, x)
      /\ a.choice = x.choice
      /\ a.set.exposure = x.set.exposure /\ a.set.switch = x.set.switch
      /\ x.kind = "jpeg" => /\ a.set.recalc /\ a.set.warmth = "neutral"
                            /\ a.set.preset = "camera"
      /\ x.kind # "jpeg" => a.set = x.set
  <2>1. CASE x.kind = "jpeg"
    <3>1. AbleSetWb(u, "neutral", "camera")
          /\ WbWaits(AfterSetWb(u, "neutral", "camera"), u, "neutral", "camera")
      BY <1>4, DeafSetWb DEF Warmths, Presets
    <3>2. x.set.warmth = "zero"
      BY <2>1 DEF Primed
    <3>3. a = AfterSetWb(u, "neutral", "camera") /\ AbleNeutral(x)
      BY <1>1, <1>3, <2>1, <3>1, <3>2 DEF AfterNeutral, AbleNeutral
    <3>4. WbWaits(a, u, "neutral", "camera")
      BY <3>1, <3>3
    <3> QED
      BY <1>4, <2>1, <3>3, <3>4 DEF WbWaits, SameFile, Placed
  <2>2. CASE x.kind # "jpeg"
    <3>1. a = u /\ AbleNeutral(x)
      BY <1>1, <1>3, <2>2 DEF AfterNeutral, AbleNeutral
    <3> QED
      BY <1>4, <2>2, <3>1
  <2> QED
    BY <2>1, <2>2
<1>6. /\ b \in World /\ b.opened = a.set /\ b.set = a.set /\ b.kind = a.kind
      /\ b.profile = a.profile /\ b.choice = a.choice /\ Deaf(b)
  BY <1>1, <1>5, RememberedIs DEF Deaf
<1>7. OpenedWell(b) /\ SameFile(b, x)
  BY <1>5, <1>6 DEF OpenedWell, SameFile, Primed
<1>8. AbleAutoIf(b) /\ c \in World /\ Loaded(c, s) /\ SameFile(c, x) /\ c.choice = b.choice
  <2>1. CASE b.set.preset = "auto"
    <3>1. AbleSetWb(b, "auto", "auto") /\ WbWaits(AfterSetWb(b, "auto", "auto"), b, "auto", "auto")
      BY <1>6, DeafSetWb DEF Warmths, Presets
    <3>2. c = AfterSetWb(b, "auto", "auto") /\ AbleAutoIf(b)
      BY <1>1, <2>1, <3>1 DEF AutoIf, AbleAutoIf
    <3>3. WbWaits(c, b, "auto", "auto")
      BY <3>1, <3>2
    <3>4. /\ c \in World /\ Deaf(c) /\ c.kind = b.kind /\ c.profile = b.profile
          /\ c.opened = b.opened /\ c.choice = b.choice
          /\ c.set.exposure = b.set.exposure /\ c.set.switch = b.set.switch
          /\ c.set.temp = b.set.temp /\ c.set.preset = "auto" /\ c.set.warmth = "auto"
          /\ c.set.recalc
      BY <3>3 DEF WbWaits, Placed
    <3>5. OpenedWell(c) /\ SameFile(c, x)
      BY <1>7, <3>4 DEF OpenedWell, SameFile
    <3>6. x.kind # "jpeg"
      BY <1>5, <1>6, <2>1
    <3>7. c.kind = x.kind /\ c.profile = x.profile
      BY <3>5, <3>6 DEF SameFile
    <3>8. x.profile # None /\ x.set.temp = s.temp /\ x.set.preset = s.preset
          /\ x.set.exposure = s.exposure /\ x.set.switch = s.switch
      BY <3>6 DEF Primed
    <3>9. b.set = x.set
      BY <1>5, <1>6, <3>6
    <3> QED
      BY <2>1, <3>2, <3>4, <3>5, <3>6, <3>7, <3>8, <3>9 DEF Loaded
  <2>2. CASE b.set.preset # "auto"
    <3>1. c = b /\ AbleAutoIf(b)
      BY <1>1, <2>2 DEF AutoIf, AbleAutoIf
    <3>2. b.set.exposure = s.exposure /\ b.set.switch = s.switch
      BY <1>5, <1>6 DEF Primed
    <3>3. b.kind = x.kind /\ (x.kind = "jpeg" => b.profile = None)
          /\ (x.kind # "jpeg" => b.profile = x.profile)
      BY <1>7 DEF SameFile
    <3>4. x.kind = "jpeg" => b.set.preset = "camera"
      BY <1>5, <1>6
    <3>5. ASSUME x.kind # "jpeg"
          PROVE  /\ b.profile # None /\ b.set.temp = s.temp /\ b.set.preset = s.preset
                 /\ b.set.recalc => b.kind = "raw" /\ b.set.preset = "camera"
      BY <1>5, <1>6, <3>3, <3>5 DEF Primed
    <3>6. Loaded(b, s)
      BY <1>6, <1>7, <2>2, <3>2, <3>3, <3>4, <3>5 DEF Loaded
    <3> QED
      BY <1>6, <1>7, <3>1, <3>6
  <2> QED
    BY <2>1, <2>2
<1>9. Leads(<<Call("neutral"), Call("remember"), Call("auto_if_preset")>>, x, c)
  <2>1. Leads(<<Call("neutral")>>, x, a)
    BY <1>1, <1>2, <1>5, LeadNeutral
  <2>2. Leads(<<Call("remember")>>, a, b)
    BY <1>1, <1>5, LeadRemember
  <2>3. Leads(<<Call("auto_if_preset")>>, b, c)
    BY <1>1, <1>6, <1>8, LeadAutoIf
  <2> QED
    BY <2>1, <2>2, <2>3, ThreeInTurn
<1> QED
  BY <1>5, <1>6, <1>8, <1>9

\* The filters connected have read the settings, with the photo's profile.
Joining(x) ==
    /\ x \in World /\ ~x.follows /\ ~x.mute /\ x.commit = 0 /\ "loupe" \in x.link
    /\ x.link \subseteq x.exposure /\ x.link \subseteq x.wb
    /\ \A c \in x.link : x.prof[c] = x.profile
    /\ ~x.set.recalc

\* The settings are what the sidecar s, or the defaults, come to.
Restored(x, s) ==
    /\ OpenedWell(x) /\ PresetKept(x) /\ ~x.set.recalc
    /\ x.set.exposure = s.exposure /\ x.set.switch = s.switch
    /\ x.kind = "raw" /\ x.set.preset = "camera" =>
          x.set.warmth = "camera" /\ x.set.temp = Asked(x.profile, "camera")
    /\ x.kind = "jpeg" => x.profile = None /\ x.set.temp = DefaultTemp
    /\ x.kind # "jpeg" =>
          /\ x.profile # None
          /\ x.set.temp = PresetTemp(x.kind, x.profile, s.preset, s.temp)
          /\ x.set.temp = s.temp => x.set.preset = s.preset

\* The loupe is about to be connected: it has the profile to convert with.
Ready(x, s) ==
    /\ x \in World /\ ~x.follows /\ ~x.mute /\ x.commit = 0 /\ x.link = {"loupe"}
    /\ x.prof["loupe"] = x.profile /\ OpenedWell(x)
    /\ x.set.exposure = s.exposure /\ x.set.switch = s.switch
    /\ x.kind = "jpeg" => /\ x.profile = None /\ x.set.preset = "camera"
                          /\ x.set.temp = DefaultTemp /\ ~x.set.recalc
    /\ x.kind # "jpeg" =>
          /\ x.profile # None /\ x.set.temp = s.temp /\ x.set.preset = s.preset
          /\ x.set.preset = "auto" => x.set.recalc
          /\ x.kind = "raw" /\ x.set.preset = "camera" => x.set.recalc
          /\ x.set.recalc =>
                \/ x.set.preset = "auto" /\ x.set.warmth = "auto"
                \/ x.kind = "raw" /\ x.set.preset = "camera" /\ x.set.warmth = "camera"

LEMMA LoupeReady ==
  ASSUME NEW x, NEW s, Loaded(x, s)
  PROVE  \E a, b \in World :
            /\ Leads(<<OnChain("profile", "loupe")>>, x, a)
            /\ Leads(<<Call("camera_if_preset")>>, a, b)
            /\ NextToLink(b, "loupe") /\ Ready(Linking(b, "loupe"), s)
            /\ b.kind = x.kind /\ b.profile = x.profile
<1>1. PICK a, b : a = Profiled(x, "loupe") /\ b = CameraIf(a)
  OBVIOUS
<1>2. x \in World /\ Deaf(x) /\ "loupe" \in Chains
  BY DEF Loaded, Chains
<1>3. /\ a \in World /\ Deaf(a) /\ a.prof = [x.prof EXCEPT !["loupe"] = x.profile]
      /\ a.kind = x.kind /\ a.set = x.set /\ a.profile = x.profile
      /\ a.opened = x.opened
  BY <1>1, <1>2, ProfiledIs DEF Deaf
<1>4. a.prof["loupe"] = a.profile
  BY <1>2, <1>3, WorldHas
<1>5. AbleCameraIf(a) /\ CameraWaits(b, a)
  BY <1>1, <1>3, DeafCameraIf
<1>6. /\ b \in World /\ Deaf(b) /\ b.kind = x.kind /\ b.profile = x.profile
      /\ b.opened = x.opened /\ b.prof["loupe"] = b.profile
      /\ b.set.exposure = s.exposure /\ b.set.switch = s.switch
      /\ b.set.preset = x.set.preset
  BY <1>3, <1>4, <1>5 DEF CameraWaits, Placed, Loaded
<1>7. NextToLink(b, "loupe")
  BY <1>6 DEF NextToLink, Deaf
<1>8. PICK l : l = Linking(b, "loupe")
  OBVIOUS
<1>9. /\ l \in World /\ l.link = {"loupe"} /\ l.kind = b.kind /\ l.set = b.set
      /\ l.follows = b.follows /\ l.mute = b.mute /\ l.commit = b.commit
      /\ l.prof = b.prof /\ l.profile = b.profile /\ l.opened = b.opened
  BY <1>6, <1>7, <1>8, LinkingIs DEF Deaf
<1>10. /\ ~l.follows /\ ~l.mute /\ l.commit = 0 /\ l.prof["loupe"] = l.profile
       /\ OpenedWell(l)
  BY <1>2, <1>6, <1>9 DEF Deaf, OpenedWell, Loaded
<1>11. ASSUME x.kind = "jpeg"
       PROVE  /\ l.profile = None /\ l.set.preset = "camera"
              /\ l.set.temp = DefaultTemp /\ ~l.set.recalc
  <2>1. a.profile = None /\ a.set.preset = "camera" /\ a.kind # "raw"
    BY <1>3, <1>11 DEF Loaded
  <2> QED
    BY <1>3, <1>5, <1>6, <1>9, <2>1 DEF CameraWaits
<1>12. ASSUME x.kind # "jpeg"
       PROVE  /\ l.profile # None /\ l.set.temp = s.temp /\ l.set.preset = s.preset
              /\ l.set.preset = "auto" => l.set.recalc
              /\ l.kind = "raw" /\ l.set.preset = "camera" => l.set.recalc
              /\ l.set.recalc =>
                    \/ l.set.preset = "auto" /\ l.set.warmth = "auto"
                    \/ l.kind = "raw" /\ l.set.preset = "camera"
                       /\ l.set.warmth = "camera"
  <2>1. /\ a.profile # None /\ a.set.temp = s.temp /\ a.set.preset = s.preset
        /\ a.set.preset = "auto" => a.set.warmth = "auto" /\ a.set.recalc
        /\ a.set.recalc => \/ a.set.preset = "auto"
                           \/ a.kind = "raw" /\ a.set.preset = "camera"
    BY <1>3, <1>12 DEF Loaded
  <2>2. CASE a.set.preset = "camera" /\ a.kind = "raw"
    BY <1>3, <1>5, <1>6, <1>9, <2>1, <2>2 DEF CameraWaits
  <2>3. CASE ~(a.set.preset = "camera" /\ a.kind = "raw")
    <3>1. b.set = a.set
      BY <1>5, <2>1, <2>3 DEF CameraWaits
    <3> QED
      BY <1>3, <1>6, <1>9, <2>1, <2>3, <3>1
  <2> QED
    BY <2>2, <2>3
<1>13. Ready(l, s)
  BY <1>6, <1>9, <1>10, <1>11, <1>12 DEF Ready
<1>14. Leads(<<OnChain("profile", "loupe")>>, x, a)
  BY <1>1, <1>2, LeadProfile
<1>15. Leads(<<Call("camera_if_preset")>>, a, b)
  BY <1>1, <1>3, <1>5, LeadCameraIf
<1> QED
  BY <1>3, <1>6, <1>7, <1>8, <1>13, <1>14, <1>15

\* The loupe reads, and converts what waits.
LEMMA LoupeReads ==
  ASSUME NEW l, NEW s, Ready(l, s)
  PROVE  /\ AbleRead(l, "loupe", AllBits)
         /\ Joining(AfterRead(l, "loupe", AllBits))
         /\ Restored(AfterRead(l, "loupe", AllBits), s)
         /\ Framed(AfterRead(l, "loupe", AllBits), l)
<1>1. PICK y : y = AfterRead(l, "loupe", AllBits)
  OBVIOUS
<1>2. l \in World /\ "loupe" \in Chains /\ AllBits \in SUBSET AllBits
      /\ "wb" \in AllBits /\ "exposure" \in AllBits
  BY DEF Ready, Chains, AllBits
<1>3. l.set \in SettingsType /\ l.profile \in Choices
  BY <1>2, WorldHas
<1>4. y \in World /\ Framed(y, l)
  BY <1>1, <1>2, ReadIs
<1>5. PICK t : t = Asked(l.profile, l.set.warmth)
  OBVIOUS
<1>6. Converted(l, "loupe") = t /\ t \in Temps
  BY <1>2, <1>3, <1>5, AskedType, SettingsHas DEF Converted, Ready
<1>7. /\ AbleRead(l, "loupe", AllBits)
      /\ "loupe" \in y.exposure /\ "loupe" \in y.wb /\ ~y.set.recalc
      /\ y.set.exposure = l.set.exposure /\ y.set.switch = l.set.switch
      /\ y.set.warmth = l.set.warmth
      /\ y.set.temp = (IF l.set.recalc THEN t ELSE l.set.temp)
      /\ y.set.preset = (IF l.set.recalc /\ t # l.set.temp THEN None ELSE l.set.preset)
      /\ l.set.recalc => y.choice = l.profile
  <2>1. CASE ~l.set.recalc
    <3>1. /\ AbleRead(l, "loupe", AllBits) /\ Still(y, l)
          /\ "loupe" \in y.exposure /\ "loupe" \in y.wb
      BY <1>1, <1>2, <2>1, QuietRead
    <3>2. y.set = l.set
      BY <3>1 DEF Still
    <3> QED
      BY <2>1, <3>1, <3>2
  <2>2. CASE l.set.recalc /\ t = l.set.temp
    <3>1. /\ AbleRead(l, "loupe", AllBits) /\ Turned(y, l)
          /\ "loupe" \in y.exposure /\ "loupe" \in y.wb
      BY <1>1, <1>2, <1>6, <2>2, KeptRead
    <3>2. y.set = [l.set EXCEPT !.recalc = FALSE] /\ y.choice = l.profile
      BY <3>1 DEF Turned
    <3> QED
      BY <1>3, <2>2, <3>1, <3>2, RecalcDone
  <2>3. CASE l.set.recalc /\ t # l.set.temp
    <3>1. /\ Shifted(y, l, t) /\ "loupe" \in y.exposure
          /\ y.wb = Informed(l, "loupe")
      BY <1>1, <1>2, <1>6, <2>3, MovedRead
    <3>2. y.set = [l.set EXCEPT !.temp = t, !.preset = None, !.recalc = FALSE]
          /\ y.choice = l.profile
      BY <3>1 DEF Shifted
    <3>3. "loupe" \in y.wb
      BY <3>1 DEF Informed, Ready
    <3>4. AbleRead(l, "loupe", AllBits)
      BY DEF AbleRead, Ready
    <3>5. /\ y.set.exposure = l.set.exposure /\ y.set.warmth = l.set.warmth
          /\ y.set.temp = t /\ y.set.preset = None /\ y.set.switch = l.set.switch
          /\ ~y.set.recalc
      <4>1. y.set = Done(l.set, t)
        BY <2>3, <3>2 DEF Done
      <4> QED
        BY <1>3, <1>6, <2>3, <4>1, DoneIs
    <3> QED
      BY <2>3, <3>1, <3>2, <3>3, <3>4, <3>5
  <2> QED
    BY <2>1, <2>2, <2>3
<1>8. /\ ~y.follows /\ ~y.mute /\ y.commit = 0 /\ y.link = {"loupe"}
      /\ y.prof["loupe"] = y.profile /\ y.kind = l.kind /\ y.profile = l.profile
      /\ y.opened = l.opened
  BY <1>4 DEF Framed, Placed, Ready
<1>9. Joining(y)
  BY <1>4, <1>7, <1>8 DEF Joining
<1>10. OpenedWell(y) /\ y.set.exposure = s.exposure /\ y.set.switch = s.switch
  BY <1>7, <1>8 DEF OpenedWell, Ready
<1>11. ASSUME y.kind = "jpeg"
       PROVE  y.profile = None /\ y.set.temp = DefaultTemp
  BY <1>7, <1>8, <1>11 DEF Ready
<1>12. ASSUME y.kind = "raw", y.set.preset = "camera"
       PROVE  y.set.warmth = "camera" /\ y.set.temp = Asked(y.profile, "camera")
  <2>1. l.set.preset = "camera"
    BY <1>7, <1>12, NonePreset
  <2>2. l.set.recalc /\ l.set.warmth = "camera"
    BY <1>8, <1>12, <2>1 DEF Ready
  <2> QED
    BY <1>5, <1>7, <1>8, <2>2
<1>13. ASSUME y.kind # "jpeg"
       PROVE  /\ y.profile # None
              /\ y.set.temp = PresetTemp(y.kind, y.profile, s.preset, s.temp)
              /\ y.set.temp = s.temp => y.set.preset = s.preset
  <2>1. /\ l.profile # None /\ l.set.temp = s.temp /\ l.set.preset = s.preset
        /\ l.set.preset = "auto" => l.set.recalc
        /\ l.kind = "raw" /\ l.set.preset = "camera" => l.set.recalc
        /\ l.set.recalc =>
              \/ l.set.preset = "auto" /\ l.set.warmth = "auto"
              \/ l.kind = "raw" /\ l.set.preset = "camera" /\ l.set.warmth = "camera"
    BY <1>8, <1>13 DEF Ready
  <2>2. y.set.temp = PresetTemp(y.kind, y.profile, s.preset, s.temp)
    <3>1. CASE l.set.recalc /\ l.set.preset = "auto"
      BY <1>5, <1>7, <1>8, <2>1, <3>1 DEF PresetTemp
    <3>2. CASE l.set.recalc /\ l.set.preset # "auto"
      BY <1>5, <1>7, <1>8, <2>1, <3>2 DEF PresetTemp, CameraTemp
    <3>3. CASE ~l.set.recalc
      BY <1>7, <1>8, <2>1, <3>3 DEF PresetTemp, CameraTemp
    <3> QED
      BY <3>1, <3>2, <3>3
  <2>3. y.set.temp = s.temp => y.set.preset = s.preset
    BY <1>7, <2>1
  <2> QED
    BY <1>8, <2>1, <2>2, <2>3
<1>14. PresetKept(y)
  <2>1. SUFFICES ASSUME y.choice # None
                 PROVE  /\ y.set.preset = "auto" => y.set.temp = TempOf[y.choice]["auto"]
                        /\ y.kind = "raw" /\ y.set.preset = "camera"
                              => y.set.temp = TempOf[y.choice]["camera"]
    BY DEF PresetKept
  <2>2. ASSUME y.set.preset = "auto"
        PROVE  y.set.temp = TempOf[y.choice]["auto"]
    <3>1. l.set.preset = "auto"
      BY <1>7, <2>2, NonePreset
    <3>2. l.set.recalc /\ l.set.warmth = "auto"
      <4>1. l.kind # "jpeg"
        BY <3>1 DEF Ready
      <4> QED
        BY <3>1, <4>1 DEF Ready
    <3> QED
      BY <1>5, <1>7, <2>1, <3>2 DEF Asked
  <2>3. ASSUME y.kind = "raw", y.set.preset = "camera"
        PROVE  y.set.temp = TempOf[y.choice]["camera"]
    <3>1. y.set.temp = Asked(y.profile, "camera")
      BY <1>12, <2>3
    <3>2. l.set.preset = "camera"
      BY <1>7, <2>3, NonePreset
    <3>3. l.set.recalc
      BY <1>8, <2>3, <3>2 DEF Ready
    <3> QED
      BY <1>7, <1>8, <2>1, <3>1, <3>3 DEF Asked
  <2> QED
    BY <2>2, <2>3
<1>15. Restored(y, s)
  BY <1>7, <1>10, <1>11, <1>12, <1>13, <1>14 DEF Restored
<1> QED
  BY <1>1, <1>4, <1>7, <1>9, <1>15

LEMMA SameSettings ==
  ASSUME NEW s \in SettingsType, NEW r \in SettingsType,
         s.exposure = r.exposure, s.warmth = r.warmth, s.temp = r.temp,
         s.preset = r.preset, s.switch = r.switch, s.recalc = r.recalc
  PROVE  s = r
BY DEF SettingsType

\* r is a, but for what is known and for the profile of a conversion.
Rejoined(r, a) ==
    /\ r \in World /\ Framed(r, a) /\ r.set = a.set
    /\ a.exposure \subseteq r.exposure /\ a.wb \subseteq r.wb
    /\ \/ r.choice = a.choice
       \/ r.choice = a.profile /\ a.kind = "raw" /\ a.set.preset = "camera"

\* The camera's balance once more: it was the camera's already.
LEMMA JoinCamera ==
  ASSUME NEW a, NEW s, Joining(a), Restored(a, s)
  PROVE  AbleCameraIf(a) /\ Rejoined(CameraIf(a), a)
<1>0. a \in World /\ a.commit = 0 /\ a.commit < 2 /\ a.set \in SettingsType
  BY WorldHas DEF Joining
<1>1. CASE a.set.preset # "camera"
      \/ (a.kind # "raw" /\ a.profile # None)
  BY <1>0, <1>1 DEF CameraIf, AbleCameraIf, AfterCamera, AbleCamera, Rejoined,
                    Framed, Placed
<1>2. CASE a.set.preset = "camera" /\ a.kind = "raw"
  <2>1. PICK u, e, r : /\ u = WbPut(a, "camera", "camera") /\ e = AfterEmit(u, u.todo)
                       /\ r = Stopped(e)
    OBVIOUS
  <2>2. WbPutAs(u, a, "camera", "camera")
    BY <1>0, <2>1, WbPutIs DEF Warmths, Presets
  <2>3. a.set.warmth = "camera" /\ a.set.temp = Asked(a.profile, "camera")
    BY <1>2 DEF Restored
  <2>4. /\ u \in World /\ Placed(u, a) /\ u.commit = 1 /\ u.todo # {}
        /\ "wb" \in u.todo /\ u.todo \in SUBSET AllBits
        /\ u.exposure = a.exposure /\ u.wb = a.wb /\ u.set.recalc
        /\ u.set \in SettingsType
    BY <1>0, <2>2, <2>3, WorldHas DEF WbPutAs
  <2>5. /\ u.set.exposure = a.set.exposure /\ u.set.warmth = a.set.warmth
        /\ u.set.temp = a.set.temp /\ u.set.preset = a.set.preset
        /\ u.set.switch = a.set.switch
    BY <1>2, <2>2, <2>3 DEF WbPutAs
  <2>6. ~u.follows /\ "loupe" \in u.link /\ Converted(u, "loupe") = u.set.temp
    BY <2>3, <2>4, <2>5 DEF Joining, Placed, Converted
  <2>7. AbleEmit(u, u.todo) /\ Turned(e, u)
    BY <2>1, <2>4, <2>6, LoupeEmit
  <2>8. /\ e \in World /\ Framed(e, u) /\ e.set = [u.set EXCEPT !.recalc = FALSE]
        /\ e.choice = u.profile /\ u.exposure \subseteq e.exposure /\ u.wb \subseteq e.wb
    BY <2>7 DEF Turned
  <2>9. e.set = a.set
    <3>1. /\ e.set \in SettingsType /\ e.set.exposure = u.set.exposure
          /\ e.set.warmth = u.set.warmth /\ e.set.temp = u.set.temp
          /\ e.set.preset = u.set.preset /\ e.set.switch = u.set.switch
          /\ e.set.recalc = FALSE
      BY <2>4, <2>8, RecalcDone
    <3>2. a.set.recalc = FALSE
      BY <1>0, SettingsHas DEF Joining
    <3> QED
      BY <1>0, <2>5, <3>1, <3>2, SameSettings
  <2>10. e.commit = 1 /\ e.commit > 0 /\ Placed(e, u)
    BY <2>4, <2>8 DEF Framed
  <2>11. /\ r \in World /\ r.commit = 0 /\ Placed(r, e) /\ r.set = e.set
         /\ r.choice = e.choice /\ r.exposure = e.exposure /\ r.wb = e.wb
    BY <2>1, <2>8, <2>10, StoppedIs
  <2>12. Placed(r, a)
    BY <2>4, <2>10, <2>11, PlacedTransitive
  <2>13. r.choice = a.profile
    BY <2>4, <2>8, <2>11 DEF Placed
  <2>14. Rejoined(r, a)
    BY <1>0, <1>2, <2>4, <2>8, <2>9, <2>11, <2>12, <2>13 DEF Rejoined, Framed
  <2>15. AbleSetWb(a, "camera", "camera") /\ AfterSetWb(a, "camera", "camera") = r
    BY <1>0, <2>1, <2>4, <2>7
       DEF AbleSetWb, AfterSetWb, AbleStop, AfterStop, Stopping
  <2> QED
    BY <1>2, <2>14, <2>15 DEF CameraIf, AbleCameraIf, AfterCamera, AbleCamera
<1>3. CASE a.set.preset = "camera" /\ a.kind # "raw" /\ a.profile = None
  <2>1. PICK u, e, r : /\ u = TempPut(a) /\ e = AfterEmit(u, u.todo)
                       /\ r = Stopped(e)
    OBVIOUS
  <2>2. TempPutAs(u, a)
    BY <1>0, <2>1, TempPutIs
  <2>3. a.set.temp = DefaultTemp
    BY <1>3 DEF Restored
  <2>4. /\ u \in World /\ Placed(u, a) /\ u.commit = 1 /\ u.todo # {}
        /\ u.todo \in SUBSET AllBits /\ u.choice = a.choice
        /\ u.exposure = a.exposure /\ u.wb = a.wb /\ ~u.set.recalc
        /\ u.set \in SettingsType
    BY <1>0, <2>2, <2>3, WorldHas DEF TempPutAs
  <2>5. u.set = a.set
    <3>1. /\ u.set.exposure = a.set.exposure /\ u.set.warmth = a.set.warmth
          /\ u.set.temp = a.set.temp /\ u.set.preset = a.set.preset
          /\ u.set.switch = a.set.switch
      BY <1>3, <2>2, <2>3 DEF TempPutAs
    <3>2. a.set.recalc = FALSE
      BY <1>0, SettingsHas DEF Joining
    <3>3. u.set.recalc = FALSE
      BY <2>4, SettingsHas
    <3> QED
      BY <1>0, <2>4, <3>1, <3>2, <3>3, SameSettings
  <2>6. AbleEmit(u, u.todo) /\ Still(e, u)
    BY <2>1, <2>4, QuietEmit
  <2>7. /\ e \in World /\ Framed(e, u) /\ e.set = u.set /\ e.choice = u.choice
        /\ u.exposure \subseteq e.exposure /\ u.wb \subseteq e.wb
    BY <2>6 DEF Still
  <2>8. e.commit = 1 /\ e.commit > 0 /\ Placed(e, u)
    BY <2>4, <2>7 DEF Framed
  <2>9. /\ r \in World /\ r.commit = 0 /\ Placed(r, e) /\ r.set = e.set
        /\ r.choice = e.choice /\ r.exposure = e.exposure /\ r.wb = e.wb
    BY <2>1, <2>7, <2>8, StoppedIs
  <2>10. Placed(r, a)
    BY <2>4, <2>8, <2>9, PlacedTransitive
  <2>11. Rejoined(r, a)
    BY <1>0, <2>4, <2>5, <2>7, <2>9, <2>10 DEF Rejoined, Framed
  <2>12. AbleStop(TempPut(a)) /\ AfterStop(TempPut(a)) = r
    BY <2>1, <2>4, <2>6 DEF AbleStop, AfterStop, Stopping
  <2> QED
    BY <1>0, <1>3, <2>11, <2>12 DEF CameraIf, AbleCameraIf, AfterCamera, AbleCamera
<1> QED
  BY <1>1, <1>2, <1>3

\* y is of the photo of x.
SamePhoto(y, x) == y.kind = x.kind /\ y.profile = x.profile

\* The navigator, then the view: rs_photo_apply_to_filters().
LEMMA JoinNext ==
  ASSUME NEW x, NEW s, Joining(x), Restored(x, s), NEW c, NextToLink(x, c)
  PROVE  \E y \in World : /\ Leads(ApplyTo(c), x, y) /\ Joining(y) /\ Restored(y, s)
                          /\ SamePhoto(y, x) /\ y.link = x.link \union {c}
<1>1. PICK a, b, l, y : /\ a = Profiled(x, c) /\ b = CameraIf(a) /\ l = Linking(b, c)
                        /\ y = AfterRead(l, c, AllBits)
  OBVIOUS
<1>2. x \in World /\ c \in Chains /\ AllBits \in SUBSET AllBits
      /\ "wb" \in AllBits /\ "exposure" \in AllBits
  BY DEF Joining, NextToLink, Chains, AllBits
<1>3. /\ a \in World /\ a.prof = [x.prof EXCEPT ![c] = x.profile] /\ a.kind = x.kind
      /\ a.set = x.set /\ a.commit = x.commit /\ a.exposure = x.exposure
      /\ a.wb = x.wb /\ a.link = x.link /\ a.follows = x.follows /\ a.mute = x.mute
      /\ a.profile = x.profile /\ a.choice = x.choice /\ a.opened = x.opened
  BY <1>1, <1>2, ProfiledIs
<1>4. x.prof \in [Chains -> Choices] /\ x.link \subseteq Chains
  BY <1>2, WorldHas DEF Links, Chains
<1>5. a.prof[c] = a.profile /\ \A d \in a.link : a.prof[d] = a.profile
  BY <1>2, <1>3, <1>4 DEF Joining
<1>6. Joining(a)
  BY <1>3, <1>5 DEF Joining
<1>7. Restored(a, s)
  BY <1>3 DEF Restored, OpenedWell, PresetKept
<1>8. AbleCameraIf(a) /\ Rejoined(b, a)
  BY <1>1, <1>6, <1>7, JoinCamera
<1>9. /\ b \in World /\ b.kind = a.kind /\ b.link = a.link /\ b.follows = a.follows
      /\ b.mute = a.mute /\ b.prof = a.prof /\ b.profile = a.profile
      /\ b.opened = a.opened /\ b.commit = a.commit /\ b.set = a.set
      /\ a.exposure \subseteq b.exposure /\ a.wb \subseteq b.wb
  BY <1>8 DEF Rejoined, Framed, Placed
<1>10. PresetKept(b)
  <2>1. CASE b.choice = a.choice
    BY <1>7, <1>9, <2>1 DEF Restored, PresetKept
  <2>2. CASE b.choice = a.profile /\ a.kind = "raw" /\ a.set.preset = "camera"
    <3>1. a.set.temp = Asked(a.profile, "camera") /\ a.profile # None
      BY <1>7, <2>2 DEF Restored
    <3> QED
      BY <1>9, <2>2, <3>1 DEF PresetKept, Asked
  <2> QED
    BY <1>8, <2>1, <2>2 DEF Rejoined
<1>11. NextToLink(b, c)
  BY <1>3, <1>9 DEF NextToLink
<1>12. /\ l \in World /\ l.link = b.link \union {c} /\ l.kind = b.kind
       /\ l.follows = b.follows /\ l.mute = b.mute /\ l.prof = b.prof
       /\ l.opened = b.opened /\ l.profile = b.profile /\ l.commit = b.commit
       /\ l.set = b.set /\ l.choice = b.choice /\ l.exposure = b.exposure
       /\ l.wb = b.wb
  BY <1>1, <1>9, <1>11, LinkingIs
<1>13. ~l.set.recalc
  BY <1>6, <1>9, <1>12 DEF Joining
<1>14. /\ AbleRead(l, c, AllBits) /\ Still(y, l) /\ c \in y.exposure /\ c \in y.wb
  BY <1>1, <1>2, <1>12, <1>13, QuietRead
<1>15. /\ y \in World /\ y.kind = l.kind /\ y.link = l.link /\ y.follows = l.follows
       /\ y.mute = l.mute /\ y.prof = l.prof /\ y.profile = l.profile
       /\ y.opened = l.opened /\ y.commit = l.commit /\ y.set = l.set
       /\ y.choice = l.choice /\ l.exposure \subseteq y.exposure /\ l.wb \subseteq y.wb
  BY <1>14 DEF Still, Framed, Placed
<1>16. Joining(y)
  <2>1. y.link = x.link \union {c}
    BY <1>3, <1>9, <1>12, <1>15
  <2>2. x.link \subseteq y.exposure /\ x.link \subseteq y.wb
    BY <1>3, <1>9, <1>12, <1>15 DEF Joining
  <2>3. \A d \in y.link : y.prof[d] = y.profile
    BY <1>3, <1>5, <1>9, <1>12, <1>15, <2>1
  <2>4. ~y.follows /\ ~y.mute /\ y.commit = 0 /\ "loupe" \in y.link /\ ~y.set.recalc
    BY <1>6, <1>9, <1>12, <1>15 DEF Joining
  <2> QED
    BY <1>14, <1>15, <2>1, <2>2, <2>3, <2>4 DEF Joining
<1>17. Restored(y, s)
  <2>1. y.set = a.set /\ y.kind = a.kind /\ y.profile = a.profile /\ y.opened = a.opened
    BY <1>9, <1>12, <1>15
  <2>2. PresetKept(y)
    BY <1>10, <1>12, <1>15 DEF PresetKept
  <2>3. OpenedWell(y)
    BY <1>7, <2>1 DEF Restored, OpenedWell
  <2> QED
    BY <1>7, <2>1, <2>2, <2>3 DEF Restored
<1>18. Leads(ApplyTo(c), x, y)
  <2>1. Leads(<<OnChain("profile", c)>>, x, a)
    BY <1>1, <1>2, LeadProfile
  <2>2. Leads(<<Call("camera_if_preset")>>, a, b)
    BY <1>1, <1>3, <1>8, LeadCameraIf
  <2>3. AbleConnect(b, c)
    BY <1>1, <1>11, <1>14, ConnectNext
  <2>4. AfterConnect(b, c) = y
    BY <1>1, <1>9, <2>3, ConnectWorld
  <2>5. Leads(<<OnChain("connect", c)>>, b, y)
    BY <1>2, <1>9, <2>3, <2>4, LeadConnect
  <2>6. Leads(<<OnChain("profile", c), Call("camera_if_preset"), OnChain("connect", c)>>, x, y)
    BY <2>1, <2>2, <2>5, ThreeInTurn
  <2> QED
    BY <2>6 DEF ApplyTo
<1> QED
  BY <1>3, <1>9, <1>12, <1>15, <1>16, <1>17, <1>18 DEF SamePhoto

LEMMA LoupeJoins ==
  ASSUME NEW x, NEW s, Loaded(x, s)
  PROVE  \E y \in World : /\ Leads(ApplyTo("loupe"), x, y) /\ Joining(y) /\ Restored(y, s)
                          /\ SamePhoto(y, x) /\ y.link = {"loupe"}
<1>1. PICK a, b \in World :
         /\ Leads(<<OnChain("profile", "loupe")>>, x, a)
         /\ Leads(<<Call("camera_if_preset")>>, a, b)
         /\ NextToLink(b, "loupe") /\ Ready(Linking(b, "loupe"), s)
         /\ b.kind = x.kind /\ b.profile = x.profile
  BY LoupeReady
<1>2. PICK l, y : l = Linking(b, "loupe") /\ y = AfterRead(l, "loupe", AllBits)
  OBVIOUS
<1>3. l.kind = b.kind /\ l.profile = b.profile /\ l.link = {"loupe"}
  BY <1>1, <1>2, LinkingIs DEF Ready
<1>4. /\ AbleRead(l, "loupe", AllBits) /\ Joining(y) /\ Restored(y, s) /\ Framed(y, l)
  BY <1>1, <1>2, LoupeReads
<1>5. AbleConnect(b, "loupe")
  BY <1>1, <1>2, <1>4, ConnectNext
<1>6. AfterConnect(b, "loupe") = y /\ "loupe" \in Chains
  BY <1>2, <1>5, ConnectWorld DEF Chains
<1>7. Leads(<<OnChain("connect", "loupe")>>, b, y)
  BY <1>5, <1>6, LeadConnect
<1>8. Leads(<<OnChain("profile", "loupe"), Call("camera_if_preset"),
              OnChain("connect", "loupe")>>, x, y)
  BY <1>1, <1>7, ThreeInTurn
<1> QED
  BY <1>1, <1>3, <1>4, <1>8 DEF ApplyTo, Framed, Placed, SamePhoto, Joining

\* The toolbox is connected last.
LEMMA ToolboxJoins ==
  ASSUME NEW x, NEW s, Joining(x), Restored(x, s), x.link = Chains
  PROVE  \E e \in World : /\ Leads(<<Call("toolbox_set_photo")>>, x, e)
                          /\ InStep(e) /\ Restored(e, s) /\ SamePhoto(e, x)
<1>1. PICK e : e = AfterSetPhoto(x)
  OBVIOUS
<1>2. x \in World /\ "navigator" \in x.link /\ "view" \in x.link
  BY DEF Joining, Chains
<1>3. /\ e \in World /\ e.follows = TRUE /\ e.unseen = FALSE
      /\ e.switch = x.set.switch /\ e.exposure = x.exposure \union {"toolbox"}
      /\ e.wb = x.wb \union {"toolbox"} /\ e.kind = x.kind /\ e.set = x.set
      /\ e.commit = x.commit /\ e.link = x.link /\ e.mute = x.mute
      /\ e.prof = x.prof /\ e.profile = x.profile /\ e.choice = x.choice
      /\ e.opened = x.opened
  BY <1>1, <1>2, SetPhotoIs
<1>4. e.exposure = Holders /\ e.wb = Holders
  <2>1. e.exposure \in SUBSET Holders /\ e.wb \in SUBSET Holders
    BY <1>3, WorldHas
  <2>2. Chains \subseteq e.exposure /\ Chains \subseteq e.wb
        /\ "toolbox" \in e.exposure /\ "toolbox" \in e.wb
    BY <1>3 DEF Joining
  <2> QED
    BY <2>1, <2>2, HoldersAre
<1>5. InStep(e)
  BY <1>2, <1>3, <1>4 DEF InStep, Joining
<1>6. Restored(e, s)
  BY <1>3 DEF Restored, OpenedWell, PresetKept
<1>7. Leads(<<Call("toolbox_set_photo")>>, x, e)
  BY <1>1, <1>2, LeadSetPhoto
<1> QED
  BY <1>3, <1>5, <1>6, <1>7 DEF SamePhoto

\* The rest of open_photo(), once the settings are there.
LEMMA Opening ==
  ASSUME NEW a, NEW w, NEW x, Leads(a, w, x), NEW s, Primed(x, s)
  PROVE  \E e \in World :
            /\ Leads(a \o <<Call("neutral"), Call("remember"), Call("auto_if_preset")>>
                       \o ApplyTo("loupe") \o ApplyTo("navigator") \o ApplyTo("view")
                       \o <<Call("toolbox_set_photo")>>, w, e)
            /\ InStep(e) /\ Restored(e, s) /\ SameFile(e, x)
<1>1. PICK b \in World :
         /\ Leads(<<Call("neutral"), Call("remember"), Call("auto_if_preset")>>, x, b)
         /\ Loaded(b, s) /\ SameFile(b, x)
  BY Loading
<1>2. PICK l \in World : /\ Leads(ApplyTo("loupe"), b, l) /\ Joining(l) /\ Restored(l, s)
                         /\ SamePhoto(l, b) /\ l.link = {"loupe"}
  BY <1>1, LoupeJoins
<1>3. NextToLink(l, "navigator")
  BY <1>2 DEF NextToLink
<1>4. PICK n \in World : /\ Leads(ApplyTo("navigator"), l, n) /\ Joining(n)
                         /\ Restored(n, s) /\ SamePhoto(n, l)
                         /\ n.link = l.link \union {"navigator"}
  BY <1>2, <1>3, JoinNext
<1>5. NextToLink(n, "view")
  BY <1>2, <1>4 DEF NextToLink
<1>6. PICK v \in World : /\ Leads(ApplyTo("view"), n, v) /\ Joining(v)
                         /\ Restored(v, s) /\ SamePhoto(v, n)
                         /\ v.link = n.link \union {"view"}
  BY <1>4, <1>5, JoinNext
<1>7. v.link = Chains
  BY <1>2, <1>4, <1>6 DEF Chains
<1>8. PICK e \in World : /\ Leads(<<Call("toolbox_set_photo")>>, v, e)
                         /\ InStep(e) /\ Restored(e, s) /\ SamePhoto(e, v)
  BY <1>6, <1>7, ToolboxJoins
<1>9. Leads(a \o <<Call("neutral"), Call("remember"), Call("auto_if_preset")>>, w, b)
  BY <1>1, LeadsOn
<1>10. Leads(a \o <<Call("neutral"), Call("remember"), Call("auto_if_preset")>>
               \o ApplyTo("loupe"), w, l)
  BY <1>2, <1>9, LeadsOn
<1>11. Leads(a \o <<Call("neutral"), Call("remember"), Call("auto_if_preset")>>
               \o ApplyTo("loupe") \o ApplyTo("navigator"), w, n)
  BY <1>4, <1>10, LeadsOn
<1>12. Leads(a \o <<Call("neutral"), Call("remember"), Call("auto_if_preset")>>
               \o ApplyTo("loupe") \o ApplyTo("navigator") \o ApplyTo("view"), w, v)
  BY <1>6, <1>11, LeadsOn
<1>13. Leads(a \o <<Call("neutral"), Call("remember"), Call("auto_if_preset")>>
               \o ApplyTo("loupe") \o ApplyTo("navigator") \o ApplyTo("view")
               \o <<Call("toolbox_set_photo")>>, w, e)
  BY <1>8, <1>12, LeadsOn
<1>14. SameFile(e, x)
  BY <1>1, <1>2, <1>4, <1>6, <1>8 DEF SameFile, SamePhoto
<1> QED
  BY <1>8, <1>13, <1>14

\* What is in the buffer suits a file of the kind n.
Suits(b, n) ==
    /\ n = "jpeg" => Matched(b.settings, b.profile) /\ Waiting(b.settings, b.profile)
    /\ n # "jpeg" => b.profile # None /\ ~b.settings.recalc

LEMMA OpeningSettles ==
  ASSUME NEW e \in World, NEW s, InStep(e), Restored(e, s), NEW b, Suits(b, e.kind),
         NEW g, g.exposure = s.exposure,
         g.temp = IF e.kind = "jpeg" THEN DefaultTemp
                  ELSE PresetTemp(e.kind, e.profile, s.preset, s.temp),
         NEW k, NEW old, AsBefore(e, old)
  PROVE  SettledOn(e, b, g, k, old)
<1>1. e.set.exposure = g.exposure /\ e.set.temp = g.temp /\ ~e.set.recalc
  BY DEF Restored
<1>2. ASSUME e.kind = "jpeg" PROVE EmbeddedSettled(e, b)
  <2>1. e.profile = None /\ OpenedWell(e)
    BY <1>2 DEF Restored
  <2> QED
    BY <1>1, <1>2, <2>1 DEF EmbeddedSettled, Matched, Waiting, Suits, OpenedWell
<1>3. ASSUME e.kind # "jpeg" PROVE RawSettled(e, b)
  <2>1. e.profile # None /\ OpenedWell(e) /\ PresetKept(e)
    BY <1>3 DEF Restored
  <2> QED
    BY <1>1, <1>3, <2>1 DEF RawSettled, Suits, OpenedWell
<1> QED
  BY <1>1, <1>2, <1>3 DEF SettledOn

LEMMA DefaultsType ==
  /\ Defaults \in SettingsType
  /\ Defaults.exposure = 0 /\ Defaults.warmth = "zero" /\ Defaults.temp = DefaultTemp
  /\ Defaults.switch = FALSE /\ Defaults.recalc = FALSE
BY TempAssumption DEF Defaults, SettingsType, Exposures, Warmths, Presets

\* A photo opened for the first time.
LEMMA FirstOpening ==
  ASSUME NEW w \in World, Deaf(w), w.set = Defaults,
         w.kind = "jpeg" <=> w.profile = None,
         NEW b, Suits(b, w.kind), NEW g, g.exposure = 0,
         g.temp = CameraTemp(w.kind, w.profile, DefaultTemp), NEW k
  PROVE  \E e \in World :
            /\ Leads(<<Call("default_preset")>>
                       \o <<Call("neutral"), Call("remember"), Call("auto_if_preset")>>
                       \o ApplyTo("loupe") \o ApplyTo("navigator") \o ApplyTo("view")
                       \o <<Call("toolbox_set_photo")>>, w, e)
            /\ SettledOn(e, b, g, k, None)
<1>1. PICK x : x = Defaulted(w)
  OBVIOUS
<1>2. PICK s : s = [Defaults EXCEPT !.preset = "camera"]
  OBVIOUS
<1>3. /\ x \in World /\ x.set = [w.set EXCEPT !.preset = "camera"]
      /\ x.kind = w.kind /\ x.commit = w.commit /\ x.link = w.link
      /\ x.follows = w.follows /\ x.mute = w.mute /\ x.profile = w.profile
  BY <1>1, DefaultedIs
<1>4. /\ s.exposure = 0 /\ s.warmth = "zero" /\ s.temp = DefaultTemp
      /\ s.preset = "camera" /\ s.recalc = FALSE
  BY <1>2 DEF Defaults
<1>5. x.set = s /\ Deaf(x)
  BY <1>2, <1>3 DEF Deaf
<1>6. Primed(x, s)
  BY <1>3, <1>4, <1>5 DEF Primed
<1>7. Leads(<<Call("default_preset")>>, w, x)
  BY <1>1, LeadDefault
<1>8. PICK e \in World :
         /\ Leads(<<Call("default_preset")>>
                    \o <<Call("neutral"), Call("remember"), Call("auto_if_preset")>>
                    \o ApplyTo("loupe") \o ApplyTo("navigator") \o ApplyTo("view")
                    \o <<Call("toolbox_set_photo")>>, w, e)
         /\ InStep(e) /\ Restored(e, s) /\ SameFile(e, x)
  BY <1>6, <1>7, Opening
<1>9. e.kind = w.kind /\ e.profile = w.profile
  BY <1>3, <1>8 DEF SameFile
<1>10. g.temp = IF e.kind = "jpeg" THEN DefaultTemp
                ELSE PresetTemp(e.kind, e.profile, s.preset, s.temp)
  BY <1>4, <1>9 DEF PresetTemp, CameraTemp
<1>11. AsBefore(e, None)
  BY DEF AsBefore
<1>12. SettledOn(e, b, g, k, None)
  BY <1>4, <1>8, <1>9, <1>10, <1>11, OpeningSettles
<1> QED
  BY <1>8, <1>12

\* A photo closed, with new settings that nobody follows.
Closed(w) ==
    [w EXCEPT !.set = Defaults, !.link = {}, !.follows = FALSE, !.unseen = FALSE,
              !.exposure = {}, !.wb = {}]

LEMMA ClosedIs ==
  ASSUME NEW w \in World
  PROVE  /\ Closed(w) \in World /\ Closed(w).set = Defaults /\ Closed(w).link = {}
         /\ Closed(w).follows = FALSE /\ Closed(w).unseen = FALSE
         /\ Closed(w).exposure = {} /\ Closed(w).wb = {}
         /\ Closed(w).kind = w.kind /\ Closed(w).todo = w.todo
         /\ Closed(w).commit = w.commit /\ Closed(w).mute = w.mute
         /\ Closed(w).prof = w.prof /\ Closed(w).profile = w.profile
         /\ Closed(w).choice = w.choice /\ Closed(w).switch = w.switch
         /\ Closed(w).opened = w.opened
<1>1. Defaults \in SettingsType /\ {} \in Links /\ FALSE \in BOOLEAN
  BY DefaultsType DEF Links
<1> HIDE DEF Defaults
<1> QED
  BY <1>1 DEF Closed, World

\* What the sidecar keeps of the settings s.
InSidecar(s) == [Defaults EXCEPT !.exposure = s.exposure, !.temp = s.temp,
                              !.preset = s.preset, !.switch = s.switch]

LEMMA SidecarIs ==
  ASSUME NEW s \in SettingsType, NEW r, r = InSidecar(s)
  PROVE  /\ r \in SettingsType /\ r.exposure = s.exposure /\ r.warmth = "zero"
         /\ r.temp = s.temp /\ r.preset = s.preset /\ r.switch = s.switch
         /\ r.recalc = FALSE
BY DEF InSidecar, Defaults, SettingsType, Warmths

LEMMA DeafCopy ==
  ASSUME NEW v \in World, Deaf(v), NEW s \in SettingsType
  PROVE  /\ AbleCopy(v, s, AllBits) /\ AfterCopy(v, s, AllBits) \in World
         /\ Framed(AfterCopy(v, s, AllBits), v) /\ AfterCopy(v, s, AllBits).set = s
<1>1. PICK o, bits : o = Overwritten(v, s) /\ bits = BitsOf(v.set, s)
  OBVIOUS
<1>2. v.set \in SettingsType
  BY WorldHas
<1>3. CopiedOver(v.set, s, AllBits) = s
  BY <1>2, CopiedAll
<1>4. o \in World /\ Framed(o, v) /\ o.set = s
  BY <1>1, OverwrittenIs
<1>5. bits \in SUBSET AllBits
  BY <1>1 DEF BitsOf, AllBits
<1>6. ~o.follows /\ o.link = {}
  BY <1>4 DEF Framed, Placed, Deaf
<1>7. AbleEmit(o, bits) /\ AfterEmit(o, bits) = o
  BY <1>4, <1>5, <1>6, NobodyHears
<1>8. AbleCopy(v, s, AllBits) /\ AfterCopy(v, s, AllBits) = o
  BY <1>1, <1>3, <1>7 DEF AbleCopy, AfterCopy
<1> QED
  BY <1>4, <1>8

LEMMA SidecarPrimes ==
  ASSUME NEW v \in World, Deaf(v), v.kind # "jpeg" => v.profile # None,
         NEW s \in SettingsType, s.warmth = "zero", s.recalc = FALSE
  PROVE  \E x \in World :
            /\ Leads(<<CopyOf(s, AllBits), Call("camera_if_preset")>>, v, x)
            /\ Primed(x, s) /\ SamePhoto(x, v)
<1>1. PICK y, x : y = AfterCopy(v, s, AllBits) /\ x = CameraIf(y)
  OBVIOUS
<1>2. AbleCopy(v, s, AllBits) /\ y \in World /\ Framed(y, v) /\ y.set = s
  BY <1>1, DeafCopy
<1>3. Deaf(y) /\ y.kind = v.kind /\ y.profile = v.profile
  BY <1>2 DEF Framed, Placed, Deaf
<1>4. AbleCameraIf(y) /\ CameraWaits(x, y)
  BY <1>1, <1>2, <1>3, DeafCameraIf
<1>5. /\ x \in World /\ Deaf(x) /\ x.kind = v.kind /\ x.profile = v.profile
      /\ x.set.exposure = s.exposure /\ x.set.switch = s.switch
      /\ x.set.preset = s.preset
  BY <1>2, <1>3, <1>4 DEF CameraWaits, Placed
<1>6. /\ x.kind = "jpeg" => x.set.warmth = "zero"
      /\ x.kind # "jpeg" => x.set.temp = s.temp
      /\ x.set.recalc => /\ x.kind = "raw" /\ x.set.warmth = "camera"
                         /\ x.set.preset = "camera"
  <2>1. CASE y.set.preset = "camera" /\ y.kind = "raw"
    BY <1>2, <1>3, <1>4, <1>5, <2>1 DEF CameraWaits
  <2>2. CASE y.set.preset = "camera" /\ y.kind # "raw" /\ y.profile = None
    BY <1>2, <1>3, <1>4, <1>5, <2>2 DEF CameraWaits
  <2>3. CASE y.set.preset # "camera" \/ (y.kind # "raw" /\ y.profile # None)
    <3>1. x.set = s
      BY <1>2, <1>4, <2>3 DEF CameraWaits
    <3> QED
      BY <3>1
  <2> QED
    BY <2>1, <2>2, <2>3
<1>7. Primed(x, s)
  BY <1>5, <1>6 DEF Primed
<1>8. AllBits \in SUBSET AllBits
  OBVIOUS
<1>9. Leads(<<CopyOf(s, AllBits)>>, v, y)
  BY <1>1, <1>2, <1>8, LeadCopy
<1>10. Leads(<<Call("camera_if_preset")>>, y, x)
  BY <1>1, <1>2, <1>4, LeadCameraIf
<1> QED
  BY <1>5, <1>7, <1>9, <1>10, LeadsTwo DEF SamePhoto

\* A preset that was kept is worth the temperature the photo was closed with.
LEMMA KeptAsClosed ==
  ASSUME NEW w \in World, w.kind # "jpeg", PresetKept(w), w.profile # None,
         w.set.preset = None \/ w.choice = w.profile
  PROVE  PresetTemp(w.kind, w.profile, w.set.preset, w.set.temp) = w.set.temp
<1>1. w.set.preset \in Presets
  BY WorldHas, SettingsHas
<1>2. CASE w.set.preset = None
  BY <1>2, NonePreset DEF PresetTemp
<1>3. CASE w.set.preset = "auto" /\ w.choice = w.profile
  BY <1>3 DEF PresetTemp, PresetKept, Asked
<1>4. CASE w.set.preset = "camera" /\ w.choice = w.profile
  BY <1>4 DEF PresetTemp, CameraTemp, PresetKept, Asked
<1> QED
  BY <1>1, <1>2, <1>3, <1>4 DEF Presets

LEMMA ReopenEnds ==
  ASSUME NEW w \in World, NEW b, NEW g, NEW l, NEW f, SettledOn(w, b, g, l, f),
         NEW old, old.settings = w.set, old.choice = w.choice,
         NEW h, h.exposure = g.exposure,
         h.temp = IF w.kind = "jpeg" THEN DefaultTemp
                  ELSE PresetTemp(w.kind, w.profile, w.set.preset, w.set.temp),
         NEW k, NEW s, s = InSidecar(w.set)
  PROVE  \E e \in World :
            /\ Leads(<<CopyOf(s, AllBits), Call("camera_if_preset")>>
                       \o <<Call("neutral"), Call("remember"), Call("auto_if_preset")>>
                       \o ApplyTo("loupe") \o ApplyTo("navigator") \o ApplyTo("view")
                       \o <<Call("toolbox_set_photo")>>, Closed(w), e)
            /\ SettledOn(e, b, h, k, old)
<1>1. PICK v : v = Closed(w)
  OBVIOUS
<1>2. InStep(w) /\ w.set.exposure = g.exposure
      /\ (w.kind = "jpeg" => EmbeddedSettled(w, b))
      /\ (w.kind # "jpeg" => RawSettled(w, b))
  BY DEF SettledOn
<1>3. /\ v \in World /\ v.link = {} /\ v.follows = FALSE /\ v.kind = w.kind
      /\ v.commit = w.commit /\ v.mute = w.mute /\ v.profile = w.profile
  BY <1>1, ClosedIs
<1>4. Deaf(v)
  BY <1>2, <1>3 DEF Deaf, InStep
<1>5. /\ s \in SettingsType /\ s.exposure = w.set.exposure /\ s.warmth = "zero"
      /\ s.temp = w.set.temp /\ s.preset = w.set.preset /\ s.switch = w.set.switch
      /\ s.recalc = FALSE
  BY SidecarIs, WorldHas
<1>6. v.kind # "jpeg" => v.profile # None
  BY <1>2, <1>3 DEF RawSettled
<1>7. PICK x \in World :
         /\ Leads(<<CopyOf(s, AllBits), Call("camera_if_preset")>>, v, x)
         /\ Primed(x, s) /\ SamePhoto(x, v)
  BY <1>3, <1>4, <1>5, <1>6, SidecarPrimes
<1>8. PICK e \in World :
         /\ Leads(<<CopyOf(s, AllBits), Call("camera_if_preset")>>
                    \o <<Call("neutral"), Call("remember"), Call("auto_if_preset")>>
                    \o ApplyTo("loupe") \o ApplyTo("navigator") \o ApplyTo("view")
                    \o <<Call("toolbox_set_photo")>>, v, e)
         /\ InStep(e) /\ Restored(e, s) /\ SameFile(e, x)
  BY <1>7, Opening
<1>9. e.kind = w.kind /\ (w.kind # "jpeg" => e.profile = w.profile)
  BY <1>3, <1>7, <1>8 DEF SameFile, SamePhoto
<1>10. Suits(b, e.kind)
  BY <1>2, <1>9 DEF Suits, EmbeddedSettled, RawSettled
<1>11. h.temp = IF e.kind = "jpeg" THEN DefaultTemp
                ELSE PresetTemp(e.kind, e.profile, s.preset, s.temp)
  BY <1>5, <1>9
<1>12. AsBefore(e, old)
  <2>1. SUFFICES ASSUME e.kind # "jpeg",
                        old.settings.preset = None \/ old.choice = e.profile
                 PROVE  /\ e.set.exposure = old.settings.exposure
                        /\ e.set.temp = old.settings.temp
                        /\ e.set.preset = old.settings.preset
                        /\ e.set.switch = old.settings.switch
    BY DEF AsBefore
  <2>2. w.kind # "jpeg" /\ PresetKept(w) /\ w.profile # None
        /\ (w.set.preset = None \/ w.choice = w.profile)
    BY <1>2, <1>9, <2>1 DEF RawSettled
  <2>3. PresetTemp(w.kind, w.profile, w.set.preset, w.set.temp) = w.set.temp
    BY <2>2, KeptAsClosed
  <2>4. /\ e.set.exposure = s.exposure /\ e.set.switch = s.switch
        /\ e.set.temp = PresetTemp(e.kind, e.profile, s.preset, s.temp)
        /\ e.set.temp = s.temp => e.set.preset = s.preset
    BY <1>8, <2>1 DEF Restored
  <2>5. e.set.temp = s.temp
    BY <1>5, <1>9, <2>2, <2>3, <2>4
  <2> QED
    BY <1>5, <2>4, <2>5
<1>13. h.exposure = s.exposure
  BY <1>2, <1>5
<1>14. SettledOn(e, b, h, k, old)
  BY <1>8, <1>10, <1>11, <1>12, <1>13, OpeningSettles
<1> QED
  BY <1>1, <1>8, <1>14

-----------------------------------------------------------------------------
(* The user.                                                               *)

LEMMA Resting ==
  ASSUME IInv, Quiet
  PROVE  \E w \in World : Holds(w) /\ SettledOn(w, buffer, want, late, before)
<1>1. PICK w, e \in World : Holds(w) /\ Leads(agenda, w, e) /\ Settled(e)
  BY DEF IInv
<1>2. w = e
  BY <1>1, LeadsNowhere DEF Quiet
<1> QED
  BY <1>1, <1>2 DEF Settled

LEMMA UserEnds ==
  ASSUME RestType', NEW u \in World, NEW e \in World, NEW calls, Holds(u)',
         agenda' = calls, Leads(calls, u, e), NEW b, NEW h, NEW k, NEW f,
         b = buffer', h = want', k = late', f = before', SettledOn(e, b, h, k, f)
  PROVE  IInv'
<1>1. Leads(agenda', u, e)
  OBVIOUS
<1>2. SettledOn(e, buffer', want', late', before')
  OBVIOUS
<1>3. Settled(e)'
  BY <1>2 DEF Settled
<1> QED
  BY <1>1, <1>3 DEF IInv

\* The types of what the user's step changes.
LEMMA UserTypes ==
  ASSUME RestType, ops < MaxOps, ops' = ops + 1, late' \in BOOLEAN, chain' = chain,
         tool' \in [exposure : Exposures, temp : Temps, switch : BOOLEAN],
         buffer' \in [settings : SettingsType, profile : Choices],
         want' \in [exposure : Exposures, temp : Temps]
  PROVE  RestType'
BY BoundAssumption DEF RestType

LEMMA StillThere ==
  ASSUME NEW w \in World, Holds(w), SettledOn(w, buffer, want, late, before)
  PROVE  /\ profile \in Choices /\ settings \in SettingsType /\ kind \in Kinds
         /\ opened \in SettingsType /\ choice \in Choices
         /\ tool.exposure = settings.exposure /\ tool.temp = settings.temp
<1>1. InStep(w) /\ "toolbox" \in Holders
  BY DEF SettledOn, Holders
<1> QED
  BY <1>1, WorldHas, HoldsIs DEF InStep, Holds

\* The world w, but for what the toolbox is known to have heard.
Behind(w, x, b) == Known(w, w.set, w.todo, w.choice, x, b)

LEMMA BehindIs ==
  ASSUME NEW w \in World, NEW x \in SUBSET Holders, NEW b \in SUBSET Holders
  PROVE  /\ Ahead(Behind(w, x, b), w) /\ Behind(w, x, b).todo = w.todo
         /\ Behind(w, x, b).exposure = x /\ Behind(w, x, b).wb = b
<1>1. w.set \in SettingsType /\ w.todo \in SUBSET AllBits /\ w.choice \in Choices
  BY WorldHas
<1> QED
  BY <1>1, KnownIs DEF Behind, Ahead

LEMMA DoMoveExposure ==
  ASSUME IInv, NEW v \in Exposures, MoveExposure(v)
  PROVE  IInv'
<1>1. PICK w \in World : Holds(w) /\ SettledOn(w, buffer, want, late, before)
  BY Resting DEF MoveExposure, Edit, User
<1>2. PICK b, g, l, f, h, k : /\ b = buffer /\ g = want /\ l = late /\ f = before
                              /\ h = want' /\ k = late'
  OBVIOUS
<1>3. SettledOn(w, b, g, l, f)
  BY <1>1, <1>2
<1>4. PICK u : u = Behind(w, w.exposure \ {"toolbox"}, w.wb)
  OBVIOUS
<1>5. w.exposure \in SUBSET Holders /\ w.wb \in SUBSET Holders
  BY WorldHas
<1>6. /\ Ahead(u, w) /\ u.todo = w.todo
      /\ u.exposure = w.exposure \ {"toolbox"} /\ u.wb = w.wb
  BY <1>4, <1>5, BehindIs
<1>7. /\ v # tool.exposure /\ agenda' = <<Set("exposure", v)>>
      /\ tool' = [tool EXCEPT !.exposure = v] /\ want' = [want EXCEPT !.exposure = v]
      /\ late' = (late \/ settings.recalc) /\ before' = None
      /\ ops < MaxOps /\ ops' = ops + 1
      /\ UNCHANGED <<kind, commit, todo, mute, opened, settings, follows, chain,
                     linked, unseen, choice, profile, buffer>>
  BY DEF MoveExposure, Edit, User
<1>8. RestType
  BY DEF IInv
<1>9. settings \in SettingsType /\ tool.exposure = settings.exposure
  BY <1>1, StillThere
<1>10. RestType'
  <2>1. late' \in BOOLEAN
    BY <1>7, <1>8, <1>9, SettingsHas DEF RestType
  <2>2. tool' \in [exposure : Exposures, temp : Temps, switch : BOOLEAN]
    BY <1>7, <1>8 DEF RestType
  <2>3. want' \in [exposure : Exposures, temp : Temps]
    BY <1>7, <1>8 DEF RestType
  <2> QED
    BY <1>7, <1>8, <2>1, <2>2, <2>3, UserTypes DEF RestType
<1>11. Holds(u)'
  <2>1. tool'.temp = tool.temp /\ tool'.switch = tool.switch
    BY <1>7, <1>8 DEF RestType
  <2> QED
    BY <1>1, <1>6, <1>7, <2>1 DEF Holds, Ahead, Framed, Placed
<1>12. h.exposure = v /\ h.temp = g.temp
  BY <1>2, <1>7, <1>8 DEF RestType
<1>13. v # w.set.exposure
  BY <1>1, <1>7, <1>9, HoldsIs
<1>14. (l => k) /\ l \in BOOLEAN /\ k \in BOOLEAN
  BY <1>2, <1>7, <1>8, <1>10 DEF RestType
<1>15. PICK e \in World : /\ Leads(<<Set("exposure", v)>>, u, e)
                          /\ SettledOn(e, b, h, k, None)
  BY <1>3, <1>6, <1>12, <1>13, <1>14, ExposureEnds
<1> QED
  BY <1>2, <1>6, <1>7, <1>10, <1>11, <1>15, UserEnds DEF Ahead

\* What is asked for is a temperature.
LEMMA AskedTypes ==
  ASSUME NEW p \in Choices, NEW q, NEW t \in Temps
  PROVE  /\ AskedCamera(p, t) \in Temps /\ AskedCamera(p, t) = CameraTemp(kind, p, t)
         /\ AskedPreset(p, q, t) \in Temps
         /\ AskedPreset(p, q, t) = PresetTemp(kind, p, q, t)
<1>1. Asked(p, "camera") \in Temps /\ Asked(p, "auto") \in Temps /\ DefaultTemp \in Temps
  BY AskedType, TempAssumption DEF Warmths
<1>2. AskedCamera(p, t) \in Temps
  BY <1>1 DEF AskedCamera
<1>3. AskedCamera(p, t) = CameraTemp(kind, p, t)
  BY DEF AskedCamera, CameraTemp
<1> QED
  BY <1>1, <1>2, <1>3 DEF AskedPreset, PresetTemp

LEMMA DoAutoWb ==
  ASSUME IInv, AutoWb
  PROVE  IInv'
<1>1. PICK w \in World : Holds(w) /\ SettledOn(w, buffer, want, late, before)
  BY Resting DEF AutoWb, Edit, User
<1>2. PICK b, g, l, f, h, k : /\ b = buffer /\ g = want /\ l = late /\ f = before
                              /\ h = want' /\ k = late'
  OBVIOUS
<1>3. SettledOn(w, b, g, l, f)
  BY <1>1, <1>2
<1>4. /\ agenda' = SetWb("auto", "auto")
      /\ want' = [want EXCEPT !.temp = Asked(profile, "auto")]
      /\ late' = (late \/ settings.recalc) /\ before' = None
      /\ ops < MaxOps /\ ops' = ops + 1
      /\ UNCHANGED <<kind, commit, todo, mute, opened, settings, follows, chain,
                     linked, unseen, tool, choice, profile, buffer>>
  BY DEF AutoWb, Edit, User, WantTemp
<1>5. RestType
  BY DEF IInv
<1>6. settings \in SettingsType /\ profile \in Choices
  BY <1>1, StillThere
<1>7. h.exposure = g.exposure /\ h.temp = Asked(w.profile, "auto")
  BY <1>1, <1>2, <1>4, <1>5, HoldsIs DEF RestType
<1>8. RestType'
  <2>1. late' \in BOOLEAN
    BY <1>4, <1>5, <1>6, SettingsHas DEF RestType
  <2>2. want' \in [exposure : Exposures, temp : Temps]
    BY <1>4, <1>5, <1>6, AskedType DEF RestType, Warmths
  <2> QED
    BY <1>4, <1>5, <2>1, <2>2, UserTypes DEF RestType
<1>9. Holds(w)'
  BY <1>1, <1>4, HoldsStill DEF held
<1>10. /\ l => k
       /\ w.set.recalc => k
       /\ l \in BOOLEAN /\ k \in BOOLEAN
  BY <1>1, <1>2, <1>4, <1>5, <1>8, HoldsIs DEF RestType
<1>11. PICK e \in World : Leads(SetWb("auto", "auto"), w, e) /\ SettledOn(e, b, h, k, None)
  <2>1. "auto" \in Warmths /\ "auto" # "neutral" /\ "auto" \in Presets
    BY DEF Warmths, Presets
  <2> QED
    BY <1>3, <1>7, <1>10, <2>1, BalanceEnds
<1> QED
  BY <1>2, <1>4, <1>8, <1>9, <1>11, UserEnds

LEMMA DoPickWb ==
  ASSUME IInv, PickWb
  PROVE  IInv'
<1>1. PICK w \in World : Holds(w) /\ SettledOn(w, buffer, want, late, before)
  BY Resting DEF PickWb, Edit, User
<1>2. PICK b, g, l, f, h, k : /\ b = buffer /\ g = want /\ l = late /\ f = before
                              /\ h = want' /\ k = late'
  OBVIOUS
<1>3. SettledOn(w, b, g, l, f)
  BY <1>1, <1>2
<1>4. /\ agenda' = SetWb("picked", None) \o <<Tell("photo", {"wb"})>>
      /\ want' = [want EXCEPT !.temp = Asked(profile, "picked")]
      /\ late' = (late \/ settings.recalc) /\ before' = None
      /\ ops < MaxOps /\ ops' = ops + 1
      /\ UNCHANGED <<kind, commit, todo, mute, opened, settings, follows, chain,
                     linked, unseen, tool, choice, profile, buffer>>
  BY DEF PickWb, Edit, User, WantTemp
<1>5. RestType
  BY DEF IInv
<1>6. settings \in SettingsType /\ profile \in Choices
  BY <1>1, StillThere
<1>7. h.exposure = g.exposure /\ h.temp = Asked(w.profile, "picked")
  BY <1>1, <1>2, <1>4, <1>5, HoldsIs DEF RestType
<1>8. RestType'
  <2>1. late' \in BOOLEAN
    BY <1>4, <1>5, <1>6, SettingsHas DEF RestType
  <2>2. want' \in [exposure : Exposures, temp : Temps]
    BY <1>4, <1>5, <1>6, AskedType DEF RestType, Warmths
  <2> QED
    BY <1>4, <1>5, <2>1, <2>2, UserTypes DEF RestType
<1>9. Holds(w)'
  BY <1>1, <1>4, HoldsStill DEF held
<1>10. /\ l => k
       /\ w.set.recalc => k
       /\ l \in BOOLEAN /\ k \in BOOLEAN
  BY <1>1, <1>2, <1>4, <1>5, <1>8, HoldsIs DEF RestType
<1>11. PICK e \in World : /\ Leads(SetWb("picked", None), w, e) /\ ~e.set.recalc
                          /\ SettledOn(e, b, h, k, None)
  <2>1. "picked" \in Warmths /\ "picked" # "neutral" /\ None \in Presets
    BY DEF Warmths, Presets
  <2> QED
    BY <1>3, <1>7, <1>10, <2>1, BalanceEnds
<1>12. Leads(SetWb("picked", None) \o <<Tell("photo", {"wb"})>>, w, e)
  <2>1. Leads(<<Tell("photo", {"wb"})>>, e, e)
    <3>1. InStep(e) /\ {"wb"} \in SUBSET AllBits
      BY <1>11 DEF SettledOn, AllBits
    <3> QED
      BY <1>11, <3>1, PhotoEnds
  <2> QED
    BY <1>11, <2>1, LeadsOn
<1> QED
  BY <1>2, <1>4, <1>8, <1>9, <1>11, <1>12, UserEnds

LEMMA DoCameraWb ==
  ASSUME IInv, CameraWb
  PROVE  IInv'
<1>1. PICK w \in World : Holds(w) /\ SettledOn(w, buffer, want, late, before)
  BY Resting DEF CameraWb, Edit, User
<1>2. PICK b, g, l, f, h, k : /\ b = buffer /\ g = want /\ l = late /\ f = before
                              /\ h = want' /\ k = late'
  OBVIOUS
<1>3. SettledOn(w, b, g, l, f)
  BY <1>1, <1>2
<1>4. /\ agenda' = <<Call("camera")>>
      /\ want' = [want EXCEPT !.temp = AskedCamera(profile, want.temp)]
      /\ late' = (late \/ settings.recalc) /\ before' = None
      /\ ops < MaxOps /\ ops' = ops + 1
      /\ UNCHANGED <<kind, commit, todo, mute, opened, settings, follows, chain,
                     linked, unseen, tool, choice, profile, buffer>>
  BY DEF CameraWb, Edit, User, WantTemp
<1>5. RestType
  BY DEF IInv
<1>6. settings \in SettingsType /\ profile \in Choices
  BY <1>1, StillThere
<1>7. h.exposure = g.exposure /\ h.temp = CameraTemp(w.kind, w.profile, g.temp)
  <2>1. want.temp \in Temps
    BY <1>5 DEF RestType
  <2>2. AskedCamera(profile, want.temp) = CameraTemp(kind, profile, want.temp)
    BY <1>6, <2>1, AskedTypes
  <2> QED
    BY <1>1, <1>2, <1>4, <1>5, <2>2, HoldsIs DEF RestType
<1>8. RestType'
  <2>1. late' \in BOOLEAN
    BY <1>4, <1>5, <1>6, SettingsHas DEF RestType
  <2>2. want' \in [exposure : Exposures, temp : Temps]
    <3>1. want.temp \in Temps
      BY <1>5 DEF RestType
    <3>2. AskedCamera(profile, want.temp) \in Temps
      BY <1>6, <3>1, AskedTypes
    <3> QED
      BY <1>4, <1>5, <3>2 DEF RestType
  <2> QED
    BY <1>4, <1>5, <2>1, <2>2, UserTypes DEF RestType
<1>9. Holds(w)'
  BY <1>1, <1>4, HoldsStill DEF held
<1>10. /\ l => k
       /\ w.set.recalc => k
       /\ l \in BOOLEAN /\ k \in BOOLEAN
  BY <1>1, <1>2, <1>4, <1>5, <1>8, HoldsIs DEF RestType
<1>11. PICK e \in World : Leads(<<Call("camera")>>, w, e) /\ SettledOn(e, b, h, k, None)
  BY <1>3, <1>7, <1>10, CameraEnds
<1> QED
  BY <1>2, <1>4, <1>8, <1>9, <1>11, UserEnds

LEMMA DoReset ==
  ASSUME IInv, ResetSettings
  PROVE  IInv'
<1>1. PICK w \in World : Holds(w) /\ SettledOn(w, buffer, want, late, before)
  BY Resting DEF ResetSettings, Edit, User
<1>2. PICK b, g, l, f, h, k : /\ b = buffer /\ g = want /\ l = late /\ f = before
                              /\ h = want' /\ k = late'
  OBVIOUS
<1>3. SettledOn(w, b, g, l, f)
  BY <1>1, <1>2
<1>4. /\ agenda' = <<Call("start")>> \o Reset \o <<Call("camera"), Call("stop")>>
      /\ want' = [exposure |-> Defaults.exposure,
                  temp |-> AskedCamera(profile, DefaultTemp)]
      /\ late' = (late \/ settings.recalc) /\ before' = None
      /\ ops < MaxOps /\ ops' = ops + 1
      /\ UNCHANGED <<kind, commit, todo, mute, opened, settings, follows, chain,
                     linked, unseen, tool, choice, profile, buffer>>
  BY DEF ResetSettings, Edit, User
<1>5. RestType
  BY DEF IInv
<1>6. settings \in SettingsType /\ profile \in Choices
  BY <1>1, StillThere
<1>7. h.exposure = Defaults.exposure /\ h.temp = CameraTemp(w.kind, w.profile, DefaultTemp)
  <2>1. AskedCamera(profile, DefaultTemp) = CameraTemp(kind, profile, DefaultTemp)
    BY <1>6, TempAssumption, AskedTypes
  <2> QED
    BY <1>1, <1>2, <1>4, <2>1, HoldsIs
<1>8. RestType'
  <2>1. late' \in BOOLEAN
    BY <1>4, <1>5, <1>6, SettingsHas DEF RestType
  <2>2. want' \in [exposure : Exposures, temp : Temps]
    <3>1. AskedCamera(profile, DefaultTemp) \in Temps
      BY <1>6, TempAssumption, AskedTypes
    <3>2. Defaults.exposure \in Exposures
      BY DefaultsType DEF Exposures
    <3> QED
      BY <1>4, <3>1, <3>2
  <2> QED
    BY <1>4, <1>5, <2>1, <2>2, UserTypes DEF RestType
<1>9. Holds(w)'
  BY <1>1, <1>4, HoldsStill DEF held
<1>10. /\ l => k
       /\ w.set.recalc => k
       /\ l \in BOOLEAN /\ k \in BOOLEAN
  BY <1>1, <1>2, <1>4, <1>5, <1>8, HoldsIs DEF RestType
<1>11. PICK e \in World :
          /\ Leads(<<Call("start")>> \o Reset \o <<Call("camera"), Call("stop")>>, w, e)
          /\ SettledOn(e, b, h, k, None)
  <2>1. w.set.recalc \in BOOLEAN
    BY WorldHas, SettingsHas
  <2> QED
    BY <1>3, <1>7, <1>10, <2>1, ResetEnds
<1> QED
  BY <1>2, <1>4, <1>8, <1>9, <1>11, UserEnds

LEMMA DoShowLoupe ==
  ASSUME IInv, ShowLoupe
  PROVE  IInv'
<1>1. PICK w \in World : Holds(w) /\ SettledOn(w, buffer, want, late, before)
  BY Resting DEF ShowLoupe, Edit, User
<1>2. PICK b, g, l, f, h, k : /\ b = buffer /\ g = want /\ l = late /\ f = before
                              /\ h = want' /\ k = late'
  OBVIOUS
<1>3. SettledOn(w, b, g, l, f)
  BY <1>1, <1>2
<1>4. /\ agenda' = <<OnChain("profile", "loupe"), Read("loupe", AllBits)>>
      /\ want' = want
      /\ late' = (late \/ settings.recalc) /\ before' = None
      /\ ops < MaxOps /\ ops' = ops + 1
      /\ UNCHANGED <<kind, commit, todo, mute, opened, settings, follows, chain,
                     linked, unseen, tool, choice, profile, buffer>>
  BY DEF ShowLoupe, Edit, User
<1>5. RestType
  BY DEF IInv
<1>6. settings \in SettingsType /\ profile \in Choices
  BY <1>1, StillThere
<1>7. h = g
  BY <1>2, <1>4
<1>8. RestType'
  <2>1. late' \in BOOLEAN
    BY <1>4, <1>5, <1>6, SettingsHas DEF RestType
  <2>2. want' \in [exposure : Exposures, temp : Temps]
    BY <1>4, <1>5 DEF RestType
  <2> QED
    BY <1>4, <1>5, <2>1, <2>2, UserTypes DEF RestType
<1>9. Holds(w)'
  BY <1>1, <1>4, HoldsStill DEF held
<1>10. /\ l => k
       /\ w.set.recalc => k
       /\ l \in BOOLEAN /\ k \in BOOLEAN
  BY <1>1, <1>2, <1>4, <1>5, <1>8, HoldsIs DEF RestType
<1>11. PICK e \in World :
          /\ Leads(<<OnChain("profile", "loupe"), Read("loupe", AllBits)>>, w, e)
          /\ SettledOn(e, b, h, k, None)
  BY <1>3, <1>7, <1>10, LoupeEnds
<1> QED
  BY <1>2, <1>4, <1>8, <1>9, <1>11, UserEnds

LEMMA DoMoveTemp ==
  ASSUME IInv, NEW t \in Temps, MoveTemp(t)
  PROVE  IInv'
<1>1. PICK w \in World : Holds(w) /\ SettledOn(w, buffer, want, late, before)
  BY Resting DEF MoveTemp, Edit, User
<1>2. PICK b, g, l, f, h, k : /\ b = buffer /\ g = want /\ l = late /\ f = before
                              /\ h = want' /\ k = late'
  OBVIOUS
<1>3. SettledOn(w, b, g, l, f)
  BY <1>1, <1>2
<1>4. PICK u : u = Behind(w, w.exposure, w.wb \ {"toolbox"})
  OBVIOUS
<1>5. w.exposure \in SUBSET Holders /\ w.wb \in SUBSET Holders
  BY WorldHas
<1>6. /\ Ahead(u, w) /\ u.todo = w.todo
      /\ u.exposure = w.exposure /\ u.wb = w.wb \ {"toolbox"}
  BY <1>4, <1>5, BehindIs
<1>7. /\ t # tool.temp /\ agenda' = <<Set("temp", t)>>
      /\ tool' = [tool EXCEPT !.temp = t] /\ want' = [want EXCEPT !.temp = t]
      /\ late' = (late \/ settings.recalc) /\ before' = None
      /\ ops < MaxOps /\ ops' = ops + 1
      /\ UNCHANGED <<kind, commit, todo, mute, opened, settings, follows, chain,
                     linked, unseen, choice, profile, buffer>>
  BY DEF MoveTemp, Edit, User, WantTemp
<1>8. RestType
  BY DEF IInv
<1>9. settings \in SettingsType /\ tool.temp = settings.temp
  BY <1>1, StillThere
<1>10. RestType'
  <2>1. late' \in BOOLEAN
    BY <1>7, <1>8, <1>9, SettingsHas DEF RestType
  <2>2. tool' \in [exposure : Exposures, temp : Temps, switch : BOOLEAN]
    BY <1>7, <1>8 DEF RestType
  <2>3. want' \in [exposure : Exposures, temp : Temps]
    BY <1>7, <1>8 DEF RestType
  <2> QED
    BY <1>7, <1>8, <2>1, <2>2, <2>3, UserTypes DEF RestType
<1>11. Holds(u)'
  <2>1. tool'.exposure = tool.exposure /\ tool'.switch = tool.switch
    BY <1>7, <1>8 DEF RestType
  <2> QED
    BY <1>1, <1>6, <1>7, <2>1 DEF Holds, Ahead, Framed, Placed
<1>12. h.temp = t /\ h.exposure = g.exposure
  BY <1>2, <1>7, <1>8 DEF RestType
<1>13. t # w.set.temp
  BY <1>1, <1>7, <1>9, HoldsIs
<1>14. /\ l => k
       /\ w.set.recalc => k
       /\ l \in BOOLEAN /\ k \in BOOLEAN
  BY <1>1, <1>2, <1>7, <1>8, <1>10, HoldsIs DEF RestType
<1>15. PICK e \in World : /\ Leads(<<Set("temp", t)>>, u, e)
                          /\ SettledOn(e, b, h, k, None)
  BY <1>3, <1>6, <1>12, <1>13, <1>14, TempEnds
<1> QED
  BY <1>2, <1>6, <1>7, <1>10, <1>11, <1>15, UserEnds DEF Ahead

\* The world w, with the switch of the toolbox as x.
Switched(w, x) == [w EXCEPT !.switch = x]

LEMMA SwitchedIs ==
  ASSUME NEW w \in World, NEW x \in BOOLEAN
  PROVE  /\ Switched(w, x) \in World /\ Framed(Switched(w, x), w)
         /\ Switched(w, x).set = w.set /\ Switched(w, x).todo = w.todo
         /\ Switched(w, x).choice = w.choice /\ Switched(w, x).switch = x
         /\ Switched(w, x).unseen = w.unseen
         /\ Switched(w, x).exposure = w.exposure /\ Switched(w, x).wb = w.wb
BY DEF Switched, World, Framed, Placed

LEMMA DoToggle ==
  ASSUME IInv, Toggle
  PROVE  IInv'
<1>1. PICK w \in World : Holds(w) /\ SettledOn(w, buffer, want, late, before)
  BY Resting DEF Toggle, Edit, User
<1>2. PICK b, g, l, f, h, k, x : /\ b = buffer /\ g = want /\ l = late /\ f = before
                                 /\ h = want' /\ k = late' /\ x = ~tool.switch
  OBVIOUS
<1>3. SettledOn(w, b, g, l, f)
  BY <1>1, <1>2
<1>4. /\ agenda' = <<Mute(TRUE), Set("switch", ~tool.switch), Mute(FALSE)>>
      /\ tool' = [tool EXCEPT !.switch = ~@] /\ want' = want
      /\ late' = (late \/ settings.recalc) /\ before' = None
      /\ ops < MaxOps /\ ops' = ops + 1
      /\ UNCHANGED <<kind, commit, todo, mute, opened, settings, follows, chain,
                     linked, unseen, choice, profile, buffer>>
  BY DEF Toggle, Edit, User
<1>5. RestType
  BY DEF IInv
<1>6. x \in BOOLEAN
  BY <1>2
<1>7. PICK u : u = Switched(w, x)
  OBVIOUS
<1>8. /\ u \in World /\ Framed(u, w) /\ u.set = w.set /\ u.todo = w.todo
      /\ u.choice = w.choice /\ u.switch = x /\ u.unseen = w.unseen
      /\ u.exposure = w.exposure /\ u.wb = w.wb
  BY <1>6, <1>7, SwitchedIs
<1>9. tool'.exposure = tool.exposure /\ tool'.temp = tool.temp
      /\ tool'.switch = (~tool.switch)
  BY <1>4, <1>5 DEF RestType
<1>10. RestType'
  <2>1. late' \in BOOLEAN
    BY <1>1, <1>4, <1>5, StillThere, SettingsHas DEF RestType
  <2>2. tool' \in [exposure : Exposures, temp : Temps, switch : BOOLEAN]
    BY <1>4, <1>5 DEF RestType
  <2> QED
    BY <1>4, <1>5, <2>1, <2>2, UserTypes DEF RestType
<1>11. Holds(u)'
  <2>1. u.switch = tool'.switch
    BY <1>2, <1>8, <1>9
  <2> QED
    BY <1>1, <1>4, <1>8, <1>9, <2>1 DEF Holds, Framed, Placed
<1>12. h = g /\ (l => k) /\ l \in BOOLEAN /\ k \in BOOLEAN
  BY <1>2, <1>4, <1>5, <1>10 DEF RestType
<1>13. PICK e \in World : Leads(Toggling(x), u, e) /\ SettledOn(e, b, g, k, None)
  <2>1. /\ Framed(u, w) /\ u.set = w.set /\ u.choice = w.choice
        /\ u.exposure = w.exposure /\ u.wb = w.wb
    BY <1>8
  <2>2. u.switch = x /\ u \in World
    BY <1>8
  <2> QED
    BY SMTT(60), <1>3, <1>12, <2>1, <2>2, SwitchEnds
<1>14. agenda' = Toggling(x)
  BY <1>2, <1>4 DEF Toggling
<1> QED
  BY <1>2, <1>4, <1>8, <1>10, <1>11, <1>12, <1>13, <1>14, UserEnds

\* The photo is given the profile p.
LEMMA ChosenHolds ==
  ASSUME NEW w \in World, Holds(w), NEW p \in Choices, profile' = p,
         UNCHANGED <<kind, commit, todo, mute, opened, settings, follows, chain,
                     linked, unseen, tool, choice>>
  PROVE  Chosen(w, p) \in World /\ Holds(Chosen(w, p))'
<1>1. PICK u : u = Chosen(w, p)
  OBVIOUS
<1>2. /\ u \in World /\ u.profile = p
      /\ u.kind = w.kind /\ u.set = w.set /\ u.todo = w.todo
      /\ u.commit = w.commit /\ u.exposure = w.exposure /\ u.wb = w.wb
      /\ u.link = w.link /\ u.follows = w.follows /\ u.mute = w.mute
      /\ u.prof = w.prof /\ u.choice = w.choice /\ u.switch = w.switch
      /\ u.unseen = w.unseen /\ u.opened = w.opened
  BY <1>1, ChosenIs
<1>3. Holds(u)'
  BY <1>2 DEF Holds
<1> QED
  BY <1>1, <1>2, <1>3

LEMMA DoRevert ==
  ASSUME IInv, Revert
  PROVE  IInv'
<1>1. PICK w \in World : Holds(w) /\ SettledOn(w, buffer, want, late, before)
  BY Resting DEF Revert, Edit, User
<1>2. PICK b, g, l, f, h, k, t :
         /\ b = buffer /\ g = want /\ l = late /\ f = before /\ h = want' /\ k = late'
         /\ t = IF opened.recalc THEN Asked(profile, opened.warmth) ELSE opened.temp
  OBVIOUS
<1>3. SettledOn(w, b, g, l, f)
  BY <1>1, <1>2
<1>4. /\ agenda' = <<CopyOf(opened, AllBits), Call("camera_if_preset")>>
      /\ want' = [exposure |-> opened.exposure,
                  temp |-> IF opened.preset = "camera"
                           THEN AskedCamera(profile, t) ELSE t]
      /\ late' = (late \/ settings.recalc) /\ before' = None /\ choice' = None
      /\ ops < MaxOps /\ ops' = ops + 1
      /\ UNCHANGED <<kind, commit, todo, mute, opened, settings, follows, chain,
                     linked, unseen, tool, profile, buffer>>
  BY <1>2 DEF Revert, Edit, User
<1>5. RestType
  BY DEF IInv
<1>6. settings \in SettingsType /\ profile \in Choices /\ opened \in SettingsType
  BY <1>1, StillThere
<1>7. t \in Temps
  <2>1. opened.temp \in Temps /\ opened.warmth \in Warmths
    BY <1>6, SettingsHas
  <2>2. Asked(profile, opened.warmth) \in Temps
    BY <1>6, <2>1, AskedType
  <2> QED
    BY <1>2, <2>1, <2>2
<1>8. AskedCamera(profile, t) \in Temps /\ AskedCamera(profile, t) = CameraTemp(kind, profile, t)
  BY <1>6, <1>7, AskedTypes
<1>9. RestType'
  <2>1. late' \in BOOLEAN
    BY <1>4, <1>5, <1>6, SettingsHas DEF RestType
  <2>2. want' \in [exposure : Exposures, temp : Temps]
    BY <1>4, <1>6, <1>7, <1>8, SettingsHas
  <2> QED
    BY <1>4, <1>5, <2>1, <2>2, UserTypes DEF RestType
<1>10. PICK u : u = Unconverted(w)
  OBVIOUS
<1>11. /\ u \in World /\ Framed(u, w) /\ u.set = w.set /\ u.todo = w.todo
       /\ u.choice = None /\ u.switch = w.switch /\ u.unseen = w.unseen
       /\ u.exposure = w.exposure /\ u.wb = w.wb
  BY <1>10, UnconvertedIs
<1>12. Holds(u)'
  BY <1>1, <1>4, <1>11 DEF Holds, Framed, Placed
<1>13. w.opened = opened /\ w.profile = profile /\ w.kind = kind
  BY <1>1, HoldsIs
<1>14. t = IF w.opened.recalc THEN Asked(w.profile, w.opened.warmth) ELSE w.opened.temp
  BY <1>2, <1>13
<1>15. /\ h.exposure = w.opened.exposure
       /\ h.temp = IF w.opened.preset = "camera" THEN CameraTemp(w.kind, w.profile, t) ELSE t
  BY <1>2, <1>4, <1>8, <1>13
<1>16. PICK e \in World :
          /\ Leads(<<CopyOf(w.opened, AllBits), Call("camera_if_preset")>>, u, e)
          /\ SettledOn(e, b, h, k, None)
  BY <1>3, <1>10, <1>14, <1>15, RevertEnds
<1>17. agenda' = <<CopyOf(w.opened, AllBits), Call("camera_if_preset")>>
  BY <1>4, <1>13
<1> QED
  BY <1>2, <1>4, <1>9, <1>11, <1>12, <1>16, <1>17, UserEnds

LEMMA DoCopyToBuffer ==
  ASSUME IInv, CopyToBuffer
  PROVE  IInv'
<1>1. PICK w \in World : Holds(w) /\ SettledOn(w, buffer, want, late, before)
  BY Resting DEF CopyToBuffer, Edit, User
<1>2. PICK b, g, l, f, c, k : /\ b = buffer /\ g = want /\ l = late /\ f = before
                              /\ c = buffer' /\ k = late'
  OBVIOUS
<1>3. SettledOn(w, b, g, l, f)
  BY <1>1, <1>2
<1>4. /\ agenda' = <<>> /\ want' = want
      /\ buffer' = [settings |-> settings, profile |-> profile]
      /\ late' = (late \/ settings.recalc) /\ before' = None
      /\ ops < MaxOps /\ ops' = ops + 1
      /\ UNCHANGED <<kind, commit, todo, mute, opened, settings, follows, chain,
                     linked, unseen, tool, choice, profile>>
  BY DEF CopyToBuffer, Edit, User
<1>5. RestType
  BY DEF IInv
<1>6. settings \in SettingsType /\ profile \in Choices
  BY <1>1, StillThere
<1>7. RestType'
  <2>1. late' \in BOOLEAN
    BY <1>4, <1>5, <1>6, SettingsHas DEF RestType
  <2>2. /\ want' \in [exposure : Exposures, temp : Temps]
        /\ buffer' \in [settings : SettingsType, profile : Choices]
    BY <1>4, <1>5, <1>6 DEF RestType
  <2> QED
    BY <1>4, <1>5, <2>1, <2>2, UserTypes DEF RestType
<1>8. Holds(w)'
  BY <1>1, <1>4, HoldsStill DEF held
<1>9. /\ l => k
      /\ l \in BOOLEAN /\ k \in BOOLEAN
  BY <1>2, <1>4, <1>5, <1>7 DEF RestType
<1>10. c.settings = w.set /\ c.profile = w.profile
  BY <1>1, <1>2, <1>4, HoldsIs
<1>11. SettledOn(w, c, g, k, None)
  BY <1>3, <1>9, <1>10, BufferEnds
<1>12. Leads(<<>>, w, w)
  BY LeadsNone
<1> QED
  BY <1>2, <1>4, <1>7, <1>8, <1>11, <1>12, UserEnds

LEMMA DoChooseProfile ==
  ASSUME IInv, NEW p \in Profiles, ChooseProfile(p)
  PROVE  IInv'
<1>1. PICK w \in World : Holds(w) /\ SettledOn(w, buffer, want, late, before)
  BY Resting DEF ChooseProfile, Edit, User
<1>2. PICK b, g, l, f, h, k : /\ b = buffer /\ g = want /\ l = late /\ f = before
                              /\ h = want' /\ k = late'
  OBVIOUS
<1>3. SettledOn(w, b, g, l, f)
  BY <1>1, <1>2
<1>4. /\ kind # "jpeg" /\ agenda' = Handed(p) /\ profile' = p /\ want' = want
      /\ late' = (late \/ settings.recalc) /\ before' = None
      /\ ops < MaxOps /\ ops' = ops + 1
      /\ UNCHANGED <<kind, commit, todo, mute, opened, settings, follows, chain,
                     linked, unseen, tool, choice, buffer>>
  BY DEF ChooseProfile, Edit, User
<1>5. RestType
  BY DEF IInv
<1>6. settings \in SettingsType
  BY <1>1, StillThere
<1>7. RestType'
  <2>1. late' \in BOOLEAN
    BY <1>4, <1>5, <1>6, SettingsHas DEF RestType
  <2>2. want' \in [exposure : Exposures, temp : Temps]
    BY <1>4, <1>5 DEF RestType
  <2> QED
    BY <1>4, <1>5, <2>1, <2>2, UserTypes DEF RestType
<1>8. PICK u : u = Chosen(w, p)
  OBVIOUS
<1>9. Chosen(w, p) \in World /\ Holds(Chosen(w, p))'
  BY <1>1, <1>4, ChosenHolds DEF Choices
<1>10. /\ l => k
       /\ l \in BOOLEAN /\ k \in BOOLEAN
  BY <1>2, <1>4, <1>5, <1>7 DEF RestType
<1>11. w.kind # "jpeg" /\ h = g
  BY <1>1, <1>2, <1>4, HoldsIs
<1>12. PICK e \in World : Leads(Handed(p), Chosen(w, p), e) /\ SettledOn(e, b, g, k, None)
  BY <1>3, <1>10, <1>11, ProfileEnds
<1> QED
  BY <1>2, <1>4, <1>7, <1>9, <1>11, <1>12, UserEnds

LEMMA NothingAround ==
  ASSUME NEW x
  PROVE  <<>> \o <<x>> = <<x>> /\ <<x>> \o <<>> = <<x>>
BY <<x>> \in Seq({x}), ConcatEmptySeq

\* The calls of a paste of the bits, from the buffer c.
Pasting(c, bits) ==
    LET hand == bits = Ticked /\ c.profile # None
    IN  (IF hand THEN Handed(c.profile) ELSE <<>>)
        \o <<CopyOf(c.settings, bits)>>
        \o (IF "wb" \in bits THEN <<Call("camera_if_preset"), Call("auto_if_preset")>>
            ELSE <<>>)

\* The photo's profile after the paste.
PastedOn(p, c, bits) == IF bits = Ticked /\ c.profile # None THEN c.profile ELSE p

\* What is pasted at once.
Ticks == {{"exposure"}, {"wb"}, Ticked}

LEMMA PasteEnds ==
  ASSUME NEW w \in World, NEW b, NEW g, NEW l, NEW f, SettledOn(w, b, g, l, f),
         b.settings \in SettingsType, b.profile \in Choices,
         NEW bits \in Ticks, NEW p \in Choices,
         p = PastedOn(w.profile, b, bits), NEW h, NEW k, l => k,
         h.exposure = IF "exposure" \in bits THEN b.settings.exposure ELSE g.exposure,
         h.temp = IF "wb" \in bits
                  THEN PresetTemp(w.kind, p, b.settings.preset, b.settings.temp)
                  ELSE g.temp,
         l \in BOOLEAN, k \in BOOLEAN
  PROVE  \E e \in World : /\ Leads(Pasting(b, bits), Chosen(w, p), e)
                          /\ SettledOn(e, b, h, k, None)
<1>1. bits \in SUBSET AllBits /\ bits \in {{"exposure"}, {"wb"}, Ticked}
  BY DEF Ticks, Ticked, AllBits
<1>2. {"exposure"} # Ticked /\ {"wb"} # Ticked
  BY DEF Ticked, AllBits
<1>3. Chosen(w, w.profile) = w
  BY WorldHas DEF Chosen, World
<1>4. ASSUME bits = {"exposure"}
      PROVE  \E e \in World : /\ Leads(Pasting(b, bits), Chosen(w, p), e)
                              /\ SettledOn(e, b, h, k, None)
  <2>1. p = w.profile /\ "wb" \notin bits /\ "exposure" \in bits
    BY <1>2, <1>4 DEF PastedOn
  <2>2. Pasting(b, bits) = <<>> \o <<CopyOf(b.settings, bits)>> \o <<>>
    BY <1>2, <1>4, <2>1 DEF Pasting
  <2>3. Pasting(b, bits) = <<CopyOf(b.settings, {"exposure"})>>
    BY <1>4, <2>2, NothingAround
  <2>4. \E e \in World : /\ Leads(<<CopyOf(b.settings, {"exposure"})>>, w, e)
                         /\ SettledOn(e, b, h, k, None)
    BY <2>1, ExposurePasteEnds
  <2> QED
    BY <1>3, <2>1, <2>3, <2>4
<1>5. ASSUME bits # {"exposure"}, ~(bits = Ticked /\ b.profile # None)
      PROVE  \E e \in World : /\ Leads(Pasting(b, bits), Chosen(w, p), e)
                              /\ SettledOn(e, b, h, k, None)
  <2>1. p = w.profile /\ "wb" \in bits
    BY <1>1, <1>5 DEF PastedOn, Ticked, AllBits
  <2>2. Pasting(b, bits) = <<>> \o <<CopyOf(b.settings, bits)>>
                             \o <<Call("camera_if_preset"), Call("auto_if_preset")>>
    BY <1>5, <2>1 DEF Pasting
  <2>3. Pasting(b, bits) = <<CopyOf(b.settings, bits)>>
                             \o <<Call("camera_if_preset"), Call("auto_if_preset")>>
    BY <2>2, NothingAround
  <2>4. \E e \in World :
           /\ Leads(<<CopyOf(b.settings, bits)>>
                      \o <<Call("camera_if_preset"), Call("auto_if_preset")>>, w, e)
           /\ SettledOn(e, b, h, k, None)
    BY <1>1, <2>1, WbPasteEnds
  <2> QED
    BY <1>3, <2>1, <2>3, <2>4
<1>6. ASSUME bits = Ticked, b.profile # None
      PROVE  \E e \in World : /\ Leads(Pasting(b, bits), Chosen(w, p), e)
                              /\ SettledOn(e, b, h, k, None)
  <2>1. p = b.profile /\ "wb" \in bits /\ "exposure" \in bits
    BY <1>6 DEF PastedOn, Ticked, AllBits
  <2>2. Pasting(b, bits) = Handed(p) \o <<CopyOf(b.settings, bits)>>
                             \o <<Call("camera_if_preset"), Call("auto_if_preset")>>
    BY <1>6, <2>1 DEF Pasting
  <2>3. \E e \in World :
           /\ Leads(Handed(p) \o <<CopyOf(b.settings, bits)>>
                      \o <<Call("camera_if_preset"), Call("auto_if_preset")>>,
                    Chosen(w, p), e)
           /\ SettledOn(e, b, h, k, None)
    BY <1>1, <1>6, <2>1, AllPasteEnds
  <2> QED
    BY <2>2, <2>3
<1> QED
  BY <1>4, <1>5, <1>6

LEMMA DoPaste ==
  ASSUME IInv, NEW bits \in Ticks, Paste(bits)
  PROVE  IInv'
<1>1. PICK w \in World : Holds(w) /\ SettledOn(w, buffer, want, late, before)
  BY Resting DEF Paste, Edit, User
<1>2. PICK b, g, l, f, h, k, p :
         /\ b = buffer /\ g = want /\ l = late /\ f = before /\ h = want' /\ k = late'
         /\ p = PastedOn(profile, buffer, bits)
  OBVIOUS
<1>3. SettledOn(w, b, g, l, f)
  BY <1>1, <1>2
<1>4. /\ agenda' = Pasting(buffer, bits) /\ profile' = p
      /\ want' = [exposure |-> IF "exposure" \in bits THEN buffer.settings.exposure
                                                      ELSE want.exposure,
                  temp |-> IF "wb" \in bits
                           THEN AskedPreset(p, buffer.settings.preset,
                                            buffer.settings.temp)
                           ELSE want.temp]
      /\ late' = (late \/ settings.recalc) /\ before' = None
      /\ ops < MaxOps /\ ops' = ops + 1
      /\ UNCHANGED <<kind, commit, todo, mute, opened, settings, follows, chain,
                     linked, unseen, tool, choice, buffer>>
  BY <1>2 DEF Paste, Edit, User, Pasting, PastedOn
<1>5. RestType
  BY DEF IInv
<1>6. settings \in SettingsType /\ profile \in Choices
  BY <1>1, StillThere
<1>7. buffer.settings \in SettingsType /\ buffer.profile \in Choices
  BY <1>5 DEF RestType
<1>8. p \in Choices
  BY <1>2, <1>6, <1>7 DEF PastedOn
<1>9. buffer.settings.temp \in Temps /\ buffer.settings.exposure \in Exposures
  BY <1>7, SettingsHas
<1>10. /\ AskedPreset(p, buffer.settings.preset, buffer.settings.temp) \in Temps
       /\ AskedPreset(p, buffer.settings.preset, buffer.settings.temp)
          = PresetTemp(kind, p, buffer.settings.preset, buffer.settings.temp)
  BY <1>8, <1>9, AskedTypes
<1>11. RestType'
  <2>1. late' \in BOOLEAN
    BY <1>4, <1>5, <1>6, SettingsHas DEF RestType
  <2>2. want' \in [exposure : Exposures, temp : Temps]
    BY <1>4, <1>5, <1>9, <1>10 DEF RestType
  <2> QED
    BY <1>4, <1>5, <2>1, <2>2, UserTypes DEF RestType
<1>12. Chosen(w, p) \in World /\ Holds(Chosen(w, p))'
  BY <1>1, <1>4, <1>8, ChosenHolds
<1>13. /\ l => k
       /\ l \in BOOLEAN /\ k \in BOOLEAN
  BY <1>2, <1>4, <1>5, <1>11 DEF RestType
<1>14. w.profile = profile /\ w.kind = kind
  BY <1>1, HoldsIs
<1>15. p = PastedOn(w.profile, b, bits) /\ b.settings \in SettingsType /\ b.profile \in Choices
  BY <1>2, <1>7, <1>14
<1>16. h.exposure = IF "exposure" \in bits THEN b.settings.exposure ELSE g.exposure
  BY <1>2, <1>4
<1>17. h.temp = IF "wb" \in bits
                THEN PresetTemp(w.kind, p, b.settings.preset, b.settings.temp)
                ELSE g.temp
  BY <1>2, <1>4, <1>10, <1>14
<1>18. PICK e \in World : /\ Leads(Pasting(b, bits), Chosen(w, p), e)
                          /\ SettledOn(e, b, h, k, None)
  BY <1>3, <1>8, <1>13, <1>15, <1>16, <1>17, PasteEnds
<1>19. agenda' = Pasting(b, bits)
  BY <1>2, <1>4
<1> QED
  BY <1>2, <1>4, <1>11, <1>12, <1>18, <1>19, UserEnds

LEMMA ClosedHolds ==
  ASSUME NEW w \in World, Holds(w), settings' = Defaults, linked' = <<>>,
         follows' = FALSE, unseen' = FALSE,
         UNCHANGED <<kind, commit, todo, mute, tool, chain, choice, profile, opened>>
  PROVE  Closed(w) \in World /\ Holds(Closed(w))'
<1>1. PICK u : u = Closed(w)
  OBVIOUS
<1>2. /\ u \in World /\ u.set = Defaults /\ u.link = {}
      /\ u.follows = FALSE /\ u.unseen = FALSE /\ u.exposure = {} /\ u.wb = {}
      /\ u.kind = w.kind /\ u.todo = w.todo
      /\ u.commit = w.commit /\ u.mute = w.mute /\ u.prof = w.prof
      /\ u.profile = w.profile /\ u.choice = w.choice /\ u.switch = w.switch
      /\ u.opened = w.opened
  BY <1>1, ClosedIs
<1>3. linked' = InOrder(u.link)
  BY <1>2 DEF InOrder
<1>4. Holds(u)'
  BY <1>2, <1>3 DEF Holds
<1> QED
  BY <1>1, <1>2, <1>4

LEMMA DoReopen ==
  ASSUME IInv, Reopen
  PROVE  IInv'
<1>1. PICK w \in World : Holds(w) /\ SettledOn(w, buffer, want, late, before)
  BY Resting DEF Reopen, User
<1>2. PICK b, g, l, f, h, k, s, old :
         /\ b = buffer /\ g = want /\ l = late /\ f = before /\ h = want' /\ k = late'
         /\ s = Saved /\ old = before'
  OBVIOUS
<1>3. SettledOn(w, b, g, l, f)
  BY <1>1, <1>2
<1>4. /\ agenda' = Open(s) /\ settings' = Defaults /\ linked' = <<>>
      /\ follows' = FALSE /\ unseen' = FALSE /\ late' = FALSE
      /\ before' = [settings |-> settings, choice |-> choice]
      /\ want' = [want EXCEPT !.temp =
                    IF kind = "jpeg" THEN DefaultTemp
                    ELSE AskedPreset(profile, settings.preset, settings.temp)]
      /\ ops < MaxOps /\ ops' = ops + 1
      /\ UNCHANGED <<kind, commit, todo, mute, opened, chain, tool, choice,
                     profile, buffer>>
  BY <1>2 DEF Reopen, User
<1>5. RestType
  BY DEF IInv
<1>6. settings \in SettingsType /\ profile \in Choices /\ settings.temp \in Temps
  BY <1>1, StillThere, SettingsHas
<1>7. /\ AskedPreset(profile, settings.preset, settings.temp) \in Temps
      /\ AskedPreset(profile, settings.preset, settings.temp)
         = PresetTemp(kind, profile, settings.preset, settings.temp)
  BY <1>6, AskedTypes
<1>8. RestType'
  <2>1. want' \in [exposure : Exposures, temp : Temps]
    BY <1>4, <1>5, <1>7, TempAssumption DEF RestType
  <2> QED
    BY <1>4, <1>5, <2>1, UserTypes DEF RestType
<1>9. Closed(w) \in World /\ Holds(Closed(w))'
  BY <1>1, <1>4, ClosedHolds
<1>10. w.set = settings /\ w.choice = choice /\ w.kind = kind /\ w.profile = profile
  BY <1>1, HoldsIs
<1>11. s = InSidecar(w.set)
  BY <1>2, <1>10 DEF Saved, InSidecar
<1>12. s # None
  BY <1>6, <1>10, <1>11, SidecarIs, NoneAssumption
<1>13. agenda' = <<CopyOf(s, AllBits), Call("camera_if_preset")>>
                   \o <<Call("neutral"), Call("remember"), Call("auto_if_preset")>>
                   \o ApplyTo("loupe") \o ApplyTo("navigator") \o ApplyTo("view")
                   \o <<Call("toolbox_set_photo")>>
  BY <1>4, <1>12 DEF Open
<1>14. old.settings = w.set /\ old.choice = w.choice
  BY <1>2, <1>4, <1>10
<1>15. h.exposure = g.exposure
  BY <1>2, <1>4, <1>5 DEF RestType
<1>16. h.temp = IF w.kind = "jpeg" THEN DefaultTemp
                ELSE PresetTemp(w.kind, w.profile, w.set.preset, w.set.temp)
  BY <1>2, <1>4, <1>5, <1>7, <1>10 DEF RestType
<1>17. PICK e \in World :
          /\ Leads(<<CopyOf(s, AllBits), Call("camera_if_preset")>>
                     \o <<Call("neutral"), Call("remember"), Call("auto_if_preset")>>
                     \o ApplyTo("loupe") \o ApplyTo("navigator") \o ApplyTo("view")
                     \o <<Call("toolbox_set_photo")>>, Closed(w), e)
          /\ SettledOn(e, b, h, k, old)
  BY <1>3, <1>11, <1>14, <1>15, <1>16, ReopenEnds
<1> QED
  BY <1>2, <1>4, <1>8, <1>9, <1>13, <1>17, UserEnds

LEMMA UserKeeps ==
  ASSUME IInv, UserStep
  PROVE  IInv'
<1>1. \A v \in Exposures : MoveExposure(v) => IInv'
  BY DoMoveExposure
<1>2. \A t \in Temps : MoveTemp(t) => IInv'
  BY DoMoveTemp
<1>3. \A bits \in {{"exposure"}, {"wb"}, Ticked} : Paste(bits) => IInv'
  BY DoPaste DEF Ticks
<1>4. \A p \in Profiles : ChooseProfile(p) => IInv'
  BY DoChooseProfile
<1>5. Toggle \/ PickWb \/ AutoWb \/ CameraWb => IInv'
  BY DoToggle, DoPickWb, DoAutoWb, DoCameraWb
<1>6. ResetSettings \/ Revert \/ CopyToBuffer \/ ShowLoupe \/ Reopen => IInv'
  BY DoReset, DoRevert, DoCopyToBuffer, DoShowLoupe, DoReopen
<1> QED
  BY <1>1, <1>2, <1>3, <1>4, <1>5, <1>6 DEF UserStep

LEMMA StutterKeeps ==
  ASSUME IInv, UNCHANGED vars
  PROVE  IInv'
<1>1. PICK w, e \in World : Holds(w) /\ Leads(agenda, w, e) /\ Settled(e)
  BY DEF IInv
<1>2. /\ UNCHANGED <<kind, profile, opened, buffer, settings, commit, todo, agenda>>
      /\ UNCHANGED <<tool, mute, follows, chain, linked, unseen>>
      /\ UNCHANGED <<ops, want, choice, before, late>>
  BY DEF vars, photoVars, signalVars, userVars
<1>3. Holds(w)'
  BY <1>1, <1>2, HoldsStill DEF held
<1>4. RestType'
  BY <1>2 DEF IInv, RestType
<1>5. Settled(e)'
  BY <1>1, <1>2 DEF Settled
<1> QED
  BY <1>1, <1>2, <1>3, <1>4, <1>5 DEF IInv

-----------------------------------------------------------------------------
(* The initial state.                                                      *)

\* The world in which a photo is opened for the first time.
Unopened(n, p) ==
    [kind |-> n, set |-> Defaults, todo |-> {}, commit |-> 0, exposure |-> {},
     wb |-> {}, link |-> {}, follows |-> FALSE, mute |-> FALSE,
     prof |-> [c \in Chains |-> None], profile |-> p, choice |-> p,
     switch |-> FALSE, unseen |-> FALSE, opened |-> Defaults]

LEMMA UnopenedIs ==
  ASSUME NEW n \in Kinds, NEW p \in Choices
  PROVE  Unopened(n, p) \in World /\ Deaf(Unopened(n, p))
<1>1. {} \in Links /\ 0 \in 0..2 /\ None \in Choices
  BY DEF Links, Choices
<1>2. Unopened(n, p) \in World
  BY <1>1, DefaultsType DEF Unopened, World
<1> QED
  BY <1>2 DEF Unopened, Deaf

LEMMA Initial ==
  ASSUME Init
  PROVE  IInv
<1>1. /\ kind \in Kinds /\ settings = Defaults /\ commit = 0 /\ todo = {}
      /\ tool = [exposure |-> 0, temp |-> DefaultTemp, switch |-> FALSE]
      /\ mute = FALSE /\ follows = FALSE /\ linked = <<>> /\ opened = Defaults
      /\ chain = [c \in Chains |-> [profile |-> None, exposure |-> 0,
                                    temp |-> DefaultTemp, warmth |-> "zero"]]
      /\ agenda = Open(None) /\ ops = 0 /\ choice = profile /\ before = None
      /\ want = [exposure |-> 0, temp |-> AskedCamera(profile, DefaultTemp)]
      /\ unseen = FALSE /\ late = FALSE
      /\ profile \in IF kind = "jpeg" THEN {None} ELSE Profiles
  BY DEF Init
<1>2. profile \in Choices /\ (kind = "jpeg" <=> profile = None)
  BY <1>1, NoneAssumption DEF Choices
<1>3. /\ buffer \in [settings : SettingsType, profile : Choices]
      /\ buffer.settings.warmth = "picked" /\ buffer.settings.recalc = FALSE
      /\ buffer.profile \in Profiles
  <2>1. PICK t \in Temps, q \in Presets, p \in Profiles :
           buffer = [settings |-> [Defaults EXCEPT !.exposure = 1, !.temp = t,
                                     !.warmth = "picked", !.preset = q,
                                     !.switch = TRUE],
                     profile |-> p]
    BY DEF Init
  <2>2. PICK s : s = [Defaults EXCEPT !.exposure = 1, !.temp = t, !.warmth = "picked",
                                      !.preset = q, !.switch = TRUE]
    OBVIOUS
  <2>3. s \in SettingsType /\ s.warmth = "picked" /\ s.recalc = FALSE
    BY <2>2, TempAssumption DEF Defaults, SettingsType, Exposures, Warmths
  <2>4. buffer = [settings |-> s, profile |-> p]
    BY <2>1, <2>2
  <2> QED
    BY <2>3, <2>4 DEF Choices
<1>4. PICK w : w = Unopened(kind, profile)
  OBVIOUS
<1>5. /\ w \in World /\ Deaf(w) /\ w.set = Defaults /\ w.kind = kind /\ w.profile = profile
      /\ w.todo = {} /\ w.commit = 0 /\ w.exposure = {} /\ w.wb = {}
      /\ w.link = {} /\ w.follows = FALSE /\ w.mute = FALSE
      /\ w.prof = [c \in Chains |-> None] /\ w.choice = profile
      /\ w.switch = FALSE /\ w.unseen = FALSE /\ w.opened = Defaults
  <2>1. Unopened(kind, profile) \in World /\ Deaf(Unopened(kind, profile))
    BY <1>1, <1>2, UnopenedIs
  <2> QED
    BY <1>4, <2>1 DEF Unopened
<1>6. Holds(w)
  <2>1. InOrder(w.link) = <<>>
    BY <1>5 DEF InOrder
  <2>2. tool.switch = FALSE
    BY <1>1
  <2>3. [c \in Chains |-> None] = [c \in Chains |-> chain[c].profile]
    BY <1>1
  <2> QED
    BY <1>1, <1>5, <2>1, <2>2, <2>3 DEF Holds
<1>7. PICK b, g : b = buffer /\ g = want
  OBVIOUS
<1>8. AskedCamera(profile, DefaultTemp) \in Temps
      /\ AskedCamera(profile, DefaultTemp) = CameraTemp(kind, profile, DefaultTemp)
  BY <1>2, TempAssumption, AskedTypes
<1>9. g.exposure = 0 /\ g.temp = CameraTemp(w.kind, w.profile, DefaultTemp)
  BY <1>1, <1>5, <1>7, <1>8
<1>10. Suits(b, w.kind)
  BY <1>3, <1>7, NoneAssumption DEF Suits, Matched, Waiting
<1>11. w.kind = "jpeg" <=> w.profile = None
  BY <1>2, <1>5
<1>12. PICK e \in World :
          /\ Leads(<<Call("default_preset")>>
                     \o <<Call("neutral"), Call("remember"), Call("auto_if_preset")>>
                     \o ApplyTo("loupe") \o ApplyTo("navigator") \o ApplyTo("view")
                     \o <<Call("toolbox_set_photo")>>, w, e)
          /\ SettledOn(e, b, g, FALSE, None)
  BY <1>5, <1>9, <1>10, <1>11, FirstOpening
<1>13. Leads(agenda, w, e)
  BY <1>1, <1>12 DEF Open
<1>14. late = FALSE /\ before = None
  BY <1>1
<1>15. Settled(e)
  BY <1>7, <1>12, <1>14 DEF Settled
<1>16. RestType
  <2>1. tool \in [exposure : Exposures, temp : Temps, switch : BOOLEAN]
    BY <1>1, TempAssumption DEF Exposures
  <2>2. chain \in [Chains -> [profile : Choices, exposure : Exposures,
                              temp : Temps, warmth : Warmths]]
    BY <1>1, TempAssumption DEF Exposures, Choices, Warmths
  <2>3. want \in [exposure : Exposures, temp : Temps]
    BY <1>1, <1>8 DEF Exposures
  <2>4. ops \in 0..MaxOps
    BY <1>1, BoundAssumption
  <2> QED
    BY <1>3, <1>14, <2>1, <2>2, <2>3, <2>4 DEF RestType
<1> QED
  BY <1>5, <1>6, <1>13, <1>15, <1>16 DEF IInv

-----------------------------------------------------------------------------
(* What the invariant says of a state.                                     *)

LEMMA TypesHold ==
  ASSUME IInv
  PROVE  TypeOK
<1>1. PICK w \in World : Holds(w)
  BY DEF IInv
<1>2. /\ w.kind \in Kinds /\ w.set \in SettingsType /\ w.todo \in SUBSET AllBits
      /\ w.commit \in 0..2 /\ w.follows \in BOOLEAN /\ w.mute \in BOOLEAN
      /\ w.profile \in Choices /\ w.choice \in Choices /\ w.unseen \in BOOLEAN
      /\ w.opened \in SettingsType
  BY <1>1, WorldHas
<1>3. /\ w.kind = kind /\ w.set = settings /\ w.todo = todo /\ w.commit = commit
      /\ w.follows = follows /\ w.mute = mute /\ w.profile = profile
      /\ w.choice = choice /\ w.unseen = unseen /\ w.opened = opened
      /\ linked = InOrder(w.link)
  BY <1>1, HoldsIs
<1>4. linked \in Seq(Chains)
  <2>1. "loupe" \in Chains /\ "navigator" \in Chains /\ "view" \in Chains
    BY DEF Chains
  <2>2. /\ <<>> \in Seq(Chains) /\ <<"loupe">> \in Seq(Chains)
        /\ <<"loupe", "navigator">> \in Seq(Chains)
        /\ <<"loupe", "navigator", "view">> \in Seq(Chains)
    BY <2>1
  <2> QED
    BY <1>3, <2>2 DEF InOrder
<1> QED
  BY <1>2, <1>3, <1>4 DEF IInv, RestType, TypeOK, Choices

LEMMA CoherentHolds ==
  ASSUME IInv
  PROVE  Coherent
<1> SUFFICES ASSUME Quiet
             PROVE  Coherent
  BY DEF Coherent
<1>1. PICK w \in World : Holds(w) /\ SettledOn(w, buffer, want, late, before)
  BY Resting
<1>2. InStep(w)
  BY <1>1 DEF SettledOn
<1>3. /\ \A c \in Chains : c \in w.exposure /\ c \in w.wb
      /\ "toolbox" \in w.exposure /\ "toolbox" \in w.wb
  BY <1>2 DEF InStep, Holders
<1>4. /\ \A c \in Chains : /\ chain[c].exposure = settings.exposure
                           /\ chain[c].temp = settings.temp
                           /\ chain[c].warmth = settings.warmth
      /\ tool.exposure = settings.exposure /\ tool.temp = settings.temp
  BY <1>1, <1>3 DEF Holds
<1>5. /\ w.prof["navigator"] = w.profile /\ w.prof["view"] = w.profile
      /\ w.unseen \/ w.switch = w.set.switch
  BY <1>2 DEF InStep
<1>6. /\ w.prof = [c \in Chains |-> chain[c].profile] /\ w.profile = profile
      /\ w.unseen = unseen /\ w.switch = tool.switch /\ w.set = settings
  BY <1>1, HoldsIs
<1>7. \A c \in Chains \ {"loupe"} : chain[c].profile = profile
  BY <1>5, <1>6 DEF Chains
<1>8. unseen \/ tool.switch = settings.switch
  BY <1>5, <1>6
<1> QED
  BY <1>4, <1>7, <1>8 DEF Coherent

LEMMA AskedForHolds ==
  ASSUME IInv
  PROVE  AskedFor
<1> SUFFICES ASSUME Quiet, ~late
             PROVE  settings.exposure = want.exposure /\ settings.temp = want.temp
  BY DEF AskedFor
<1>1. PICK w \in World : Holds(w) /\ SettledOn(w, buffer, want, late, before)
  BY Resting
<1> QED
  BY <1>1, HoldsIs DEF SettledOn

LEMMA ReopenedHolds ==
  ASSUME IInv
  PROVE  Reopened
<1> SUFFICES ASSUME Quiet, before # None, kind # "jpeg",
                    before.settings.preset = None \/ before.choice = profile
             PROVE  /\ settings.exposure = before.settings.exposure
                    /\ settings.temp = before.settings.temp
                    /\ settings.preset = before.settings.preset
                    /\ settings.switch = before.settings.switch
  BY DEF Reopened
<1>1. PICK w \in World : Holds(w) /\ SettledOn(w, buffer, want, late, before)
  BY Resting
<1>2. w.kind = kind /\ w.set = settings /\ w.profile = profile
  BY <1>1, HoldsIs
<1>3. AsBefore(w, before)
  BY <1>1 DEF SettledOn
<1> QED
  BY <1>2, <1>3 DEF AsBefore

LEMMA NothingIsHeld ==
  ASSUME IInv
  PROVE  NothingHeld
<1> SUFFICES ASSUME Quiet
             PROVE  /\ commit = 0
                    /\ ~mute
                    /\ settings.recalc => kind = "jpeg" /\ profile # None
  BY DEF NothingHeld
<1>1. PICK w \in World : Holds(w) /\ SettledOn(w, buffer, want, late, before)
  BY Resting
<1>2. /\ w.kind = kind /\ w.set = settings /\ w.profile = profile
      /\ w.commit = commit /\ w.mute = mute
  BY <1>1, HoldsIs
<1>3. InStep(w)
  BY <1>1 DEF SettledOn
<1>4. w.kind = "jpeg" => Waiting(w.set, w.profile)
  BY <1>1 DEF SettledOn, EmbeddedSettled
<1>5. w.kind # "jpeg" => ~w.set.recalc
  BY <1>1 DEF SettledOn, RawSettled
<1> QED
  BY <1>2, <1>3, <1>4, <1>5 DEF InStep, Waiting

-----------------------------------------------------------------------------
(* The theorems.                                                           *)

(* From the state there is, the calls pending lead to one in which an      *)
(* operation may end: inductive, however the calls nest.                   *)
THEOREM Inductive == Spec => []IInv
<1>1. Init => IInv
  BY Initial
<1>2. IInv /\ [Next]_vars => IInv'
  <2> SUFFICES ASSUME IInv, [Next]_vars
               PROVE  IInv'
    OBVIOUS
  <2>1. Run => IInv'
    BY RunKeeps
  <2>2. UserStep => IInv'
    BY UserKeeps
  <2>3. UNCHANGED vars => IInv'
    BY StutterKeeps
  <2> QED
    BY <2>1, <2>2, <2>3 DEF Next
<1> QED
  BY <1>1, <1>2, PTL DEF Spec

(* The variables keep their types; the commit never nests deeper than the  *)
(* one of reset_settings() around that of rs_settings_reset().             *)
THEOREM SettingsTypes == Spec => []TypeOK
BY Inductive, TypesHold, PTL

(* When the calls of an operation have returned, the sliders and every     *)
(* filter agree with the settings, whatever rs_settings_*() emitted in a   *)
(* commit, in another signal or while the toolbox was muted.               *)
THEOREM SettingsCoherent == Spec => []Coherent
BY Inductive, CoherentHolds, PTL

(* The exposure and the temperature are what the operations asked for: the *)
(* handlers of "settings-changed" convert a balance once, with the photo's *)
(* profile, and none of them replaces what was set after it.               *)
THEOREM SettingsAskedFor == Spec => []AskedFor
BY Inductive, AskedForHolds, PTL

(* A raw photo that is closed and opened again has the settings it was     *)
(* closed with, though the sidecar does not keep the warmth.               *)
THEOREM SettingsReopened == Spec => []Reopened
BY Inductive, ReopenedHolds, PTL

(* Between operations every rs_settings_commit_start() has its stop, the   *)
(* toolbox listens, and no recalculation is left to a later signal but for *)
(* an embedded profile's file that was given another.                      *)
THEOREM SettingsNothingHeld == Spec => []NothingHeld
BY Inductive, NothingIsHeld, PTL
=============================================================================
