----------------------------- MODULE FilterChain -----------------------------
(***************************************************************************)
(* Chains of filters (librawstudio/rs-filter.c) and the caches in them     *)
(* (plugins/cache/cache.c): a filter computes an image from the image of   *)
(* the filter before it, a filter whose setting changes tells the filters  *)
(* behind it, and a cache forgets its image when it is told.               *)
(*                                                                         *)
(* The chains of a widget are one tree, walked by one thread.  A change    *)
(* walks it depth first, and `walk' is what is left of that recursion: the *)
(* previous_changed() calls and "changed" emissions to come.  A request    *)
(* for an image goes up the chain and comes back; `call' is that           *)
(* recursion.  The navigator makes a request from inside a "changed"       *)
(* handler, that is, in the middle of a walk.                              *)
(*                                                                         *)
(* An image is known by what it was computed from.  A region of interest   *)
(* (ROI) is a set of tiles; no ROI is the ROI of all tiles.                *)
(*                                                                         *)
(* A definition named X_Y is X with the mistake Y; it is part of no        *)
(* specification and serves to see a property fail.                        *)
(***************************************************************************)
EXTENDS Integers, Sequences, FiniteSets

CONSTANTS Sources,      \* filters without a previous one
          Shapes,       \* crop, rotate: the setting changes dimensions
          Pixels,       \* dcp, effects, denoise, ...: it does not
          Resamples,
          Caches,
          IgnoreRoi,    \* the caches with "ignore-roi"
          Renderers,    \* filters with a handler of "changed" that renders
          Ends,         \* filters the widgets ask for images
          Switchable,   \* filters rs_filter_set_enabled() is called on
          Previous,     \* the filter before each filter but the sources
          NextFilters,  \* next_filters
          Above,        \* a filter and those it depends on
          Settings,     \* values of properties
          Tiles,
          None

Filters == Sources \cup Shapes \cup Pixels \cup Resamples \cup Caches

(* Filters whose state has a say in the size of an image. *)
Sized == Sources \cup Shapes \cup Resamples

Rois == (SUBSET Tiles) \ {{}}

ASSUME KindsAssumption ==
  /\ Sources \cap (Shapes \cup Pixels \cup Resamples \cup Caches) = {}
  /\ Shapes \cap (Pixels \cup Resamples \cup Caches) = {}
  /\ Pixels \cap (Resamples \cup Caches) = {} /\ Resamples \cap Caches = {}
  /\ IgnoreRoi \subseteq Caches
  /\ Renderers \subseteq Filters /\ Ends \subseteq Filters
  /\ None \notin Filters
  /\ Tiles # {} /\ Settings # {}

(* The filters form a finite tree. *)
ASSUME TreeAssumption ==
  /\ IsFiniteSet(Filters)
  /\ Previous \in [Filters \ Sources -> Filters]
  /\ NextFilters \in [Filters -> Seq(Filters)]
  /\ \A f \in Filters :
       /\ \A i \in DOMAIN NextFilters[f] :
            /\ NextFilters[f][i] \notin Sources
            /\ Previous[NextFilters[f][i]] = f
            /\ \A k \in DOMAIN NextFilters[f] :
                 NextFilters[f][i] = NextFilters[f][k] => i = k
       /\ f \notin Sources =>
            \E i \in DOMAIN NextFilters[Previous[f]] :
              NextFilters[Previous[f]][i] = f
  /\ Above \in [Filters -> SUBSET Filters]
  /\ \A f \in Sources : Above[f] = {f}
  /\ \A f \in Filters \ Sources :
       /\ Above[f] = {f} \cup Above[Previous[f]]
       /\ f \notin Above[Previous[f]]

(* What is switched on and off has no resample filter behind it: disabling *)
(* is announced as a change of pixels, not of dimensions.  (The program    *)
(* switches only the resample filters its widgets show the output of.)     *)
ASSUME SwitchAssumption ==
  /\ Switchable \subseteq Pixels \cup Resamples
  /\ \A s \in Switchable, r \in Resamples : s \in Above[r] => s = r

VARIABLES setting,      \* of sources, shape and pixel filters, and the
                        \* target size of resample filters
          enabled,
          dims,         \* new_width, new_height: what they were computed from
          cached,       \* the response a cache keeps, or None
          walk,
          call

vars == <<setting, enabled, dims, cached, walk, call>>

Idle == [end |-> None, roi |-> {}, quick |-> FALSE, frames |-> << >>,
         image |-> None]

Init ==
  /\ setting \in [Filters \ Caches -> Settings]
  /\ enabled = [f \in Switchable |-> TRUE]
  /\ dims = [r \in Resamples |-> None]
  /\ cached = [c \in Caches |-> None]
  /\ walk = << >>
  /\ call = Idle
-----------------------------------------------------------------------------
(* What an image and a size are computed from. *)

Enabled(f) == f \in Switchable => enabled[f]

(* What filter f contributes to an image that goes through it. *)
State(f) ==
  IF f \in Caches \/ ~ Enabled(f) THEN None
  ELSE IF f \in Resamples THEN dims[f] ELSE setting[f]

(* The image filter f should answer with now, as its ingredients. *)
Now(f) == [g \in Above[f] |-> State(g)]

(* recalculate_dimensions(): what rs_filter_get_size() of the previous     *)
(* filter depends on, and the target.                                      *)
Dimensions(r, target) ==
  [target |-> target,
   size |-> [g \in Above[Previous[r]] \cap Sized |-> State(g)]]
-----------------------------------------------------------------------------
(* Changes. *)

Visit(f, dim) == [do |-> "visit", filter |-> f, dim |-> dim]
Emit(f) == [do |-> "emit", filter |-> f, dim |-> FALSE]

(* rs_filter_changed() *)
Changed(f, dim) ==
  [i \in 1 .. Len(NextFilters[f]) |-> Visit(NextFilters[f][i], dim)]
    \o <<Emit(f)>>

Quiet == walk = << >> /\ call = Idle

(* set_property() or settings_changed() of a source, shape or pixel filter *)
Assign(f, v) ==
  /\ Quiet
  /\ f \in Sources \cup Shapes \cup Pixels
  /\ v # setting[f]
  /\ setting' = [setting EXCEPT ![f] = v]
  /\ walk' = Changed(f, f \in Sized)
  /\ UNCHANGED <<enabled, dims, cached, call>>

(* set_property() of a resample filter *)
SetTarget(r, v) ==
  /\ Quiet
  /\ r \in Resamples
  /\ v # setting[r]
  /\ setting' = [setting EXCEPT ![r] = v]
  /\ dims' = [dims EXCEPT ![r] = Dimensions(r, v)]
  /\ walk' = Changed(r, TRUE)
  /\ UNCHANGED <<enabled, cached, call>>

(* rs_filter_set_enabled() *)
SetEnabled(f, on) ==
  /\ Quiet
  /\ f \in Switchable
  /\ enabled[f] # on
  /\ enabled' = [enabled EXCEPT ![f] = on]
  /\ walk' = Changed(f, FALSE)
  /\ UNCHANGED <<setting, dims, cached, call>>

Visiting(f) == /\ call = Idle
               /\ walk # << >>
               /\ Head(walk).do = "visit" /\ Head(walk).filter = f

PassOn(f) == walk' = Changed(f, Head(walk).dim) \o Tail(walk)

VisitCache_KeepsImage(c) ==
  /\ c \in Caches
  /\ Visiting(c)
  /\ cached' = IF Head(walk).dim THEN [cached EXCEPT ![c] = None] ELSE cached
  /\ PassOn(c)
  /\ UNCHANGED <<setting, enabled, dims, call>>

VisitCache_FlushesLast(c) ==
  /\ c \in Caches
  /\ Visiting(c)
  /\ \/ walk' = Changed(c, Head(walk).dim) \o walk /\ UNCHANGED cached
     \/ walk' = Tail(walk) /\ cached' = [cached EXCEPT ![c] = None]
  /\ UNCHANGED <<setting, enabled, dims, call>>

(* previous_changed() of a cache: every change is one of pixels. *)
VisitCache(c) ==
  /\ c \in Caches
  /\ Visiting(c)
  /\ cached' = [cached EXCEPT ![c] = None]
  /\ PassOn(c)
  /\ UNCHANGED <<setting, enabled, dims, call>>

VisitResample_Enabled(r) ==
  /\ r \in Resamples
  /\ Visiting(r)
  /\ dims' = IF Head(walk).dim /\ Enabled(r)
               THEN [dims EXCEPT ![r] = Dimensions(r, setting[r])] ELSE dims
  /\ PassOn(r)
  /\ UNCHANGED <<setting, enabled, cached, call>>

(* previous_changed() of a resample filter, enabled or not *)
VisitResample(r) ==
  /\ r \in Resamples
  /\ Visiting(r)
  /\ dims' = IF Head(walk).dim THEN [dims EXCEPT ![r] = Dimensions(r, setting[r])] ELSE dims
  /\ PassOn(r)
  /\ UNCHANGED <<setting, enabled, cached, call>>

(* The others pass the change on. *)
VisitOther(f) ==
  /\ f \in Shapes \cup Pixels
  /\ Visiting(f)
  /\ PassOn(f)
  /\ UNCHANGED <<setting, enabled, dims, cached, call>>

Frame(f, roi) == [filter |-> f, roi |-> roi, asked |-> {}]

Requested(e, roi, quick) ==
  [end |-> e, roi |-> roi, quick |-> quick, frames |-> <<Frame(e, roi)>>,
   image |-> None]

(* The emission of "changed": the handler of a renderer asks for a quick   *)
(* image, the other handlers only queue a redraw.                          *)
EmitChanged ==
  /\ call = Idle
  /\ walk # << >> /\ Head(walk).do = "emit"
  /\ walk' = Tail(walk)
  /\ call' = LET f == Head(walk).filter
             IN  IF f \in Renderers THEN Requested(f, Tiles, TRUE) ELSE Idle
  /\ UNCHANGED <<setting, enabled, dims, cached>>
-----------------------------------------------------------------------------
(* Requests. *)

Top == Head(call.frames)

Request(e, roi, quick) ==
  /\ Quiet
  /\ e \in Ends
  /\ call' = Requested(e, roi, quick)
  /\ UNCHANGED <<setting, enabled, dims, cached, walk>>

Asking(f) == /\ call.frames # << >> /\ call.image = None
             /\ Top.filter = f

(* f answers without asking further. *)
Answer(image) ==
  call' = [call EXCEPT !.image = image, !.frames = Tail(@)]

(* f asks the previous filter for region roi. *)
AskPrevious(f, roi) ==
  call' = [call EXCEPT !.frames =
             <<Frame(Previous[f], roi), [Top EXCEPT !.asked = roi]>> \o Tail(@)]

(* The response of an input filter: it has the whole image. *)
AnswerSource(f) ==
  /\ f \in Sources
  /\ Asking(f)
  /\ Answer([of |-> Now(f), area |-> Tiles, quick |-> call.quick])
  /\ UNCHANGED <<setting, enabled, dims, cached, walk>>

Usable_AnyRoi(c) ==
  /\ cached[c] # None
  /\ cached[c].quick => call.quick

(* The cached image will do: it is not a quick one where a full one is     *)
(* asked for, and it is valid in the region asked for.                     *)
Usable(c) ==
  /\ cached[c] # None
  /\ cached[c].quick => call.quick
  /\ c \in IgnoreRoi \/ Top.roi \subseteq cached[c].roi

Hit(c) ==
  /\ c \in Caches
  /\ Asking(c)
  /\ Usable(c)
  /\ Answer(cached[c].image)
  /\ UNCHANGED <<setting, enabled, dims, cached, walk>>

(* flush() and ask; get_image8() does so as well when it is asked for no   *)
(* region and the cached image has one.                                    *)
Miss(c) ==
  /\ c \in Caches
  /\ Asking(c)
  /\ Usable(c) => c \notin IgnoreRoi /\ Top.roi = Tiles
  /\ cached' = [cached EXCEPT ![c] = None]
  /\ AskPrevious(c, IF c \in IgnoreRoi THEN Tiles ELSE Top.roi)
  /\ UNCHANGED <<setting, enabled, dims, walk>>

Ask_EmptyRegion(f) ==
  /\ f \notin Sources \cup Caches
  /\ Asking(f)
  /\ \E roi \in SUBSET Tiles :
       /\ f \in Pixels \/ ~ Enabled(f) => roi = Top.roi
       /\ f \in Resamples => roi \in {Top.roi, Tiles}
       /\ AskPrevious(f, roi)
  /\ UNCHANGED <<setting, enabled, dims, cached, walk>>

(* A disabled filter and a pixel filter pass the region on, a shape filter *)
(* maps it to another one, a resample filter drops it if it scales.        *)
Ask(f) ==
  /\ f \notin Sources \cup Caches
  /\ Asking(f)
  /\ \E roi \in Rois :
       /\ f \in Pixels \/ ~ Enabled(f) => roi = Top.roi
       /\ f \in Resamples => roi \in {Top.roi, Tiles}
       /\ AskPrevious(f, roi)
  /\ UNCHANGED <<setting, enabled, dims, cached, walk>>

Answered(f) == /\ call.frames # << >> /\ call.image # None
               /\ Top.filter = f

(* The part of its output that f may claim to be valid. *)
OutputArea(f) ==
  IF f \in Shapes
    THEN IF Top.asked \subseteq call.image.area THEN Top.roi ELSE {}
  ELSE IF f \in Pixels THEN call.image.area \cap Top.roi
  ELSE call.image.area

Output(f) ==
  [of |-> [g \in Above[f] |-> IF g = f THEN State(f) ELSE call.image.of[g]],
   area |-> OutputArea(f),
   quick |-> call.image.quick]

Process(f) ==
  /\ f \notin Caches
  /\ Answered(f)
  /\ Answer(Output(f))
  /\ UNCHANGED <<setting, enabled, dims, cached, walk>>

(* The cache keeps the response, marked with what was asked for. *)
Store(c) ==
  /\ c \in Caches
  /\ Answered(c)
  /\ cached' = [cached EXCEPT ![c] =
                  [image |-> Output(c), roi |-> Top.asked, quick |-> call.quick]]
  /\ Answer(Output(c))
  /\ UNCHANGED <<setting, enabled, dims, walk>>

Delivered == call.frames = << >> /\ call.image # None

(* The widget has its image. *)
Return ==
  /\ Delivered
  /\ call' = Idle
  /\ UNCHANGED <<setting, enabled, dims, cached, walk>>
-----------------------------------------------------------------------------
UserStep ==
  \/ \E f \in Filters, v \in Settings : Assign(f, v) \/ SetTarget(f, v)
  \/ \E f \in Switchable, on \in BOOLEAN : SetEnabled(f, on)
  \/ \E e \in Ends, roi \in Rois, quick \in BOOLEAN : Request(e, roi, quick)

WalkStep ==
  \/ \E f \in Filters : VisitCache(f) \/ VisitResample(f) \/ VisitOther(f)
  \/ EmitChanged

CallStep ==
  \/ \E f \in Filters : \/ AnswerSource(f) \/ Hit(f) \/ Miss(f) \/ Ask(f)
                         \/ Process(f) \/ Store(f)
  \/ Return

Next == UserStep \/ WalkStep \/ CallStep

Spec == Init /\ [][Next]_vars
-----------------------------------------------------------------------------
(* The shape of the state; what an image was computed from is left open.   *)
TypeOK ==
  /\ setting \in [Filters \ Caches -> Settings]
  /\ enabled \in [Switchable -> BOOLEAN]
  /\ DOMAIN dims = Resamples
  /\ DOMAIN cached = Caches
  /\ \A c \in Caches : cached[c] # None =>
       /\ cached[c].roi \in Rois /\ cached[c].quick \in BOOLEAN
       /\ DOMAIN cached[c].image.of = Above[c]
  /\ walk \in Seq([do : {"visit", "emit"}, filter : Filters, dim : BOOLEAN])
  /\ call.frames \in Seq([filter : Filters, roi : Rois, asked : SUBSET Tiles])

(* The filters a walk has still to reach. *)
Pending(f) ==
  \E i \in DOMAIN walk : walk[i].do = "visit" /\ walk[i].filter \in Above[f]

(* A cache holds the image that its filters would compute now, or else a   *)
(* walk is under way that will reach it, whatever was changed, switched,   *)
(* rendered or cached in between.                                          *)
CachesCoherent ==
  \A c \in Caches :
    cached[c] # None => cached[c].image.of = Now(c) \/ Pending(c)

(* The size a resample filter has worked out is that of the filters before *)
(* it as they are now, or a walk is under way that will reach it.          *)
SizesAgree ==
  \A r \in Resamples :
    dims[r] # None => dims[r] = Dimensions(r, setting[r]) \/ Pending(r)

(* Whoever asks for an image is given the one of the current settings, the *)
(* handler that asks in the middle of a walk included.                     *)
DeliveredCurrent == Delivered => call.image.of = Now(call.end)

(* It is valid in all of the region asked for, although caches, resample   *)
(* and shape filters each change the region on its way, and it is a full   *)
(* one unless a quick one will do.                                         *)
DeliveredFits ==
  Delivered => /\ call.roi \subseteq call.image.area
               /\ call.image.quick => call.quick
=============================================================================
