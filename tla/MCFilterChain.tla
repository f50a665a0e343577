---------------------------- MODULE MCFilterChain ----------------------------
(* Two chains on one input, as in the preview widget: crop, cache0,        *)
(* resample, cache1 and effects of a view; and a short one that stands for *)
(* those of the navigator and of the loupe, whose last cache ignores       *)
(* regions, is asked for regions by the loupe, and for the whole image by  *)
(* the handler of the navigator.                                           *)
EXTENDS FilterChain, TLC

CONSTANTS input, crop, cache0, resample, cache1, effects, scale, navigator

MCPrevious ==
  (crop :> input) @@ (cache0 :> crop) @@ (resample :> cache0)
    @@ (cache1 :> resample) @@ (effects :> cache1)
    @@ (scale :> input) @@ (navigator :> scale)

MCNextFilters ==
  (input :> <<crop, scale>>) @@ (crop :> <<cache0>>) @@ (cache0 :> <<resample>>)
    @@ (resample :> <<cache1>>) @@ (cache1 :> <<effects>>) @@ (effects :> <<>>)
    @@ (scale :> <<navigator>>) @@ (navigator :> <<>>)

MCAbove ==
  (input :> {input}) @@ (crop :> {crop, input}) @@ (cache0 :> {cache0, crop, input})
    @@ (resample :> {resample, cache0, crop, input})
    @@ (cache1 :> {cache1, resample, cache0, crop, input})
    @@ (effects :> {effects, cache1, resample, cache0, crop, input})
    @@ (scale :> {scale, input}) @@ (navigator :> {navigator, scale, input})
=============================================================================
