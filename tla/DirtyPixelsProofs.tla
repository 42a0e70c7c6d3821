------------------------- MODULE DirtyPixelsProofs -------------------------
(***************************************************************************)
(* Proofs about DirtyPixels, for screens of any size and any drawings: the *)
(* state keeps its type, the dirty rectangle knows what was not sent, and  *)
(* every pixel between child and page is accounted for.                    *)
(***************************************************************************)
EXTENDS DirtyPixels, TLAPS

\* What the last rectangle in the socket says of a pixel is what the child has there.
PipeIsCurrent ==
    \A p \in Pixels, i \in DOMAIN pipe :
        /\ p \in Area(pipe[i].rc)
        /\ \A j \in DOMAIN pipe : j > i => p \notin Area(pipe[j].rc)
        => pipe[i].pixels[p] = vfb[p]

\* A pixel that is not in the socket is right in the shadow frame buffer, and either
\* that was announced or the server still has to.
ShadowFollows ==
    up /\ instep => \A p \in Pixels : vfb[p] # Blank /\ ~InPipe(p) =>
        /\ shadow_fb[p] = Rgb888[vfb[p]]
        /\ sent[p].shade = shadow_fb[p] \/ InDirty(p) \/ p \in missed

\* Images are numbered in the order of their announcement.
Numbered ==
    /\ \A p \in Pixels : /\ sent[p].at <= saved
                         /\ newest[p] <= sent[p].at
                         /\ canvas[p].at <= newest[p]
    /\ \A m \in UnderWay : \A p \in Area(m.rc) :
          /\ m.at <= sent[p].at
          /\ m.at = sent[p].at => m.pixels[p] = sent[p].shade

\* What was announced last of a pixel is on the canvas, or on its way, or was there.
OnItsWay ==
    \A p \in Pixels : \/ canvas[p] = sent[p]
                      \/ \E m \in UnderWay : p \in Area(m.rc) /\ m.at = sent[p].at
                      \/ newest[p] = sent[p].at /\ Behind(p)

Inv == TypeOK /\ PipeIsCurrent /\ ShadowFollows /\ Numbered /\ OnItsWay

-----------------------------------------------------------------------------
(* Rectangles and sequences *)

LEMMA AreaPixels == ASSUME NEW rc PROVE Area(rc) \subseteq Pixels
  BY DEF Area

LEMMA PixelNumbers == ASSUME NEW p \in Pixels PROVE p[1] \in Int /\ p[2] \in Int
  BY SizeAssumption DEF Pixels

LEMMA NoRectType == NoRect \in RECT /\ Area(NoRect) = {}
  <1>1. NoRect \in RECT
    BY SizeAssumption DEF NoRect, RECT
  <1>2. \A p \in Pixels : p \notin Area(NoRect)
    BY PixelNumbers DEF Area, NoRect
  <1> QED BY <1>1, <1>2, AreaPixels

\* Merging loses no pixel of either rectangle.
LEMMA MergedCovers ==
    ASSUME NEW rc \in RECT, NEW new \in RECT
    PROVE  /\ Merged(rc, new) \in RECT
           /\ Area(rc) \subseteq Area(Merged(rc, new))
           /\ Area(new) \subseteq Area(Merged(rc, new))
  <1> DEFINE empty == rc.right - rc.left <= 0 /\ rc.bottom - rc.top <= 0
  <1>0. /\ rc.left \in 0 .. Width /\ rc.top \in 0 .. Height
        /\ rc.right \in 0 .. Width /\ rc.bottom \in 0 .. Height
        /\ new.left \in 0 .. Width /\ new.top \in 0 .. Height
        /\ new.right \in 0 .. Width /\ new.bottom \in 0 .. Height
    BY DEF RECT
  <1>1. CASE empty
    <2>1. Merged(rc, new) = new
      BY <1>1 DEF Merged
    <2>2. \A p \in Pixels : p \notin Area(rc)
      BY <1>0, <1>1, SizeAssumption, PixelNumbers DEF Area
    <2> QED BY <2>1, <2>2, AreaPixels
  <1>2. CASE ~empty
    <2> DEFINE m == Merged(rc, new)
    <2>1. m = [left |-> Lesser(rc.left, new.left), top |-> Lesser(rc.top, new.top),
               right |-> Greater(rc.right, new.right), bottom |-> Greater(rc.bottom, new.bottom)]
      BY <1>2 DEF Merged
    <2>2. /\ m.left = Lesser(rc.left, new.left) /\ m.top = Lesser(rc.top, new.top)
          /\ m.right = Greater(rc.right, new.right) /\ m.bottom = Greater(rc.bottom, new.bottom)
      BY <2>1
    <2>3. m \in RECT
      BY <1>0, <2>1, SizeAssumption DEF RECT, Lesser, Greater
    <2>4. /\ m.left <= rc.left /\ m.left <= new.left /\ m.top <= rc.top /\ m.top <= new.top
          /\ m.right >= rc.right /\ m.right >= new.right
          /\ m.bottom >= rc.bottom /\ m.bottom >= new.bottom
      BY <1>0, <2>2, SizeAssumption DEF Lesser, Greater
    <2>5. /\ m.left \in 0 .. Width /\ m.top \in 0 .. Height
          /\ m.right \in 0 .. Width /\ m.bottom \in 0 .. Height
      BY <2>3 DEF RECT
    <2> HIDE DEF m
    <2>6. \A p \in Pixels : p \in Area(rc) \/ p \in Area(new) => p \in Area(m)
      BY <1>0, <2>4, <2>5, SizeAssumption, PixelNumbers DEF Area
    <2> QED BY <2>3, <2>6, AreaPixels DEF m
  <1> QED BY <1>1, <1>2

LEMMA AppendSet ==
    ASSUME NEW S, NEW s \in Seq(S), NEW x \in S
    PROVE  /\ Append(s, x) \in Seq(S)
           /\ ToSet(Append(s, x)) = ToSet(s) \cup {x}
  <1> DEFINE t == Append(s, x)
  <1>1. /\ t \in Seq(S) /\ Len(s) \in Nat /\ DOMAIN s = 1 .. Len(s)
        /\ DOMAIN t = 1 .. Len(s) + 1 /\ t[Len(s) + 1] = x
        /\ \A i \in 1 .. Len(s) : t[i] = s[i]
    OBVIOUS
  <1> HIDE DEF t
  <1>2. \A y : y \in ToSet(t) <=> \E i \in 1 .. Len(s) + 1 : y = t[i]
    BY <1>1 DEF ToSet
  <1>3. \A y : y \in ToSet(s) <=> \E i \in 1 .. Len(s) : y = s[i]
    BY <1>1 DEF ToSet
  <1>4. 1 .. Len(s) + 1 = (1 .. Len(s)) \cup {Len(s) + 1}
    BY <1>1
  <1>5. ToSet(t) = ToSet(s) \cup {x}
    BY <1>1, <1>2, <1>3, <1>4
  <1> QED BY <1>1, <1>5 DEF t

LEMMA HeadTailSet ==
    ASSUME NEW S, NEW s \in Seq(S), s # <<>>
    PROVE  /\ Tail(s) \in Seq(S) /\ Head(s) \in S
           /\ ToSet(s) = {Head(s)} \cup ToSet(Tail(s))
  <1>1. Tail(s) \in Seq(S) /\ Head(s) \in S /\ Len(s) \in Nat \ {0} /\ Head(s) = s[1]
    OBVIOUS
  <1>2. /\ DOMAIN s = 1 .. Len(s) /\ DOMAIN Tail(s) = 1 .. Len(s) - 1
        /\ \A i \in 1 .. Len(s) - 1 : Tail(s)[i] = s[i + 1]
    BY <1>1
  <1> DEFINE t == Tail(s)
  <1> HIDE DEF t
  <1>3. \A y : y \in ToSet(t) <=> \E i \in 1 .. Len(s) - 1 : y = s[i + 1]
    BY <1>1, <1>2 DEF ToSet, t
  <1>4. \A y : y \in ToSet(s) <=> \E i \in 1 .. Len(s) : y = s[i]
    BY <1>1, <1>2 DEF ToSet
  <1>5. ASSUME NEW y \in ToSet(s), y # s[1] PROVE y \in ToSet(t)
    <2>1. PICK i \in 1 .. Len(s) : y = s[i]
      BY <1>4, <1>5
    <2>2. i - 1 \in 1 .. Len(s) - 1 /\ (i - 1) + 1 = i
      BY <1>1, <1>5, <2>1
    <2> QED BY <1>3, <2>1, <2>2
  <1>6. ASSUME NEW y \in ToSet(t) PROVE y \in ToSet(s)
    <2>1. PICK i \in 1 .. Len(s) - 1 : y = s[i + 1]
      BY <1>3, <1>6
    <2> QED BY <1>1, <1>4, <2>1
  <1>7. s[1] \in ToSet(s)
    BY <1>1, <1>4
  <1>8. ToSet(s) = {s[1]} \cup ToSet(t)
    BY <1>5, <1>6, <1>7
  <1> QED BY <1>1, <1>8 DEF t

-----------------------------------------------------------------------------
(* The invariant, action by action *)

\* Steps that leave pixels, rectangles and images alone.
Quiet == /\ UNCHANGED <<vfb, pipe, shadow_fb, rc_dirty, saved, coming, page, sent, missed>>
         /\ (up' => up) /\ (instep' => instep)

LEMMA QuietStep ==
    ASSUME Inv, Quiet
    PROVE  PipeIsCurrent' /\ ShadowFollows' /\ Numbered' /\ OnItsWay'
  <1>1. PipeIsCurrent'
    BY DEF Inv, Quiet, PipeIsCurrent
  <1>2. ShadowFollows'
    BY DEF Inv, Quiet, ShadowFollows, InPipe, InDirty
  <1>3. Numbered'
    BY DEF Inv, Quiet, Numbered, UnderWay, page
  <1>4. OnItsWay'
    BY DEF Inv, Quiet, OnItsWay, UnderWay, Behind, page
  <1> QED BY <1>1, <1>2, <1>3, <1>4

LEMMA GoStep ==
    ASSUME Inv, NEW here, NEW there \in {"loop", "save", "failed"}, Go(here, there)
    PROVE  Inv'
  <1>1. Quiet /\ TypeOK'
    BY DEF Go, Quiet, child, page, Inv, TypeOK
  <1> QED BY <1>1, QuietStep DEF Inv

\* The steps of the page leave the pipe and the server alone, and others the page.
LEMMA PipeKept ==
    ASSUME Inv, UNCHANGED <<vfb, pipe>>
    PROVE  PipeIsCurrent'
  BY DEF Inv, PipeIsCurrent

LEMMA ServerKept ==
    ASSUME Inv, UNCHANGED <<up, instep, vfb, pipe, shadow_fb, rc_dirty, sent, missed>>
    PROVE  ShadowFollows'
  BY DEF Inv, ShadowFollows, InPipe, InDirty

LEMMA PageKept ==
    ASSUME Inv, UNCHANGED <<saved, sent, coming, page>>
    PROVE  Numbered' /\ OnItsWay'
  <1>1. Numbered'
    BY DEF Inv, Numbered, UnderWay, page
  <1>2. OnItsWay'
    BY DEF Inv, OnItsWay, UnderWay, Behind, page
  <1> QED BY <1>1, <1>2

LEMMA DrawsStep ==
    ASSUME Inv, NEW rc \in ChildRects, NEW pixels \in Pictures, Draws(rc, pixels)
    PROVE  Inv'
  <1> DEFINE drawing == [rc |-> rc, pixels |-> pixels]
  <1>0. drawing \in Drawing
    BY PicturesAssumption DEF Drawing
  <1>1. pipe \in Seq(Drawing) /\ pipe' = Append(pipe, drawing)
    BY DEF Inv, TypeOK, Draws
  <1>2. /\ DOMAIN pipe = 1 .. Len(pipe) /\ DOMAIN pipe' = 1 .. Len(pipe) + 1
        /\ Len(pipe) \in Nat /\ pipe' \in Seq(Drawing)
        /\ pipe'[Len(pipe) + 1] = drawing
        /\ \A i \in 1 .. Len(pipe) : pipe'[i] = pipe[i]
    BY <1>0, <1>1
  <1>3. vfb' = [p \in Pixels |-> IF p \in Area(rc) THEN pixels[p] ELSE vfb[p]]
    BY DEF Draws
  <1>4. \A p \in Pixels : InPipe(p)' <=> InPipe(p) \/ p \in Area(rc)
    BY <1>2 DEF InPipe
  <1>5. TypeOK'
    <2>1. vfb' \in [Pixels -> Colors \cup {Blank}]
      BY <1>3, PicturesAssumption DEF Inv, TypeOK
    <2> QED BY <1>2, <2>1 DEF Inv, TypeOK, Draws, server, page
  <1>6. PipeIsCurrent'
    <2> SUFFICES ASSUME NEW p \in Pixels, NEW i \in 1 .. Len(pipe) + 1,
                        p \in Area(pipe'[i].rc),
                        \A j \in 1 .. Len(pipe) + 1 : j > i => p \notin Area(pipe'[j].rc)
                 PROVE  pipe'[i].pixels[p] = vfb'[p]
      BY <1>2 DEF PipeIsCurrent
    <2>1. CASE i = Len(pipe) + 1
      BY <1>2, <1>3, <2>1
    <2>2. CASE i \in 1 .. Len(pipe)
      <3>1. p \notin Area(rc)
        BY <1>2, <2>2
      <3>2. \A j \in 1 .. Len(pipe) : j > i => p \notin Area(pipe[j].rc)
        BY <1>2
      <3>3. pipe[i].pixels[p] = vfb[p]
        BY <1>2, <2>2, <3>2 DEF Inv, PipeIsCurrent
      <3> QED BY <1>2, <1>3, <2>2, <3>1, <3>3
    <2> QED BY <1>2, <2>1, <2>2
  <1>7. ShadowFollows'
    <2> SUFFICES ASSUME up, instep, NEW p \in Pixels, vfb'[p] # Blank, ~InPipe(p)'
                 PROVE  /\ shadow_fb[p] = Rgb888[vfb'[p]]
                        /\ sent[p].shade = shadow_fb[p] \/ InDirty(p) \/ p \in missed
      BY DEF ShadowFollows, Draws, server, InDirty
    <2>1. vfb'[p] = vfb[p] /\ ~InPipe(p)
      BY <1>3, <1>4
    <2> QED BY <2>1 DEF Inv, ShadowFollows
  <1>8. Numbered' /\ OnItsWay'
    BY PageKept DEF Draws, server
  <1> QED BY <1>5, <1>6, <1>7, <1>8 DEF Inv

LEMMA ClientDataStep ==
    ASSUME Inv, us_on_client_data
    PROVE  Inv'
  <1> DEFINE m == Head(pipe)
             read == Copied(shadow_fb, Area(m.rc), Converted(m.pixels))
  <1>1. pipe \in Seq(Drawing) /\ pipe # <<>> /\ pipe' = Tail(pipe)
    BY DEF Inv, TypeOK, us_on_client_data
  <1>2. /\ Len(pipe) \in Nat \ {0} /\ m \in Drawing /\ m = pipe[1] /\ pipe' \in Seq(Drawing)
        /\ DOMAIN pipe = 1 .. Len(pipe) /\ DOMAIN pipe' = 1 .. Len(pipe) - 1
        /\ \A i \in 1 .. Len(pipe) - 1 : pipe'[i] = pipe[i + 1]
    BY <1>1
  <1>3. m.rc \in RECT /\ m.pixels \in [Pixels -> Colors]
    BY <1>2 DEF Drawing
  <1>4. /\ rc_dirty' = Merged(rc_dirty, m.rc)
        /\ \/ shadow_fb' = read /\ instep' = instep
           \/ /\ \E rubbish \in Rubbish, short \in SUBSET Area(m.rc) :
                    shadow_fb' = Copied(read, short, rubbish)
              /\ instep' = FALSE
        /\ UNCHANGED <<child, due, pc, throttled, up, saved, coming, page, sent, missed>>
    BY DEF us_on_client_data
  <1> HIDE DEF m
  <1>5. /\ rc_dirty' \in RECT
        /\ Area(rc_dirty) \subseteq Area(rc_dirty') /\ Area(m.rc) \subseteq Area(rc_dirty')
    BY <1>3, <1>4, MergedCovers DEF Inv, TypeOK
  <1>6. \A p \in Pixels : read[p] = IF p \in Area(m.rc) THEN Rgb888[m.pixels[p]] ELSE shadow_fb[p]
    BY DEF Copied, Converted
  <1>7. read \in [Pixels -> Shades]
    BY <1>3, ColorsAssumption DEF Inv, TypeOK, Copied, Converted
  <1> HIDE DEF read
  <1>8. TypeOK'
    <2>1. shadow_fb' \in [Pixels -> Shades]
      BY <1>4, <1>7, PicturesAssumption DEF Copied
    <2>2. instep' \in BOOLEAN
      BY <1>4 DEF Inv, TypeOK
    <2> QED BY <1>2, <1>4, <1>5, <2>1, <2>2 DEF Inv, TypeOK, child, page
  <1>9. PipeIsCurrent'
    <2> SUFFICES ASSUME NEW p \in Pixels, NEW i \in 1 .. Len(pipe) - 1,
                        p \in Area(pipe'[i].rc),
                        \A j \in 1 .. Len(pipe) - 1 : j > i => p \notin Area(pipe'[j].rc)
                 PROVE  pipe'[i].pixels[p] = vfb[p]
      BY <1>2, <1>4 DEF PipeIsCurrent, child
    <2>1. ASSUME NEW k \in 1 .. Len(pipe), k > i + 1 PROVE p \notin Area(pipe[k].rc)
      <3>1. k - 1 \in 1 .. Len(pipe) - 1 /\ k - 1 > i /\ (k - 1) + 1 = k
        BY <1>2, <2>1
      <3> QED BY <1>2, <3>1
    <2>2. i + 1 \in 1 .. Len(pipe) /\ p \in Area(pipe[i + 1].rc)
      BY <1>2
    <2>3. pipe[i + 1].pixels[p] = vfb[p]
      BY <1>2, <2>1, <2>2 DEF Inv, PipeIsCurrent
    <2> QED BY <1>2, <2>3
  <1>10. ASSUME NEW p \in Pixels, p \notin Area(m.rc), InPipe(p) PROVE InPipe(p)'
    <2>1. PICK i \in 1 .. Len(pipe) : p \in Area(pipe[i].rc)
      BY <1>2, <1>10 DEF InPipe
    <2>2. i # 1
      BY <1>2, <1>10, <2>1
    <2>3. i - 1 \in 1 .. Len(pipe) - 1 /\ (i - 1) + 1 = i
      BY <1>2, <2>2
    <2>4. p \in Area(pipe'[i - 1].rc)
      BY <1>2, <2>1, <2>3
    <2> QED BY <1>2, <2>3, <2>4 DEF InPipe
  <1>11. ASSUME NEW p \in Pixels, p \in Area(m.rc), ~InPipe(p)' PROVE m.pixels[p] = vfb[p]
    <2>1. ASSUME NEW j \in 1 .. Len(pipe), j > 1 PROVE p \notin Area(pipe[j].rc)
      <3>1. j - 1 \in 1 .. Len(pipe) - 1 /\ (j - 1) + 1 = j
        BY <1>2, <2>1
      <3> QED BY <1>2, <1>11, <3>1 DEF InPipe
    <2>2. 1 \in DOMAIN pipe
      BY <1>2
    <2> QED BY <1>2, <1>11, <2>1, <2>2 DEF Inv, PipeIsCurrent
  <1>12. ShadowFollows'
    <2> SUFFICES ASSUME up', instep', NEW p \in Pixels, vfb'[p] # Blank, ~InPipe(p)'
                 PROVE  /\ shadow_fb'[p] = Rgb888[vfb'[p]]
                        /\ sent'[p].shade = shadow_fb'[p] \/ InDirty(p)' \/ p \in missed'
      BY DEF ShadowFollows
    <2>1. /\ up /\ instep /\ shadow_fb' = read
          /\ vfb' = vfb /\ sent' = sent /\ missed' = missed
      BY <1>4 DEF child
    <2>2. CASE p \in Area(m.rc)
      <3>1. shadow_fb'[p] = Rgb888[vfb'[p]]
        BY <1>6, <1>11, <2>1, <2>2
      <3>2. InDirty(p)'
        BY <1>5, <2>2 DEF InDirty
      <3> QED BY <3>1, <3>2
    <2>3. CASE p \notin Area(m.rc)
      <3>1. ~InPipe(p)
        BY <1>10, <2>3
      <3>2. /\ shadow_fb[p] = Rgb888[vfb[p]]
            /\ sent[p].shade = shadow_fb[p] \/ InDirty(p) \/ p \in missed
        BY <2>1, <3>1 DEF Inv, ShadowFollows
      <3>3. shadow_fb'[p] = shadow_fb[p]
        BY <1>6, <2>1, <2>3
      <3>4. InDirty(p) => InDirty(p)'
        BY <1>5 DEF InDirty
      <3> QED BY <2>1, <3>2, <3>3, <3>4
    <2> QED BY <2>2, <2>3
  <1>13. Numbered' /\ OnItsWay'
    BY <1>4, PageKept
  <1> QED BY <1>8, <1>9, <1>12, <1>13 DEF Inv

LEMMA UnderWayType ==
    ASSUME TypeOK, NEW m \in UnderWay
    PROVE  m \in Image /\ m.at \in Nat
  <1>1. CASE m \in loading
    BY <1>1 DEF TypeOK, Image
  <1>2. CASE m \in ToSet(coming)
    <2>1. PICK i \in DOMAIN coming : m = coming[i]
      BY <1>2 DEF ToSet
    <2>2. coming \in Seq(Image)
      BY DEF TypeOK
    <2>3. m \in Image
      BY <2>1, <2>2
    <2> QED BY <2>3 DEF Image
  <1> QED BY <1>1, <1>2 DEF UnderWay

LEMMA UndertakenStep ==
    ASSUME Inv, Announce, Undertaken
    PROVE  Inv'
  <1> DEFINE image == [rc |-> rc_dirty, pixels |-> shadow_fb, at |-> saved + 1]
  <1>1. /\ pc' = "loop" /\ rc_dirty' = NoRect /\ due' = FALSE
        /\ saved' = saved + 1 /\ coming' = Append(coming, image)
        /\ missed' = missed \ Area(rc_dirty)
        /\ throttled' \in BOOLEAN
        /\ sent' = [p \in Pixels |-> IF p \in Area(rc_dirty)
                                     THEN [at |-> saved + 1, shade |-> shadow_fb[p]] ELSE sent[p]]
        /\ UNCHANGED <<child, pipe, instep, shadow_fb, page, up>>
    BY BoundsAssumption DEF Announce, Undertaken, us_reset_dirty_pixels
  <1>2. image \in Image /\ image.rc = rc_dirty /\ image.pixels = shadow_fb /\ image.at = saved + 1
    BY DEF Inv, TypeOK, Image
  <1> HIDE DEF image
  <1>3. coming' \in Seq(Image) /\ UnderWay' = UnderWay \cup {image}
    BY <1>1, <1>2, AppendSet DEF UnderWay, page, Inv, TypeOK
  <1>4. TypeOK'
    <2>1. sent' \in [Pixels -> Shown]
      BY <1>1 DEF Inv, TypeOK, Shown
    <2>2. saved' \in Nat /\ missed' \subseteq Pixels /\ rc_dirty' \in RECT
      BY <1>1, NoRectType DEF Inv, TypeOK
    <2>3. /\ vfb' \in [Pixels -> Colors \cup {Blank}] /\ draws' \in Nat /\ pipe' \in Seq(Drawing)
          /\ instep' \in BOOLEAN /\ shadow_fb' \in [Pixels -> Shades] /\ up' \in BOOLEAN
          /\ loading' \in SUBSET Image /\ canvas' \in [Pixels -> Shown] /\ newest' \in [Pixels -> Nat]
      BY <1>1 DEF Inv, TypeOK, child, page
    <2>4. due' \in BOOLEAN /\ pc' \in {"loop", "save", "failed"} /\ throttled' \in BOOLEAN
      BY <1>1
    <2> QED BY <1>3, <2>1, <2>2, <2>3, <2>4 DEF TypeOK
  <1>5. PipeIsCurrent'
    BY <1>1, PipeKept DEF child
  <1>6. ASSUME NEW p \in Pixels
        PROVE  /\ p \in Area(rc_dirty) => sent'[p].at = saved + 1 /\ sent'[p].shade = shadow_fb[p]
               /\ p \notin Area(rc_dirty) => sent'[p] = sent[p]
    BY <1>1
  <1>7. ShadowFollows'
    <2> SUFFICES ASSUME up', instep', NEW p \in Pixels, vfb'[p] # Blank, ~InPipe(p)'
                 PROVE  /\ shadow_fb'[p] = Rgb888[vfb'[p]]
                        /\ sent'[p].shade = shadow_fb'[p] \/ p \in missed'
      BY DEF ShadowFollows
    <2>1. /\ shadow_fb[p] = Rgb888[vfb[p]]
          /\ sent[p].shade = shadow_fb[p] \/ InDirty(p) \/ p \in missed
      BY <1>1 DEF Inv, ShadowFollows, InPipe, child
    <2> QED BY <1>1, <1>6, <2>1 DEF InDirty, child
  <1>8. Numbered'
    <2>1. ASSUME NEW p \in Pixels
          PROVE  sent'[p].at <= saved' /\ newest'[p] <= sent'[p].at /\ canvas'[p].at <= newest'[p]
      <3>1. /\ sent[p].at <= saved /\ newest[p] <= sent[p].at /\ canvas[p].at <= newest[p]
            /\ sent[p].at \in Nat /\ newest[p] \in Nat /\ canvas[p].at \in Nat /\ saved \in Nat
        BY DEF Inv, Numbered, TypeOK, Shown
      <3> QED BY <1>1, <1>6, <3>1 DEF page
    <2>2. ASSUME NEW m \in UnderWay', NEW p \in Area(m.rc)
          PROVE  /\ m.at <= sent'[p].at
                 /\ m.at = sent'[p].at => m.pixels[p] = sent'[p].shade
      <3>0. p \in Pixels /\ saved \in Nat /\ sent[p].at \in Nat /\ sent[p].at <= saved
        BY AreaPixels DEF Inv, Numbered, TypeOK, Shown
      <3>1. CASE m = image
        BY <1>2, <1>6, <3>0, <3>1
      <3>2. CASE m \in UnderWay
        <4>1. m.at <= sent[p].at /\ (m.at = sent[p].at => m.pixels[p] = sent[p].shade)
          BY <3>2 DEF Inv, Numbered
        <4>2. m.at \in Nat
          BY <3>2, UnderWayType DEF Inv
        <4> QED BY <1>6, <3>0, <4>1, <4>2
      <3> QED BY <1>3, <3>1, <3>2
    <2> QED BY <2>1, <2>2 DEF Numbered
  <1>9. OnItsWay'
    <2> SUFFICES ASSUME NEW p \in Pixels
                 PROVE  \/ canvas'[p] = sent'[p]
                        \/ \E m \in UnderWay' : p \in Area(m.rc) /\ m.at = sent'[p].at
                        \/ newest'[p] = sent'[p].at /\ Behind(p)'
      BY DEF OnItsWay
    <2>1. CASE p \in Area(rc_dirty)
      BY <1>2, <1>3, <1>6, <2>1
    <2>2. CASE p \notin Area(rc_dirty)
      BY <1>1, <1>3, <1>6, <2>2 DEF Inv, OnItsWay, Behind, page
    <2> QED BY <2>1, <2>2
  <1> QED BY <1>4, <1>5, <1>7, <1>8, <1>9 DEF Inv

LEMMA AnnounceStep ==
    ASSUME Inv, Announce
    PROVE  Inv'
  <1>1. CASE Undertaken
    BY <1>1, UndertakenStep
  <1>2. CASE Dropped
    <2>1. TypeOK'
      BY <1>2, NoRectType, AreaPixels
      DEF Announce, Dropped, us_reset_dirty_pixels, Inv, TypeOK, child, page
    <2>2. ShadowFollows'
      BY <1>2 DEF Announce, Dropped, Inv, ShadowFollows, InPipe, InDirty, child
    <2>3. PipeIsCurrent' /\ Numbered' /\ OnItsWay'
      BY <1>2, PipeKept, PageKept DEF Announce, Dropped, child
    <2> QED BY <2>1, <2>2, <2>3 DEF Inv
  <1>3. CASE Broken
    <2>1. TypeOK'
      BY <1>3, NoRectType
      DEF Announce, Broken, us_reset_dirty_pixels, Inv, TypeOK, child, page
    <2>2. ShadowFollows'
      BY <1>3 DEF Broken, ShadowFollows
    <2>3. PipeIsCurrent' /\ Numbered' /\ OnItsWay'
      BY <1>3, PipeKept, PageKept DEF Announce, Broken, child
    <2> QED BY <2>1, <2>2, <2>3 DEF Inv
  <1> QED BY <1>1, <1>2, <1>3 DEF Announce

LEMMA MessageStep ==
    ASSUME Inv, onmessage
    PROVE  Inv'
  <1>1. /\ coming \in Seq(Image) /\ coming # <<>> /\ coming' = Tail(coming)
        /\ loading' = loading \cup {Head(coming)}
        /\ UNCHANGED <<child, pipe, server, canvas, newest, sent, missed>>
    BY DEF onmessage, Loading, Inv, TypeOK
  <1>2. /\ coming' \in Seq(Image) /\ Head(coming) \in Image
        /\ ToSet(coming) = {Head(coming)} \cup ToSet(coming')
    BY <1>1, HeadTailSet
  <1>3. UnderWay' = UnderWay
    BY <1>1, <1>2 DEF UnderWay
  <1>4. TypeOK'
    BY <1>1, <1>2 DEF Inv, TypeOK, child, server
  <1>5. PipeIsCurrent' /\ ShadowFollows'
    BY <1>1, PipeKept, ServerKept DEF child, server
  <1>6. Numbered' /\ OnItsWay'
    BY <1>1, <1>3 DEF Inv, Numbered, OnItsWay, Behind, server
  <1> QED BY <1>4, <1>5, <1>6 DEF Inv

LEMMA LoadStep ==
    ASSUME Inv, NEW image \in loading, onload(image)
    PROVE  Inv'
  <1>1. /\ loading' = loading \ {image}
        /\ canvas' = Drawn(image)
        /\ newest' = [p \in Pixels |-> IF p \in Area(image.rc) THEN Greater(newest[p], image.at)
                                                               ELSE newest[p]]
        /\ UNCHANGED <<child, pipe, server, coming, sent, missed>>
    BY DEF onload
  <1>2. image \in Image /\ image.at \in Nat /\ image.pixels \in [Pixels -> Shades]
    BY DEF Inv, TypeOK, Image
  <1>3. UnderWay' \subseteq UnderWay /\ image \in UnderWay /\ UnderWay \subseteq UnderWay' \cup {image}
    BY <1>1 DEF UnderWay
  <1>4. ASSUME NEW p \in Pixels
        PROVE  /\ p \in Area(image.rc) => /\ canvas'[p] = [at |-> image.at, shade |-> image.pixels[p]]
                                          /\ newest'[p] = Greater(newest[p], image.at)
               /\ p \notin Area(image.rc) => canvas'[p] = canvas[p] /\ newest'[p] = newest[p]
    BY <1>1 DEF Drawn
  <1>4a. ASSUME NEW p \in Area(image.rc) PROVE canvas'[p].at = image.at
    <2>1. canvas'[p] = [at |-> image.at, shade |-> image.pixels[p]]
      BY <1>4, AreaPixels
    <2> QED BY <2>1
  <1>5. TypeOK'
    <2>1. canvas' \in [Pixels -> Shown]
      BY <1>1, <1>2 DEF Drawn, Inv, TypeOK, Shown
    <2>2. newest' \in [Pixels -> Nat]
      BY <1>1, <1>2 DEF Greater, Inv, TypeOK
    <2> QED BY <1>1, <2>1, <2>2 DEF Inv, TypeOK, child, server
  <1>6. PipeIsCurrent' /\ ShadowFollows'
    BY <1>1, PipeKept, ServerKept DEF child, server
  <1>7. ASSUME NEW p \in Pixels
        PROVE  /\ sent'[p] = sent[p] /\ sent[p] = [at |-> sent[p].at, shade |-> sent[p].shade]
               /\ sent[p].at \in Nat /\ newest[p] \in Nat /\ canvas[p].at \in Nat /\ saved \in Nat
               /\ saved' = saved
               /\ sent[p].at <= saved /\ newest[p] <= sent[p].at /\ canvas[p].at <= newest[p]
               /\ p \in Area(image.rc) =>
                      /\ image.at <= sent[p].at
                      /\ image.at = sent[p].at => image.pixels[p] = sent[p].shade
    BY <1>1, <1>3 DEF Inv, TypeOK, Numbered, Shown, server
  <1>8. Numbered'
    <2>1. ASSUME NEW p \in Pixels
          PROVE  sent'[p].at <= saved' /\ newest'[p] <= sent'[p].at /\ canvas'[p].at <= newest'[p]
      <3>1. CASE p \in Area(image.rc)
        <4>1. canvas'[p].at = image.at /\ newest'[p] = Greater(newest[p], image.at)
          BY <1>4, <1>4a, <3>1
        <4>2. /\ sent'[p] = sent[p] /\ saved' = saved /\ sent[p].at \in Nat /\ newest[p] \in Nat
              /\ saved \in Nat /\ sent[p].at <= saved /\ newest[p] <= sent[p].at
              /\ image.at <= sent[p].at
          BY <1>7, <3>1
        <4> QED BY <1>2, <4>1, <4>2 DEF Greater
      <3>2. CASE p \notin Area(image.rc)
        BY <1>4, <1>7, <3>2
      <3> QED BY <3>1, <3>2
    <2>2. ASSUME NEW m \in UnderWay', NEW p \in Area(m.rc)
          PROVE  /\ m.at <= sent'[p].at
                 /\ m.at = sent'[p].at => m.pixels[p] = sent'[p].shade
      BY <1>1, <1>3 DEF Inv, Numbered
    <2> QED BY <2>1, <2>2 DEF Numbered
  <1>9. OnItsWay'
    <2> SUFFICES ASSUME NEW p \in Pixels
                 PROVE  \/ canvas'[p] = sent[p]
                        \/ \E m \in UnderWay' : p \in Area(m.rc) /\ m.at = sent[p].at
                        \/ newest'[p] = sent[p].at /\ canvas'[p].at < newest'[p]
      BY <1>1 DEF OnItsWay, Behind
    <2>0. \/ canvas[p] = sent[p]
          \/ \E m \in UnderWay : p \in Area(m.rc) /\ m.at = sent[p].at
          \/ newest[p] = sent[p].at /\ canvas[p].at < newest[p]
      BY DEF Inv, OnItsWay, Behind
    <2>1. CASE p \notin Area(image.rc)
      BY <1>3, <1>4, <2>0, <2>1
    <2>2. CASE p \in Area(image.rc) /\ image.at = sent[p].at
      <3>1. image.pixels[p] = sent[p].shade
        BY <1>7, <2>2
      <3> QED BY <1>4, <1>7, <2>2, <3>1
    <2>3. CASE p \in Area(image.rc) /\ image.at # sent[p].at
      <3>0. /\ image.at <= sent[p].at /\ sent[p].at \in Nat /\ newest[p] \in Nat
            /\ canvas[p].at \in Nat /\ newest[p] <= sent[p].at /\ canvas[p].at <= newest[p]
        BY <1>7, <2>3
      <3>1. image.at < sent[p].at /\ canvas'[p].at = image.at
        BY <1>2, <1>4a, <2>3, <3>0
      <3>2. CASE newest[p] = sent[p].at
        <4>1. newest'[p] = sent[p].at
          BY <1>2, <1>4, <1>7, <2>3, <3>1, <3>2 DEF Greater
        <4> QED BY <3>1, <4>1
      <3>3. CASE newest[p] # sent[p].at
        <4>1. canvas[p] # sent[p]
          BY <3>0, <3>3
        <4>2. PICK m \in UnderWay : p \in Area(m.rc) /\ m.at = sent[p].at
          BY <2>0, <3>3, <4>1
        <4>3. m # image
          BY <2>3, <4>2
        <4> QED BY <1>3, <4>2, <4>3
      <3> QED BY <3>2, <3>3
    <2> QED BY <2>1, <2>2, <2>3
  <1> QED BY <1>5, <1>6, <1>8, <1>9 DEF Inv

-----------------------------------------------------------------------------
(* The theorems *)

\* Init establishes the invariant, and every step keeps it.
THEOREM PixelInvariant == Spec => []Inv
  <1>1. Init => Inv
    <2> SUFFICES ASSUME Init PROVE Inv
      OBVIOUS
    <2>1. UnderWay = {} /\ DOMAIN pipe = {}
      BY DEF Init, UnderWay, ToSet
    <2>2. TypeOK
      <3>1. NothingShown \in [Pixels -> Shown]
        BY DEF NothingShown, Shown
      <3>2. shadow_fb \in [Pixels -> Shades]
        BY PicturesAssumption DEF Init
      <3>3. pipe \in Seq(Drawing) /\ coming \in Seq(Image)
        BY DEF Init
      <3> QED BY <3>1, <3>2, <3>3, NoRectType DEF Init, TypeOK
    <2>3. PipeIsCurrent /\ ShadowFollows
      BY <2>1 DEF Init, PipeIsCurrent, ShadowFollows
    <2>4. Numbered /\ OnItsWay
      BY <2>1 DEF Init, Numbered, OnItsWay, NothingShown
    <2> QED BY <2>2, <2>3, <2>4 DEF Inv
  <1>2. Inv /\ [Next]_vars => Inv'
    <2> SUFFICES ASSUME Inv, [Next]_vars PROVE Inv'
      OBVIOUS
    <2>1. CASE \E rc \in ChildRects, pixels \in Pictures : Draws(rc, pixels)
      BY <2>1, DrawsStep
    <2>2. CASE us_on_client_data
      BY <2>2, ClientDataStep
    <2>3. CASE Announce
      BY <2>3, AnnounceStep
    <2>4. CASE onmessage
      BY <2>4, MessageStep
    <2>5. CASE \E image \in loading : onload(image)
      BY <2>5, LoadStep
    <2>6. CASE Flush \/ SaveFails \/ Continue
      BY <2>6, GoStep DEF Flush, SaveFails, Continue
    <2>7. CASE ClientDataFails
      <3>1. Quiet /\ TypeOK'
        BY <2>7 DEF ClientDataFails, Quiet, child, page, Inv, TypeOK
      <3> QED BY <3>1, QuietStep DEF Inv
    <2>11. CASE handle_tcp_close
      <3>1. Quiet /\ TypeOK'
        BY <2>11 DEF handle_tcp_close, Quiet, child, page, Inv, TypeOK
      <3> QED BY <3>1, QuietStep DEF Inv
    <2>8. CASE TimePasses
      <3>1. Quiet /\ TypeOK'
        BY <2>8 DEF TimePasses, Quiet, child, page, Inv, TypeOK
      <3> QED BY <3>1, QuietStep DEF Inv
    <2>9. CASE Throttling
      <3>1. throttled' \in BOOLEAN
        BY <2>9, BoundsAssumption DEF Throttling
      <3>2. Quiet /\ TypeOK'
        BY <2>9, <3>1 DEF Throttling, Quiet, child, page, Inv, TypeOK
      <3> QED BY <3>2, QuietStep DEF Inv
    <2>10. CASE UNCHANGED vars
      <3>1. Quiet /\ TypeOK'
        BY <2>10 DEF Quiet, child, server, page, vars, Inv, TypeOK
      <3> QED BY <3>1, QuietStep DEF Inv
    <2> QED BY <2>1, <2>2, <2>3, <2>4, <2>5, <2>6, <2>7, <2>8, <2>9, <2>10, <2>11 DEF Next
  <1> QED BY <1>1, <1>2, PTL DEF Spec

\* The state of the picture's way to the page keeps its type, whatever is drawn: no
\* merging of rectangles leaves the screen.
THEOREM PixelsTypeCorrect == Spec => []TypeOK
  BY PixelInvariant, PTL DEF Inv

\* us_on_client_data and us_reset_dirty_pixels forget no pixel: what was not announced
\* is in the socket, the dirty rectangle or a dropped announcement.
THEOREM NothingForgotten == Spec => []UnsentIsKnown
  <1>1. Inv => UnsentIsKnown
    BY DEF Inv, ShadowFollows, UnsentIsKnown, Watching
  <1> QED BY <1>1, PixelInvariant, PTL

\* From the child to the canvas no pixel goes astray: check_dirty_pixels and the page
\* account for each, but for dropped announcements and overtaking images.
THEOREM EveryPixelAccounted == Spec => []Accounted
  <1>1. Inv => Accounted
    <2> SUFFICES ASSUME Inv, up, instep, NEW p \in Pixels, vfb[p] # Blank,
                        ~InPipe(p), ~InDirty(p), p \notin missed, ~Behind(p)
                 PROVE  \/ Shows(p)
                        \/ \E image \in UnderWay :
                              p \in Area(image.rc) /\ image.pixels[p] = Rgb888[vfb[p]]
      BY DEF Accounted, Watching
    <2>1. sent[p].shade = Rgb888[vfb[p]]
      BY DEF Inv, ShadowFollows
    <2>2. CASE canvas[p] = sent[p]
      BY <2>1, <2>2 DEF Shows
    <2>3. CASE \E m \in UnderWay : p \in Area(m.rc) /\ m.at = sent[p].at
      BY <2>1, <2>3 DEF Inv, Numbered
    <2> QED BY <2>2, <2>3 DEF Inv, OnItsWay
  <1> QED BY <1>1, PixelInvariant, PTL
=============================================================================
